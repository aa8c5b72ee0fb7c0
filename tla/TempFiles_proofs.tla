--------------------------- MODULE TempFiles_proofs ---------------------------
(***************************************************************************)
(* The temporary files, for any number of sessions, programs and saves: a  *)
(* file is judged once, what was found is not dropped without a word, and  *)
(* the directory stays for the programs and no longer; and an update that  *)
(* was not reported as failed is in the archive, or in a session that will *)
(* commit it.  Only the last rests on what the registry of archives does.  *)
(***************************************************************************)
EXTENDS TempFiles, TLAPS, FiniteSetTheorems

Stages == {"none", "open", "asking", "starting", "updating", "updated", "failed", "over"}
Fates == {"none", "unchanged", "declined", "missing", "failed", "updated"}
Files == [there : BOOLEAN, data : Nat, time : Nat]

\* The records, whatever data and tokens of the registry (the set B) are in them.
Temps(B) ==
  [stage : Stages, purpose : {"edit", "outside", "drag"}, token : B,
   file : Files, snapshot : {File},
   programs : Nat, notices : Nat, pending : Nat,
   handled : BOOLEAN, doomed : BOOLEAN,
   refs : SUBSET {"window", "process", "poll", "chain"}, base : B]
Stories(B) ==
  [found : Files, judged : BOOLEAN, fate : Fates, edit : B, written : Nat, replaced : BOOLEAN]

Shaped(B) ==
  /\ temp \in [TempSessions -> Temps(B)]
  /\ story \in [TempSessions -> Stories(B)]
  /\ questions \in [TempSessions -> Nat]
  /\ asking \in Seq(TempSessions)

\* What is waited for, while a session is open.
Waits(t) ==
  CASE t.purpose = "edit" -> t.programs + t.notices = 1
    [] t.purpose = "outside" ->
         /\ t.programs + t.notices = t.pending
         /\ t.refs \cap {"process", "poll"} # {} => t.pending > 0
    [] OTHER -> t.programs + t.notices = 0 /\ t.refs \cap {"process", "poll"} = {}

\* What came of a change, as far as the session is.
Accounted(t, r) ==
  (~r.found.there \/ r.found.time # 0) =>
    /\ t.stage = "updated" => r.written >= r.found.data
    /\ t.stage = "over" => \/ r.fate \in {"declined", "missing", "failed"}
                           \/ r.fate = "updated" /\ r.written >= r.found.data

\* A session with its story while the window is in w.
Untouched(t) == t.refs = {} /\ t.programs = 0 /\ t.notices = 0 /\ ~t.handled
Good(t, r, w) ==
  /\ t.stage = "none" => Untouched(t) /\ ~r.judged
  /\ t.stage = "open" =>
       ~t.handled /\ ~t.doomed /\ ~r.judged /\ "window" \in t.refs /\ Waits(t)
  /\ t.stage \notin {"none", "open"} =>
       /\ t.handled \/ (t.stage = "over" /\ Untouched(t) /\ ~r.judged)
       /\ w = "open" => t.programs = 0
  /\ t.stage = "over" => "window" \notin t.refs
  /\ "chain" \in t.refs <=> t.stage \in {"starting", "updating", "updated", "failed"}
  /\ t.stage \notin {"none", "open", "over"} => t.purpose = "edit"
  /\ r.judged =>
       t.purpose = "edit" /\ t.file.data >= r.found.data /\ Accounted(t, r)

\* The questions are about different sessions, which wait for the answer; closing
\* goes through sessions that were open.
Queued ==
  /\ \A i \in 1..Len(asking) : temp[asking[i]].stage = "asking"
  /\ \A i, j \in 1..Len(asking) : asking[i] = asking[j] => i = j
  /\ \A s \in todo \cap TempSessions : temp[s].handled \/ temp[s].stage = "open"

TempInv ==
  /\ \E B : Shaped(B)
  /\ \A s \in TempSessions : Good(temp[s], story[s], window)
  /\ Queued

-----------------------------------------------------------------------------
(* The records.                                                            *)

LEMMA HandledFields ==
  ASSUME NEW B, NEW t \in Temps(B)
  PROVE  /\ Handled(t) \in Temps(B)
         /\ Handled(t).handled /\ Handled(t).doomed
         /\ Handled(t).stage = t.stage /\ Handled(t).purpose = t.purpose
         /\ Handled(t).file = t.file /\ Handled(t).programs = t.programs
         /\ Handled(t).notices = t.notices /\ Handled(t).refs = t.refs
BY DEF Handled, Temps

LEMMA ReleasedFields ==
  ASSUME NEW B, NEW t \in Temps(B)
  PROVE  /\ Released(t) \in Temps(B)
         /\ Released(t).handled /\ Released(t).stage = "over"
         /\ Released(t).purpose = t.purpose /\ Released(t).file = t.file
         /\ Released(t).programs = t.programs /\ Released(t).notices = t.notices
         /\ Released(t).refs = t.refs \ {"window"}
<1> DEFINE h == Handled(t)
<1>1. /\ h \in Temps(B) /\ h.handled /\ h.purpose = t.purpose /\ h.file = t.file
      /\ h.programs = t.programs /\ h.notices = t.notices /\ h.refs = t.refs
  BY HandledFields
<1>2. Released(t) = [h EXCEPT !.stage = "over", !.refs = h.refs \ {"window"}]
  BY DEF Released
<1>3. h.refs \ {"window"} \in SUBSET {"window", "process", "poll", "chain"} /\ "over" \in Stages
  BY <1>1 DEF Temps, Stages
<1> HIDE DEF h
<1>4. PICK refs \in SUBSET {"window", "process", "poll", "chain"} : refs = h.refs \ {"window"}
  BY <1>3
<1>5. Released(t) = [h EXCEPT !.stage = "over", !.refs = refs]
  BY <1>2, <1>4
<1>6. /\ Released(t) \in Temps(B) /\ Released(t).stage = "over" /\ Released(t).refs = refs
      /\ Released(t).handled = h.handled /\ Released(t).purpose = h.purpose
      /\ Released(t).file = h.file /\ Released(t).programs = h.programs
      /\ Released(t).notices = h.notices
  BY <1>1, <1>3, <1>4, <1>5 DEF Temps
<1>7. QED
  BY <1>1, <1>4, <1>6

LEMMA ShapeGrows ==
  ASSUME NEW B, NEW C, Shaped(B), B \subseteq C
  PROVE  Shaped(C)
BY DEF Shaped, Temps, Stories

\* What the invariant says of a story is not about the disk.
SameStory(r, q) ==
  q.found = r.found /\ q.judged = r.judged /\ q.fate = r.fate /\ q.written = r.written

LEMMA GoodStays ==
  ASSUME NEW t, NEW r, NEW q, NEW w, NEW v,
         Good(t, r, w), SameStory(r, q), v = "open" => w = "open"
  PROVE  Good(t, q, v)
BY DEF Good, SameStory, Accounted

\* A step that changes one session and asks nothing.
LEMMA OneChanges ==
  ASSUME TempInv, NEW s \in TempSessions, NEW t, NEW C, Shaped(C)',
         temp' = [temp EXCEPT ![s] = t],
         \A u \in TempSessions \ {s} : SameStory(story[u], story'[u]),
         Good(t, story'[s], window'), window' = "open" => window = "open",
         asking' = asking, todo' \subseteq todo,
         temp[s].stage = "asking" => t.stage = "asking",
         temp[s].handled \/ temp[s].stage = "open" => t.handled \/ t.stage = "open"
  PROVE  TempInv'
<1>1. /\ DOMAIN temp = TempSessions /\ temp'[s] = t
      /\ \A u \in TempSessions \ {s} : temp'[u] = temp[u]
      /\ asking \in Seq(TempSessions)
  BY DEF TempInv, Shaped
<1>2. \A u \in TempSessions : Good(temp'[u], story'[u], window')
  BY <1>1, GoodStays DEF TempInv
<1>3. Queued'
  <2>1. \A i \in 1..Len(asking) : asking[i] \in TempSessions
    BY <1>1
  <2>2. QED
    BY <1>1, <2>1 DEF TempInv, Queued
<1>4. QED
  BY <1>2, <1>3 DEF TempInv

\* A step that changes no session.
LEMMA NoneChanges ==
  ASSUME TempInv, NEW C, Shaped(C)', UNCHANGED <<temp, asking>>,
         \A u \in TempSessions : SameStory(story[u], story'[u]),
         window' = "open" => window = "open",
         \A s \in todo' \cap TempSessions : s \in todo \/ temp[s].handled \/ temp[s].stage = "open"
  PROVE  TempInv'
<1>1. \A u \in TempSessions : Good(temp'[u], story'[u], window')
  BY GoodStays DEF TempInv
<1>2. Queued'
  BY DEF TempInv, Queued
<1>3. QED
  BY <1>1, <1>2 DEF TempInv

LEMMA ReplacingSame ==
  ASSUME NEW B, Shaped(B), NEW new
  PROVE  /\ Replacing(new) \in [TempSessions -> Stories(B)]
         /\ \A s \in TempSessions : SameStory(story[s], Replacing(new)[s])
<1>1. ASSUME NEW s \in TempSessions
      PROVE  /\ [story[s] EXCEPT !.replaced = TRUE] \in Stories(B)
             /\ SameStory(story[s], [story[s] EXCEPT !.replaced = TRUE])
             /\ story[s] \in Stories(B) /\ SameStory(story[s], story[s])
  BY DEF Shaped, Stories, SameStory
<1>2. QED
  BY <1>1 DEF Replacing

-----------------------------------------------------------------------------
(* The end of a program, and closing.                                      *)

LEMMA FinishedKeepsInv ==
  ASSUME TempInv, NEW s \in TempSessions, NEW t,
         t = temp[s] \/ (temp[s].notices > 0 /\ t = [temp[s] EXCEPT !.notices = @ - 1]),
         temp[s].purpose = "edit", Finished(s, t),
         temp[s].handled \/ temp[s].stage = "open",
         window = "open" => temp[s].notices > 0,
         window' = window, todo' \subseteq todo
  PROVE  TempInv'
<1>1. PICK B : Shaped(B)
  BY DEF TempInv
<1>2. /\ temp[s] \in Temps(B) /\ Good(temp[s], story[s], window) /\ DOMAIN temp = TempSessions
      /\ story[s] \in Stories(B) /\ DOMAIN story = TempSessions
      /\ asking \in Seq(TempSessions) /\ questions \in [TempSessions -> Nat]
  BY <1>1 DEF TempInv, Shaped
<1>3. /\ t \in Temps(B) /\ t.stage = temp[s].stage /\ t.purpose = "edit" /\ t.file = temp[s].file
      /\ t.handled = temp[s].handled /\ t.snapshot = File /\ t.doomed = temp[s].doomed
      /\ t.programs = temp[s].programs /\ t.refs = temp[s].refs
  <2>1. CASE t = temp[s]
    BY <1>2, <2>1 DEF Temps
  <2>2. CASE temp[s].notices > 0 /\ t = [temp[s] EXCEPT !.notices = @ - 1]
    <3>1. temp[s].notices - 1 \in Nat
      BY <1>2, <2>2 DEF Temps
    <3>2. QED
      BY <1>2, <2>2, <3>1 DEF Temps
  <2>3. QED
    BY <2>1, <2>2
<1>4. CASE t.handled
  <2>1. temp' = [temp EXCEPT ![s] = t] /\ UNCHANGED <<asking, questions, story>>
    BY <1>4 DEF Finished
  <2>2. Good(t, story'[s], window')
    BY <1>2, <1>3, <1>4, <2>1 DEF Good, Accounted, Untouched
  <2>3. Shaped(B)'
    BY <1>1, <1>3, <2>1 DEF Shaped
  <2>4. \A u \in TempSessions : SameStory(story[u], story'[u])
    BY <2>1 DEF SameStory
  <2>5. QED
    BY <1>3, <2>1, <2>2, <2>3, <2>4, OneChanges
<1>5. CASE ~t.handled
  <2>1. /\ temp[s].stage = "open" /\ ~story[s].judged
        /\ "chain" \notin temp[s].refs
        /\ window = "open" => t.programs = 0
    BY <1>2, <1>3, <1>5 DEF Good, Temps, Waits
  <2>2. t.file \in Files /\ t.file.data \in Nat /\ t.snapshot = File
    BY <1>2, <1>3 DEF Temps, Files
  <2>3. CASE Changed(t)
    <3> DEFINE n == [Handled(t) EXCEPT !.stage = "asking"]
               r == [story[s] EXCEPT !.found = t.file, !.judged = TRUE]
    <3>1. /\ temp' = [temp EXCEPT ![s] = n] /\ asking' = Append(asking, s)
          /\ questions' = [questions EXCEPT ![s] = @ + 1]
          /\ story' = [story EXCEPT ![s] = r]
      <4>1. /\ temp' = [temp EXCEPT ![s] = n] /\ asking' = Append(asking, s)
            /\ questions' = [questions EXCEPT ![s] = @ + 1]
            /\ story' = [story EXCEPT ![s].found = t.file, ![s].judged = TRUE, ![s].fate = @]
        BY <1>5, <2>3 DEF Finished
      <4>2. story[s] \in Stories(B) /\ story \in [TempSessions -> Stories(B)]
        BY <1>1, <1>2 DEF Shaped
      <4>3. r = [story[s] EXCEPT !.found = t.file, !.judged = TRUE, !.fate = @]
        BY <4>2 DEF Stories
      <4>4. QED
        BY <4>1, <4>2, <4>3
    <3>2. /\ n \in Temps(B) /\ n.handled /\ n.stage = "asking" /\ n.purpose = "edit"
          /\ n.file = t.file /\ n.programs = t.programs /\ n.refs = t.refs
      BY <1>3, HandledFields DEF Temps, Stages
    <3>3. r \in Stories(B) /\ r.judged /\ r.found = t.file
      BY <1>2, <2>2 DEF Stories
    <3> HIDE DEF n, r
    <3>4. Shaped(B)'
      BY <1>1, <1>2, <3>1, <3>2, <3>3 DEF Shaped
    <3>5. Good(n, r, window)
      BY <1>3, <2>1, <2>2, <3>2, <3>3 DEF Good, Accounted
    <3>6. \A u \in TempSessions : Good(temp'[u], story'[u], window')
      BY <1>2, <3>1, <3>5 DEF TempInv
    <3>7. Queued'
      <4>1. /\ Len(asking') = Len(asking) + 1 /\ asking'[Len(asking')] = s
            /\ \A i \in 1..Len(asking) : asking'[i] = asking[i] /\ asking[i] \in TempSessions
        BY <1>2, <3>1
      <4>2. \A i \in 1..Len(asking) : temp[asking[i]].stage = "asking" /\ asking[i] # s
        BY <2>1 DEF TempInv, Queued
      <4>3. \A i \in 1..Len(asking') : i \in 1..Len(asking) \/ i = Len(asking')
        BY <1>2, <4>1
      <4>4. \A i \in 1..Len(asking') : temp'[asking'[i]].stage = "asking"
        BY <1>2, <3>1, <3>2, <4>1, <4>2, <4>3
      <4>5. \A i, j \in 1..Len(asking') : asking'[i] = asking'[j] => i = j
        BY <4>1, <4>2, <4>3 DEF TempInv, Queued
      <4>6. \A u \in todo' \cap TempSessions : temp'[u].handled \/ temp'[u].stage = "open"
        BY <1>2, <3>1, <3>2 DEF TempInv, Queued
      <4>7. QED
        BY <4>4, <4>5, <4>6 DEF Queued
    <3>8. QED
      BY <3>4, <3>6, <3>7 DEF TempInv
  <2>4. CASE ~Changed(t)
    <3> DEFINE n == Released(t)
               r == [story[s] EXCEPT !.found = t.file, !.judged = TRUE, !.fate = "unchanged"]
    <3>1. /\ temp' = [temp EXCEPT ![s] = n] /\ UNCHANGED <<asking, questions>>
          /\ story' = [story EXCEPT ![s] = r]
      BY <1>2, <1>5, <2>4 DEF Finished, Stories
    <3>2. /\ n \in Temps(B) /\ n.handled /\ n.stage = "over" /\ n.purpose = "edit"
          /\ n.file = t.file /\ n.programs = t.programs /\ n.refs = t.refs \ {"window"}
      BY <1>3, ReleasedFields
    <3>3. r \in Stories(B) /\ r.judged /\ r.found = t.file
      BY <1>2, <2>2 DEF Stories, Fates
    <3>4. t.file.there /\ t.file.time = 0
      <4>1. t.snapshot.there = TRUE /\ t.snapshot.time = 0
        BY <2>2 DEF File
      <4>2. t.file.there = t.snapshot.there /\ (t.file.there => t.file.time = t.snapshot.time)
        BY <2>4 DEF Changed
      <4>3. QED
        BY <4>1, <4>2
    <3> HIDE DEF n, r
    <3>5. Shaped(B)'
      BY <1>1, <1>2, <3>1, <3>2, <3>3 DEF Shaped
    <3>6. Good(n, r, window)
      BY <1>3, <2>1, <2>2, <3>2, <3>3, <3>4 DEF Good, Accounted
    <3>7. story'[s] = r /\ \A u \in TempSessions \ {s} : SameStory(story[u], story'[u])
      BY <1>2, <3>1 DEF SameStory
    <3>8. QED
      BY <2>1, <3>1, <3>2, <3>5, <3>6, <3>7, OneChanges
  <2>5. QED
    BY <2>3, <2>4
<1>6. QED
  BY <1>4, <1>5

-----------------------------------------------------------------------------
(* The handlers.  One lemma for those of each part of the module.          *)

\* A step that changes session s as one of its story, and nothing else of them.
LEMMA SessionStep ==
  ASSUME TempInv, NEW s \in TempSessions, NEW B, NEW t \in Temps(B),
         temp' = [temp EXCEPT ![s] = t], UNCHANGED <<story, asking, questions>>,
         Good(t, story[s], window), window' = window, todo' = todo,
         temp[s].stage = "asking" => t.stage = "asking",
         temp[s].handled \/ temp[s].stage = "open" => t.handled \/ t.stage = "open"
  PROVE  TempInv'
<1>1. PICK A : Shaped(A)
  BY DEF TempInv
<1>2. Shaped(A \cup B)
  BY <1>1, ShapeGrows
<1>3. t \in Temps(A \cup B)
  BY DEF Temps
<1>4. Shaped(A \cup B)'
  BY <1>2, <1>3 DEF Shaped
<1>5. \A u \in TempSessions : SameStory(story[u], story'[u])
  BY DEF SameStory
<1>6. QED
  BY <1>4, <1>5, OneChanges

StartedWith(x, programs, notices, pending, refs) ==
  [x EXCEPT !.programs = programs, !.notices = notices, !.pending = pending, !.refs = refs]

LEMMA StartedFields ==
  ASSUME NEW B, NEW x \in Temps(B), NEW programs \in Nat, NEW notices \in Nat, NEW pending \in Nat,
         NEW refs \in SUBSET {"window", "process", "poll", "chain"}
  PROVE  LET t == StartedWith(x, programs, notices, pending, refs)
         IN /\ t \in Temps(B) /\ t.stage = x.stage /\ t.purpose = x.purpose
            /\ t.refs = refs /\ t.programs = programs /\ t.notices = notices
            /\ t.pending = pending /\ t.handled = x.handled /\ t.doomed = x.doomed
BY DEF StartedWith, Temps

LEMMA StartsKeepInv ==
  ASSUME TempInv, NEW s \in TempSessions, Starts(s)
  PROVE  TempInv'
<1> DEFINE B == {shown, NoToken, NoFile}
<1>1. /\ Fresh(s) /\ temp[s].stage = "none" /\ ~story[s].judged /\ ~temp[s].handled
  BY DEF Starts, NotLaunched, ViewOrEdit, OpenOutside, DragOut, Fresh, TempInv, Good, Untouched
<1>2. File \in Files /\ 1 \in Nat /\ 0 \in Nat
  BY DEF File, Files
<1>3. ASSUME NEW t \in Temps(B), Launch(s, t), Good(t, story[s], window)
      PROVE  TempInv'
  BY <1>1, <1>3, SessionStep DEF Launch
<1>4. NoTemp \in Temps(B)
  BY <1>2 DEF NoTemp, Temps, Stages
<1>5. CASE NotLaunched(s)
  <2> DEFINE t == [NoTemp EXCEPT !.stage = "over"]
  <2>1. /\ t \in Temps(B) /\ t.stage = "over" /\ Untouched(t)
    BY <1>4 DEF Temps, Stages, NoTemp, Untouched
  <2>2. Launch(s, t)
    BY <1>5 DEF NotLaunched
  <2> HIDE DEF t
  <2>3. Good(t, story[s], window)
    BY <1>1, <2>1 DEF Good, Untouched
  <2>4. QED
    BY <1>3, <2>1, <2>2, <2>3
<1>6. ASSUME NEW purpose \in {"edit", "outside", "drag"}
      PROVE  LET x == Extracted(purpose)
             IN /\ x \in Temps(B) /\ x.stage = "open" /\ x.purpose = purpose
                /\ x.refs = {"window"} /\ x.programs = 0 /\ x.notices = 0 /\ x.pending = 0
                /\ ~x.handled /\ ~x.doomed
  BY <1>4, <1>6 DEF Extracted, Temps, Stages, NoTemp
<1>7. CASE ViewOrEdit(s)
  <2>1. PICK ended \in 0..1 :
          Launch(s, [Extracted("edit") EXCEPT !.programs = 1 - ended, !.notices = ended,
                       !.refs = @ \cup {"process"}])
    BY <1>7 DEF ViewOrEdit, PostedNotices
  <2>2. PICK x, t : /\ x = Extracted("edit")
                    /\ t = StartedWith(x, 1 - ended, ended, 0, {"window", "process"})
    OBVIOUS
  <2>3. /\ t \in Temps(B) /\ t.stage = "open" /\ t.purpose = "edit" /\ ~t.handled /\ ~t.doomed
        /\ t.refs = {"window", "process"} /\ t.programs = 1 - ended /\ t.notices = ended
    <3>1. /\ 1 - ended \in Nat /\ ended \in Nat /\ 0 \in Nat
          /\ {"window", "process"} \in SUBSET {"window", "process", "poll", "chain"}
          /\ "edit" \in {"edit", "outside", "drag"}
      OBVIOUS
    <3>2. x \in Temps(B) /\ x.stage = "open" /\ x.purpose = "edit" /\ ~x.handled /\ ~x.doomed
      BY <1>6, <2>2
    <3>3. QED
      BY <2>2, <3>1, <3>2, StartedFields
  <2>4. Launch(s, t)
    <3>1. x \in Temps(B) /\ x.refs = {"window"} /\ x.pending = 0
      BY <1>6, <2>2
    <3>2. t = [x EXCEPT !.programs = 1 - ended, !.notices = ended, !.refs = x.refs \cup {"process"}]
      BY <2>2, <3>1 DEF Temps, StartedWith
    <3>3. QED
      BY <2>1, <2>2, <3>2
  <2>5. Good(t, story[s], window)
    BY <1>1, <2>3 DEF Good, Waits
  <2>6. QED
    BY <1>3, <2>3, <2>4, <2>5
<1>8. CASE OpenOutside(s)
  <2>0. PICK tracked \in 0..MaxLaunches, how \in {"process", "poll"} :
          \E ended \in 0..tracked :
            Launch(s, [Extracted("outside") EXCEPT
                         !.programs = tracked - ended, !.notices = PostedNotices(ended),
                         !.pending = tracked,
                         !.refs = @ \cup (IF tracked = 0 THEN {} ELSE {how})])
    BY <1>8 DEF OpenOutside
  <2>1. PICK ended \in 0..tracked :
          Launch(s, [Extracted("outside") EXCEPT
                       !.programs = tracked - ended, !.notices = ended, !.pending = tracked,
                       !.refs = @ \cup (IF tracked = 0 THEN {} ELSE {how})])
    BY <2>0 DEF PostedNotices
  <2>2. tracked \in Nat /\ ended \in Nat /\ tracked - ended \in Nat
        /\ tracked - ended + ended = tracked
    BY TempAssumption
  <2>3. PICK x, refs, t :
          /\ x = Extracted("outside")
          /\ refs = {"window"} \cup (IF tracked = 0 THEN {} ELSE {how})
          /\ t = StartedWith(x, tracked - ended, ended, tracked, refs)
    OBVIOUS
  <2>4. /\ t \in Temps(B) /\ t.stage = "open" /\ t.purpose = "outside" /\ ~t.handled /\ ~t.doomed
        /\ t.refs = refs /\ t.programs + t.notices = t.pending /\ t.pending = tracked
    <3>1. refs \in SUBSET {"window", "process", "poll", "chain"}
      BY <2>3
    <3>2. x \in Temps(B) /\ x.stage = "open" /\ x.purpose = "outside" /\ ~x.handled /\ ~x.doomed
      BY <1>6, <2>3
    <3>3. /\ t \in Temps(B) /\ t.stage = "open" /\ t.purpose = "outside" /\ ~t.handled
          /\ ~t.doomed /\ t.refs = refs /\ t.programs = tracked - ended /\ t.notices = ended
          /\ t.pending = tracked
      BY <2>2, <2>3, <3>1, <3>2, StartedFields
    <3>4. QED
      BY <2>2, <3>3
  <2>5. Launch(s, t)
    <3>1. x \in Temps(B) /\ x.refs = {"window"}
      BY <1>6, <2>3
    <3>2. t = [x EXCEPT !.programs = tracked - ended, !.notices = ended, !.pending = tracked,
                        !.refs = x.refs \cup (IF tracked = 0 THEN {} ELSE {how})]
      BY <2>3, <3>1 DEF StartedWith
    <3>3. QED
      BY <2>1, <2>3, <3>2
  <2>6. Good(t, story[s], window)
    <3>1. "window" \in refs /\ "chain" \notin refs
          /\ (refs \cap {"process", "poll"} # {} => tracked > 0)
      <4>1. CASE tracked = 0
        BY <2>3, <4>1
      <4>2. CASE tracked # 0
        BY <2>2, <2>3, <4>2
      <4>3. QED
        BY <4>1, <4>2
    <3>2. QED
      BY <1>1, <2>4, <3>1 DEF Good, Waits
  <2>7. QED
    BY <1>3, <2>4, <2>5, <2>6
<1>9. CASE DragOut(s)
  <2> DEFINE t == Extracted("drag")
  <2>1. Launch(s, t) /\ t \in Temps(B) /\ t.stage = "open" /\ t.purpose = "drag"
        /\ t.refs = {"window"} /\ t.programs = 0 /\ t.notices = 0 /\ ~t.handled /\ ~t.doomed
    BY <1>6, <1>9 DEF DragOut
  <2> HIDE DEF t
  <2>2. Good(t, story[s], window)
    BY <1>1, <2>1 DEF Good, Waits
  <2>3. QED
    BY <1>3, <2>1, <2>2
<1>10. QED
  BY <1>5, <1>7, <1>8, <1>9 DEF Starts

LEMMA ProgramsKeepInv ==
  ASSUME TempInv, NEW s \in TempSessions, Programs(s)
  PROVE  TempInv'
<1>1. PICK B : Shaped(B)
  BY DEF TempInv
<1>2. /\ temp[s] \in Temps(B) /\ Good(temp[s], story[s], window) /\ story[s] \in Stories(B)
      /\ temp[s].file \in Files
  BY <1>1 DEF TempInv, Shaped, Temps
<1>3. ASSUME NEW file \in Files, file.data >= temp[s].file.data,
             temp' = [temp EXCEPT ![s].file = file], OutsideUnchanged
      PROVE  TempInv'
  <2> DEFINE t == [temp[s] EXCEPT !.file = file]
  <2>1. t \in Temps(B) /\ t.file = file /\ temp' = [temp EXCEPT ![s] = t]
    BY <1>2, <1>3 DEF Temps
  <2>2. Good(t, story[s], window)
    <3>1. /\ t.stage = temp[s].stage /\ t.purpose = temp[s].purpose /\ t.refs = temp[s].refs
          /\ t.programs = temp[s].programs /\ t.notices = temp[s].notices
          /\ t.pending = temp[s].pending /\ t.handled = temp[s].handled /\ t.doomed = temp[s].doomed
      BY <1>2 DEF Temps
    <3>2. file.data \in Nat /\ temp[s].file.data \in Nat /\ story[s].found.data \in Nat
      BY <1>2, <1>3 DEF Files, Stories
    <3> HIDE DEF t
    <3>3. QED
      BY <1>2, <1>3, <2>1, <3>1, <3>2 DEF Good, Waits, Accounted, Untouched
  <2>3. QED
    BY <1>2, <1>3, <2>1, <2>2, SessionStep DEF OutsideUnchanged, Temps
<1>4. CASE Save(s)
  <2>1. PICK time \in {temp[s].file.time, temp[s].file.time + 1} :
          temp' = [temp EXCEPT ![s].file = [there |-> TRUE, data |-> @.data + 1, time |-> time]]
    BY <1>4 DEF Save
  <2> DEFINE file == [there |-> TRUE, data |-> temp[s].file.data + 1, time |-> time]
  <2>2. file \in Files /\ file.data >= temp[s].file.data
    BY <1>2 DEF Files
  <2>3. QED
    BY <1>3, <1>4, <2>1, <2>2 DEF Save
<1>5. CASE RemoveFile(s)
  <2> DEFINE old == temp[s].file
  <2>0. PICK file : file = [old EXCEPT !.there = FALSE]
    OBVIOUS
  <2>1. file \in Files /\ file.data >= old.data
    <3>1. file \in Files /\ file.data = old.data /\ old.data \in Nat
      BY <1>2, <2>0 DEF Files
    <3>2. QED
      BY <3>1
  <2>2. temp' = [temp EXCEPT ![s].file = file] /\ OutsideUnchanged
    BY <1>5, <2>0 DEF RemoveFile
  <2>3. QED
    BY <1>3, <2>1, <2>2
<1>6. CASE EndProgram(s)
  <2> DEFINE t == [temp[s] EXCEPT !.programs = @ - 1, !.notices = @ + 1]
  <2>1. temp[s].programs > 0 /\ temp' = [temp EXCEPT ![s] = t] /\ OutsideUnchanged
    BY <1>6 DEF EndProgram
  <2>2. /\ t \in Temps(B) /\ t.programs = temp[s].programs - 1 /\ t.notices = temp[s].notices + 1
        /\ t.stage = temp[s].stage /\ t.purpose = temp[s].purpose /\ t.refs = temp[s].refs
        /\ t.pending = temp[s].pending /\ t.handled = temp[s].handled
        /\ t.doomed = temp[s].doomed /\ t.file = temp[s].file
        /\ temp[s].programs \in Nat /\ temp[s].notices \in Nat /\ temp[s].pending \in Nat
    <3>1. temp[s].programs - 1 \in Nat /\ temp[s].notices + 1 \in Nat
      BY <1>2, <2>1 DEF Temps
    <3>2. QED
      BY <1>2, <3>1 DEF Temps
  <2> HIDE DEF t
  <2>3. Good(t, story[s], window)
    BY <1>2, <2>1, <2>2 DEF Good, Waits, Accounted, Untouched
  <2>4. QED
    BY <1>2, <2>1, <2>2, <2>3, SessionStep DEF OutsideUnchanged, Temps
<1>7. QED
  BY <1>4, <1>5, <1>6 DEF Programs

LEMMA NoticeKeepsInv ==
  ASSUME TempInv, NEW s \in TempSessions, Notice(s)
  PROVE  TempInv'
<1>1. PICK B : Shaped(B)
  BY DEF TempInv
<1>2. /\ temp[s] \in Temps(B) /\ Good(temp[s], story[s], window) /\ temp[s].notices > 0
      /\ UNCHANGED <<window, todo>>
  BY <1>1 DEF TempInv, Shaped, Notice
<1>3. temp[s].handled \/ temp[s].stage = "open"
  BY <1>2 DEF Good, Untouched, Temps
<1>4. PICK t : t = [temp[s] EXCEPT !.notices = @ - 1]
  OBVIOUS
<1>5. /\ t \in Temps(B) /\ t.notices = temp[s].notices - 1
      /\ t.stage = temp[s].stage /\ t.purpose = temp[s].purpose /\ t.refs = temp[s].refs
      /\ t.pending = temp[s].pending /\ t.programs = temp[s].programs
      /\ t.handled = temp[s].handled /\ t.doomed = temp[s].doomed /\ t.file = temp[s].file
      /\ temp[s].programs \in Nat /\ temp[s].notices \in Nat /\ temp[s].pending \in Nat
  <2>1. temp[s].notices - 1 \in Nat
    BY <1>2 DEF Temps
  <2>2. QED
    BY <1>2, <1>4, <2>1 DEF Temps
<1>6. CASE t.purpose = "edit" /\ Finished(s, t)
  BY <1>2, <1>3, <1>4, <1>5, <1>6, FinishedKeepsInv
<1>7. CASE t.purpose = "outside" /\ temp' = [temp EXCEPT ![s] = Drained(t)]
           /\ UNCHANGED <<asking, questions, story>>
  <2>1. ~story[s].judged
    BY <1>2, <1>5, <1>7 DEF Good
  <2>2. ASSUME NEW n \in Temps(B), temp' = [temp EXCEPT ![s] = n], Good(n, story[s], window),
               n.handled \/ n.stage = "open"
        PROVE  TempInv'
    <3>1. temp[s].stage # "asking"
      BY <1>2, <1>5, <1>7 DEF Good
    <3>2. QED
      BY <1>2, <1>7, <2>2, <3>1, SessionStep
  <2>3. PICK pending : pending = IF t.pending > 0 THEN t.pending - 1 ELSE 0
    OBVIOUS
  <2>4. pending \in Nat /\ (t.pending > 0 => pending = t.pending - 1) /\ (~(t.pending > 0) => pending = 0)
    BY <1>5, <2>3
  <2>5. CASE t.handled
    <3>1. temp' = [temp EXCEPT ![s] = t]
      BY <1>7, <2>5 DEF Drained
    <3>2. Good(t, story[s], window)
      BY <1>2, <1>5, <2>5 DEF Good, Accounted, Untouched
    <3>3. QED
      BY <1>5, <2>2, <2>5, <3>1, <3>2
  <2>6. CASE ~t.handled /\ pending = 0
    <3>1. PICK u : u = [t EXCEPT !.pending = 0]
      OBVIOUS
    <3>2. /\ u \in Temps(B) /\ u.purpose = "outside" /\ u.refs = t.refs
          /\ u.programs = t.programs /\ u.notices = t.notices
      BY <1>5, <1>7, <3>1 DEF Temps
    <3>3. temp' = [temp EXCEPT ![s] = Released(u)]
      BY <1>7, <2>3, <2>6, <3>1 DEF Drained
    <3>4. t.programs = 0 /\ "chain" \notin t.refs
      <4>1. temp[s].stage = "open" /\ temp[s].purpose = "outside"
        BY <1>3, <1>5, <1>7, <2>6
      <4>2. Waits(temp[s]) /\ "chain" \notin temp[s].refs
        BY <1>2, <4>1 DEF Good
      <4>3. temp[s].programs + temp[s].notices = temp[s].pending
        BY <4>1, <4>2 DEF Waits
      <4>4. QED
        BY <1>2, <1>5, <2>4, <2>6, <4>2, <4>3
    <3>5. PICK n : n = Released(u)
      OBVIOUS
    <3>6. /\ n \in Temps(B) /\ n.handled /\ n.stage = "over" /\ n.purpose = "outside"
          /\ n.refs = t.refs \ {"window"} /\ n.programs = 0
      BY <3>2, <3>4, <3>5, ReleasedFields
    <3>7. Good(n, story[s], window)
      BY <2>1, <3>4, <3>6 DEF Good
    <3>8. QED
      BY <2>2, <3>3, <3>5, <3>6, <3>7
  <2>7. CASE ~t.handled /\ pending # 0
    <3>1. PICK n : n = [t EXCEPT !.pending = pending]
      OBVIOUS
    <3>2. /\ n \in Temps(B) /\ n.purpose = "outside" /\ n.refs = t.refs /\ n.stage = t.stage
          /\ n.programs = t.programs /\ n.notices = t.notices /\ n.pending = pending
          /\ n.handled = t.handled /\ n.doomed = t.doomed
      BY <1>5, <1>7, <2>4, <3>1 DEF Temps
    <3>3. temp' = [temp EXCEPT ![s] = n]
      BY <1>7, <2>3, <2>7, <3>1 DEF Drained
    <3>4. t.stage = "open"
      BY <1>3, <1>5, <2>7
    <3>5. Good(n, story[s], window)
      BY <1>2, <1>5, <1>7, <2>1, <2>4, <2>7, <3>2, <3>4 DEF Good, Waits
    <3>6. QED
      BY <2>2, <3>2, <3>3, <3>4, <3>5
  <2>8. QED
    BY <2>5, <2>6, <2>7
<1>8. QED
  BY <1>4, <1>6, <1>7 DEF Notice

LEMMA FinalizeKeepsInv ==
  ASSUME TempInv, NEW s \in TempSessions, Finalize(s)
  PROVE  TempInv'
<1>1. PICK B : Shaped(B)
  BY DEF TempInv
<1>2. /\ temp[s] \in Temps(B) /\ Good(temp[s], story[s], window) /\ s \in todo
      /\ window = "closing" /\ window' = window /\ todo' = todo \ {s}
  BY <1>1 DEF TempInv, Shaped, Finalize
<1>3. temp[s].handled \/ temp[s].stage = "open"
  BY <1>2 DEF TempInv, Queued
<1>4. CASE temp[s].purpose = "edit" /\ Finished(s, temp[s])
  BY <1>2, <1>3, <1>4, FinishedKeepsInv
<1>5. CASE temp[s].purpose # "edit" /\ temp' = [temp EXCEPT ![s] = Released(@)]
           /\ UNCHANGED <<asking, questions, story>>
  <2>1. PICK n : n = Released(temp[s])
    OBVIOUS
  <2>2. /\ n \in Temps(B) /\ n.handled /\ n.stage = "over" /\ n.purpose = temp[s].purpose
        /\ n.refs = temp[s].refs \ {"window"}
    BY <1>2, <2>1, ReleasedFields
  <2>3. /\ ~story[s].judged /\ "chain" \notin temp[s].refs /\ temp[s].stage # "asking"
    BY <1>2, <1>5 DEF Good
  <2>4. Good(n, story[s], window)
    BY <1>2, <2>2, <2>3 DEF Good
  <2>5. temp' = [temp EXCEPT ![s] = n]
    BY <1>5, <2>1
  <2>6. Shaped(B)'
    BY <1>1, <1>5, <2>2, <2>5 DEF Shaped
  <2>7. \A u \in TempSessions : SameStory(story[u], story'[u])
    BY <1>5 DEF SameStory
  <2>8. QED
    BY <1>2, <1>5, <2>2, <2>3, <2>4, <2>5, <2>6, <2>7, OneChanges
<1>6. QED
  BY <1>4, <1>5 DEF Finalize

LEMMA DeleteKeepsInv ==
  ASSUME TempInv, NEW s \in TempSessions, DeleteProcess(s)
  PROVE  TempInv'
<1>1. PICK B : Shaped(B)
  BY DEF TempInv
<1>2. /\ temp[s] \in Temps(B) /\ Good(temp[s], story[s], window) /\ temp[s].doomed
      /\ "process" \in temp[s].refs /\ UNCHANGED <<window, todo, asking, questions, story>>
  BY <1>1 DEF TempInv, Shaped, DeleteProcess, OutsideUnchanged
<1>3. PICK n : n = [temp[s] EXCEPT !.refs = @ \ {"process"}, !.programs = 0, !.notices = 0]
  OBVIOUS
<1>4. /\ n \in Temps(B) /\ n.stage = temp[s].stage /\ n.purpose = temp[s].purpose
      /\ n.refs = temp[s].refs \ {"process"} /\ n.programs = 0
      /\ n.handled = temp[s].handled /\ n.file = temp[s].file
  BY <1>2, <1>3 DEF Temps
<1>5. Good(n, story[s], window)
  BY <1>2, <1>4 DEF Good, Accounted, Untouched
<1>6. temp' = [temp EXCEPT ![s] = n]
  BY <1>3 DEF DeleteProcess
<1>7. QED
  BY <1>2, <1>4, <1>5, <1>6, SessionStep

LEMMA AnswerKeepsInv ==
  ASSUME TempInv, Answer
  PROVE  TempInv'
<1>1. PICK B : Shaped(B)
  BY DEF TempInv
<1>2. PICK n, s : n = Len(asking) /\ s = asking[n]
  OBVIOUS
<1>3. /\ n \in Nat /\ n > 0 /\ s \in TempSessions /\ asking \in Seq(TempSessions)
      /\ n \in 1..Len(asking) /\ Last(asking) = s
      /\ asking' \in Seq(TempSessions) /\ Len(asking') = n - 1
      /\ \A i \in 1..n - 1 : asking'[i] = asking[i] /\ asking[i] \in TempSessions
  <2>1. asking \in Seq(TempSessions) /\ asking # <<>> /\ asking' = SubSeq(asking, 1, Len(asking) - 1)
    BY <1>1 DEF Shaped, Answer, Asked, Front
  <2>2. n \in Nat /\ n > 0
    BY <1>2, <2>1
  <2>3. QED
    BY <1>2, <2>1, <2>2 DEF Last
<1>4. /\ temp[s] \in Temps(B) /\ Good(temp[s], story[s], window) /\ story[s] \in Stories(B)
      /\ DOMAIN temp = TempSessions /\ DOMAIN story = TempSessions
      /\ temp[s].stage = "asking"
  BY <1>1, <1>2, <1>3 DEF TempInv, Shaped, Queued
<1>5. UNCHANGED <<window, todo, questions>>
  BY DEF Answer
<1>6. ASSUME NEW t \in Temps(B), temp' = [temp EXCEPT ![s] = t], t.handled,
             NEW r \in Stories(B), story' = [story EXCEPT ![s] = r], Good(t, r, window)
      PROVE  TempInv'
  <2>1. Shaped(B)'
    BY <1>1, <1>3, <1>5, <1>6 DEF Shaped
  <2>2. \A u \in TempSessions : Good(temp'[u], story'[u], window')
    BY <1>4, <1>5, <1>6 DEF TempInv
  <2>3. Queued'
    <3>1. \A i \in 1..n - 1 : i \in 1..Len(asking) /\ i # n
      BY <1>2, <1>3
    <3>2. \A i \in 1..n - 1 : asking[i] # s /\ temp[asking[i]].stage = "asking"
      <4>1. \A i, j \in 1..Len(asking) : asking[i] = asking[j] => i = j
        BY DEF TempInv, Queued
      <4>2. \A i \in 1..Len(asking) : temp[asking[i]].stage = "asking"
        BY DEF TempInv, Queued
      <4>3. QED
        BY <1>2, <1>3, <3>1, <4>1, <4>2
    <3>3. \A i \in 1..Len(asking') : temp'[asking'[i]].stage = "asking"
      BY <1>3, <1>4, <1>6, <3>2
    <3>4. \A i, j \in 1..Len(asking') : asking'[i] = asking'[j] => i = j
      BY <1>3, <3>1 DEF TempInv, Queued
    <3>5. \A u \in todo' \cap TempSessions : temp'[u].handled \/ temp'[u].stage = "open"
      BY <1>4, <1>5, <1>6 DEF TempInv, Queued
    <3>6. QED
      BY <3>3, <3>4, <3>5 DEF Queued
  <2>4. QED
    BY <2>1, <2>2, <2>3 DEF TempInv
<1>7. ASSUME NEW fate \in {"declined", "missing"},
             temp' = [temp EXCEPT ![s] = Released(@)], story' = [story EXCEPT ![s].fate = fate]
      PROVE  TempInv'
  <2>1. PICK t, r : t = Released(temp[s]) /\ r = [story[s] EXCEPT !.fate = fate]
    OBVIOUS
  <2>2. /\ t \in Temps(B) /\ t.handled /\ t.stage = "over" /\ t.purpose = temp[s].purpose
        /\ t.programs = temp[s].programs /\ t.refs = temp[s].refs \ {"window"} /\ t.file = temp[s].file
    BY <1>4, <2>1, ReleasedFields
  <2>3. /\ r \in Stories(B) /\ r.found = story[s].found /\ r.judged = story[s].judged
        /\ r.fate = fate
    BY <1>4, <2>1 DEF Stories, Fates
  <2>4. Good(t, r, window)
    BY <1>4, <1>7, <2>2, <2>3 DEF Good, Accounted
  <2>5. temp' = [temp EXCEPT ![s] = t] /\ story' = [story EXCEPT ![s] = r]
    BY <1>4, <1>7, <2>1
  <2>6. QED
    BY <1>6, <2>2, <2>3, <2>4, <2>5
<1>8. CASE temp' = [temp EXCEPT ![s].stage = "starting", ![s].refs = @ \cup {"chain"}] /\ UNCHANGED story
  <2>1. PICK t : t = [temp[s] EXCEPT !.stage = "starting", !.refs = @ \cup {"chain"}]
    OBVIOUS
  <2>2. /\ t \in Temps(B) /\ t.stage = "starting" /\ t.purpose = temp[s].purpose
        /\ t.handled = temp[s].handled /\ t.programs = temp[s].programs
        /\ t.refs = temp[s].refs \cup {"chain"} /\ t.file = temp[s].file
    BY <1>4, <2>1 DEF Temps, Stages
  <2>3. t.handled /\ Good(t, story[s], window)
    BY <1>4, <2>2 DEF Good, Accounted
  <2>4. temp' = [temp EXCEPT ![s] = t] /\ story' = [story EXCEPT ![s] = story[s]]
    BY <1>1, <1>4, <1>8, <2>1 DEF Shaped
  <2>5. QED
    BY <1>4, <1>6, <2>2, <2>3, <2>4
<1>9. QED
  BY <1>3, <1>7, <1>8 DEF Answer

\* The update moves on from starting or updating, with what it wrote.
LEMMA UpdateMoves ==
  ASSUME TempInv, NEW s \in TempSessions, temp[s].stage \in {"starting", "updating"},
         NEW stage \in {"updating", "updated", "failed"}, NEW base,
         temp' = [temp EXCEPT ![s] = [temp[s] EXCEPT !.stage = stage, !.base = base]],
         UNCHANGED <<window, todo, asking, questions>>,
         NEW B, story' \in [TempSessions -> Stories(B)],
         \A u \in TempSessions \ {s} : SameStory(story[u], story'[u]),
         story'[s].found = story[s].found, story'[s].judged = story[s].judged,
         story'[s].fate = story[s].fate,
         stage = "updated" => story'[s].written = temp[s].file.data
  PROVE  TempInv'
<1>1. PICK A : Shaped(A)
  BY DEF TempInv
<1>2. PICK C : C = A \cup B \cup {base}
  OBVIOUS
<1>3. /\ Shaped(C) /\ story' \in [TempSessions -> Stories(C)]
  BY <1>1, <1>2, ShapeGrows DEF Stories
<1>4. /\ temp[s] \in Temps(C) /\ Good(temp[s], story[s], window) /\ base \in C
  BY <1>2, <1>3 DEF TempInv, Shaped
<1>5. PICK t : t = [temp[s] EXCEPT !.stage = stage, !.base = base]
  OBVIOUS
<1>6. /\ t \in Temps(C) /\ t.stage = stage /\ t.purpose = temp[s].purpose
      /\ t.handled = temp[s].handled /\ t.programs = temp[s].programs
      /\ t.refs = temp[s].refs /\ t.file = temp[s].file
  BY <1>4, <1>5 DEF Temps, Stages
<1>7. Shaped(C)'
  BY <1>3, <1>5, <1>6 DEF Shaped
<1>8. Good(t, story'[s], window)
  BY <1>4, <1>6 DEF Good, Accounted
<1>9. QED
  BY <1>4, <1>5, <1>6, <1>7, <1>8, OneChanges DEF Good

LEMMA UpdateKeepsInv ==
  ASSUME TempInv, NEW s \in TempSessions,
         StartUpdate(s) \/ Update(s) \/ UpdateDisk(s)
  PROVE  TempInv'
<1>1. PICK B : Shaped(B)
  BY DEF TempInv
<1>2. /\ temp[s] \in Temps(B) /\ story \in [TempSessions -> Stories(B)]
      /\ DOMAIN temp = TempSessions /\ temp[s].file.data \in Nat
      /\ \A u \in TempSessions : SameStory(story[u], story[u])
  BY <1>1 DEF Shaped, Temps, Files, SameStory
<1>3. ASSUME NEW stage \in {"updating", "updated", "failed"},
             temp' = [temp EXCEPT ![s].stage = stage]
      PROVE  temp' = [temp EXCEPT ![s] = [temp[s] EXCEPT !.stage = stage, !.base = temp[s].base]]
  <2>1. [temp[s] EXCEPT !.stage = stage] = [temp[s] EXCEPT !.stage = stage, !.base = temp[s].base]
    BY <1>2 DEF Temps
  <2>2. QED
    BY <1>2, <1>3, <2>1
<1>4. CASE StartUpdate(s)
  <2>1. /\ temp[s].stage = "starting" /\ UNCHANGED <<window, todo, asking, questions, story>>
        /\ \/ \E stage \in {"updating", "failed"} : temp' = [temp EXCEPT ![s].stage = stage]
           \/ temp' = [temp EXCEPT ![s].stage = "updating", ![s].base = disk]
    BY <1>4 DEF StartUpdate
  <2>5. /\ story' \in [TempSessions -> Stories(B)]
        /\ \A u \in TempSessions \ {s} : SameStory(story[u], story'[u])
        /\ story'[s].found = story[s].found /\ story'[s].judged = story[s].judged
        /\ story'[s].fate = story[s].fate
        /\ temp[s].stage \in {"starting", "updating"}
    BY <1>2, <2>1
  <2>2. CASE \E stage \in {"updating", "failed"} : temp' = [temp EXCEPT ![s].stage = stage]
    <3>1. PICK stage \in {"updating", "failed"} : temp' = [temp EXCEPT ![s].stage = stage]
      BY <2>2
    <3>2. temp' = [temp EXCEPT ![s] = [temp[s] EXCEPT !.stage = stage, !.base = temp[s].base]]
      BY <1>3, <3>1
    <3>3. stage \in {"updating", "updated", "failed"} /\ stage # "updated"
      BY <3>1
    <3>4. QED
      BY <1>2, <2>1, <2>5, <3>2, <3>3, UpdateMoves
  <2>3. CASE temp' = [temp EXCEPT ![s].stage = "updating", ![s].base = disk]
    <3>1. temp' = [temp EXCEPT ![s] = [temp[s] EXCEPT !.stage = "updating", !.base = disk]]
      BY <1>2, <2>3
    <3>2. QED
      BY <1>2, <2>1, <2>5, <3>1, UpdateMoves
  <2>4. QED
    BY <2>1, <2>2, <2>3
<1>5. ASSUME NEW stage \in {"updated", "failed"}, temp[s].stage = "updating",
             temp' = [temp EXCEPT ![s].stage = stage],
             UNCHANGED <<window, todo, asking, questions>>,
             NEW old \in [TempSessions -> Stories(B)], NEW e,
             \A u \in TempSessions : SameStory(story[u], old[u]),
             story' = [old EXCEPT ![s] = [old[s] EXCEPT !.edit = e, !.written = temp[s].file.data]]
                \/ (stage = "failed" /\ story' = old)
      PROVE  TempInv'
  <2>1. temp' = [temp EXCEPT ![s] = [temp[s] EXCEPT !.stage = stage, !.base = temp[s].base]]
    BY <1>3, <1>5
  <2>2. old[s] \in Stories(B \cup {e}) /\ old \in [TempSessions -> Stories(B \cup {e})]
    BY <1>5 DEF Stories
  <2>3. PICK r : r = [old[s] EXCEPT !.edit = e, !.written = temp[s].file.data]
    OBVIOUS
  <2>4. /\ r \in Stories(B \cup {e}) /\ r.found = old[s].found /\ r.judged = old[s].judged
        /\ r.fate = old[s].fate /\ r.written = temp[s].file.data
    BY <1>2, <2>2, <2>3 DEF Stories
  <2>5. /\ story' \in [TempSessions -> Stories(B \cup {e})]
        /\ \A u \in TempSessions \ {s} : story'[u] = old[u]
        /\ story'[s] = r \/ (stage = "failed" /\ story'[s] = old[s])
    <3>1. CASE story' = [old EXCEPT ![s] = r]
      BY <2>2, <2>4, <3>1
    <3>2. CASE stage = "failed" /\ story' = old
      BY <2>2, <3>2
    <3>3. QED
      BY <1>5, <2>3, <3>1, <3>2
  <2>6. \A u \in TempSessions \ {s} : SameStory(story[u], story'[u])
    BY <1>5, <2>5
  <2>7. /\ story'[s].found = story[s].found /\ story'[s].judged = story[s].judged
        /\ story'[s].fate = story[s].fate
        /\ stage = "updated" => story'[s].written = temp[s].file.data
    BY <1>5, <2>4, <2>5 DEF SameStory
  <2>8. stage \in {"updating", "updated", "failed"} /\ temp[s].stage \in {"starting", "updating"}
    BY <1>5
  <2>9. story' \in [TempSessions -> Stories(B \cup {e})]
    BY <2>5
  <2>10. UNCHANGED <<window, todo, asking, questions>>
    BY <1>5
  <2>11. QED
    BY <2>1, <2>6, <2>7, <2>8, <2>9, <2>10, UpdateMoves
<1>6. \A ok : Outcome(ok) \in {"updated", "failed"}
  BY DEF Outcome
<1>10. ASSUME NEW e
       PROVE  Told(s, e) = [story EXCEPT ![s] = [story[s] EXCEPT !.edit = e, !.written = temp[s].file.data]]
  <2>1. PICK r : r = [story[s] EXCEPT !.edit = e, !.written = temp[s].file.data]
    OBVIOUS
  <2>2. Told(s, e) = [story EXCEPT ![s] = r]
    BY <1>2, <2>1 DEF Told
  <2>3. QED
    BY <2>1, <2>2
<1>7. CASE Update(s)
  <2>1. temp[s].stage = "updating" /\ UNCHANGED <<window, todo, asking, questions>>
    BY <1>7 DEF Update
  <2>2. CASE /\ temp' = [temp EXCEPT ![s].stage = Outcome(acked' # acked)]
             /\ story' = Told(s, CHOOSE e \in Edits : via'[e] # via[e])
    <3>1. PICK e, stage : /\ e = (CHOOSE x \in Edits : via'[x] # via[x])
                          /\ stage = Outcome(acked' # acked)
      OBVIOUS
    <3>2. story' = [story EXCEPT ![s] = [story[s] EXCEPT !.edit = e, !.written = temp[s].file.data]]
      BY <1>10, <2>2, <3>1
    <3>3. QED
      BY <1>2, <1>5, <1>6, <2>1, <2>2, <3>1, <3>2
  <2>3. CASE temp' = [temp EXCEPT ![s].stage = "failed"] /\ UNCHANGED story
    BY <1>2, <1>5, <2>1, <2>3
  <2>4. QED
    BY <1>7, <2>2, <2>3 DEF Update
<1>8. CASE UpdateDisk(s)
  <2>1. temp[s].stage = "updating" /\ UNCHANGED <<window, todo, asking, questions>>
    BY <1>8 DEF UpdateDisk
  <2>2. CASE \E e \in Edits : /\ story' = [Replacing(disk') EXCEPT ![s] = Told(s, e)[s]]
                              /\ temp' = [temp EXCEPT ![s].stage = Outcome(TRUE)]
    <3>1. PICK e \in Edits : story' = [Replacing(disk') EXCEPT ![s] = Told(s, e)[s]]
      BY <2>2
    <3>2. PICK old : old = [Replacing(disk') EXCEPT ![s] = story[s]]
      OBVIOUS
    <3>3. /\ Replacing(disk') \in [TempSessions -> Stories(B)]
          /\ \A u \in TempSessions : SameStory(story[u], Replacing(disk')[u])
      BY <1>1, ReplacingSame
    <3>4. old \in [TempSessions -> Stories(B)] /\ \A u \in TempSessions : SameStory(story[u], old[u])
      <4>1. story[s] \in Stories(B) /\ SameStory(story[s], story[s])
        BY <1>2
      <4>2. old \in [TempSessions -> Stories(B)]
        BY <3>2, <3>3, <4>1
      <4>3. \A u \in TempSessions : old[u] = IF u = s THEN story[s] ELSE Replacing(disk')[u]
        BY <3>2, <3>3
      <4>4. QED
        BY <3>3, <4>1, <4>2, <4>3
    <3>5. Told(s, e)[s] = [old[s] EXCEPT !.edit = e, !.written = temp[s].file.data]
      <4>1. Told(s, e)[s] = [story[s] EXCEPT !.edit = e, !.written = temp[s].file.data]
        BY <1>2, <1>10
      <4>2. old[s] = story[s]
        BY <3>2, <3>3
      <4>3. QED
        BY <4>1, <4>2
    <3>6. story' = [old EXCEPT ![s] = [old[s] EXCEPT !.edit = e, !.written = temp[s].file.data]]
      BY <3>1, <3>2, <3>3, <3>5
    <3>7. QED
      BY <1>5, <1>6, <2>1, <2>2, <3>4, <3>6
  <2>3. CASE temp' = [temp EXCEPT ![s].stage = Outcome(FALSE)] /\ UNCHANGED story
    <3>1. Outcome(FALSE) = "failed"
      BY DEF Outcome
    <3>2. QED
      BY <1>2, <1>5, <2>1, <2>3, <3>1
  <2>4. QED
    BY <1>8, <2>2, <2>3 DEF UpdateDisk
<1>9. QED
  BY <1>4, <1>7, <1>8

LEMMA UpdatedKeepsInv ==
  ASSUME TempInv, NEW s \in TempSessions, Updated(s)
  PROVE  TempInv'
<1>1. PICK B : Shaped(B)
  BY DEF TempInv
<1>2. /\ temp[s] \in Temps(B) /\ story[s] \in Stories(B) /\ Good(temp[s], story[s], window)
      /\ DOMAIN story = TempSessions
      /\ temp[s].stage \in {"updated", "failed"} /\ UNCHANGED <<window, todo, asking, questions>>
      /\ story' = [story EXCEPT ![s].fate = temp[s].stage]
  BY <1>1 DEF TempInv, Shaped, Updated
<1>3. PICK x, t, r : /\ x = Released(temp[s]) /\ t = [x EXCEPT !.refs = @ \ {"chain"}]
                     /\ r = [story[s] EXCEPT !.fate = temp[s].stage]
  OBVIOUS
<1>4. /\ t \in Temps(B) /\ t.handled /\ t.stage = "over" /\ t.purpose = temp[s].purpose
      /\ t.file = temp[s].file /\ t.programs = temp[s].programs
      /\ t.refs = temp[s].refs \ {"window", "chain"}
  <2>1. /\ x \in Temps(B) /\ x.handled /\ x.stage = "over" /\ x.purpose = temp[s].purpose
        /\ x.file = temp[s].file /\ x.programs = temp[s].programs
        /\ x.refs = temp[s].refs \ {"window"}
    BY <1>2, <1>3, ReleasedFields
  <2>2. QED
    BY <1>3, <2>1 DEF Temps
<1>5. /\ r \in Stories(B) /\ r.found = story[s].found /\ r.judged = story[s].judged
      /\ r.written = story[s].written /\ r.fate = temp[s].stage
  BY <1>2, <1>3 DEF Stories, Fates
<1>6. temp' = [temp EXCEPT ![s] = t] /\ story' = [story EXCEPT ![s] = r]
  <2>1. temp' = [temp EXCEPT ![s] = [Released(temp[s]) EXCEPT !.refs = @ \ {"chain"}]]
    BY DEF Updated
  <2>2. temp' = [temp EXCEPT ![s] = [Released(temp[s]) EXCEPT !.refs = @ \ {"chain"}]]
    BY <1>1, <2>1 DEF Shaped
  <2>3. QED
    BY <1>2, <1>3, <2>2
<1>7. Good(t, r, window)
  BY <1>2, <1>4, <1>5 DEF Good, Accounted
<1>8. Shaped(B)'
  BY <1>1, <1>2, <1>4, <1>5, <1>6 DEF Shaped
<1>9. story'[s] = r /\ \A u \in TempSessions \ {s} : SameStory(story[u], story'[u])
  BY <1>2, <1>6 DEF SameStory
<1>10. QED
  BY <1>2, <1>4, <1>6, <1>7, <1>8, <1>9, OneChanges

-----------------------------------------------------------------------------
(* The panel and the window.                                               *)

LEMMA WindowKeepsInv ==
  ASSUME TempInv, Enter \/ Leave \/ CloseStep \/ CloseWindow \/ DispatchClose \/ Quit
  PROVE  TempInv'
<1>1. PICK B : Shaped(B)
  BY DEF TempInv
<1>2. /\ UNCHANGED <<temp, asking, questions>>
      /\ window' = "open" => window = "open"
      /\ story' = story \/ (\E new : story' = Replacing(new))
  BY DEF Enter, Leave, CloseStep, CloseWindow, DispatchClose, Quit, TempUnchanged, UserFree
<1>3. /\ Shaped(B)'
      /\ \A u \in TempSessions : SameStory(story[u], story'[u])
  <2>1. CASE story' = story
    BY <1>1, <1>2, <2>1 DEF Shaped, SameStory
  <2>2. CASE \E new : story' = Replacing(new)
    <3>1. PICK new : story' = Replacing(new)
      BY <2>2
    <3>2. QED
      BY <1>1, <1>2, <3>1, ReplacingSame DEF Shaped
  <2>3. QED
    BY <1>2, <2>1, <2>2
<1>4. \A s \in todo' \cap TempSessions : s \in todo \/ temp[s].handled \/ temp[s].stage = "open"
  <2>1. CASE CloseWindow
    <3>1. ASSUME NEW s \in TempSessions, "window" \in temp[s].refs
          PROVE  temp[s].handled \/ temp[s].stage = "open"
      BY <3>1 DEF TempInv, Good, Untouched
    <3>2. QED
      BY <2>1, <3>1 DEF CloseWindow
  <2>2. CASE ~CloseWindow
    BY <2>2 DEF Enter, Leave, CloseStep, DispatchClose, Quit, TempUnchanged
  <2>3. QED
    BY <2>1, <2>2
<1>5. QED
  BY <1>2, <1>3, <1>4, NoneChanges

LEMMA StepKeepsInv ==
  ASSUME TempInv, [TempNext]_allVars
  PROVE  TempInv'
<1>1. CASE UNCHANGED allVars
  BY <1>1 DEF allVars, TempInv, Shaped, Queued
<1>2. CASE Enter \/ Leave \/ CloseStep \/ CloseWindow \/ DispatchClose \/ Quit
  BY <1>2, WindowKeepsInv
<1>3. CASE Answer
  BY <1>3, AnswerKeepsInv
<1>4. ASSUME NEW s \in TempSessions, Starts(s) \/ Programs(s) \/ Handlers(s) \/ Finalize(s)
      PROVE  TempInv'
  BY <1>4, StartsKeepInv, ProgramsKeepInv, NoticeKeepsInv, DeleteKeepsInv, UpdateKeepsInv,
     UpdatedKeepsInv, FinalizeKeepsInv DEF Handlers
<1>5. QED
  BY <1>1, <1>2, <1>3, <1>4 DEF TempNext

LEMMA InitInv ==
  ASSUME TempInit
  PROVE  TempInv
<1> DEFINE B == {0, NoToken, NoFile}
<1>1. File \in Files
  BY DEF File, Files
<1>2. NoTemp \in Temps(B) /\ NoStory \in Stories(B)
  BY <1>1 DEF NoTemp, NoStory, Temps, Stories, Stages, Fates
<1> HIDE DEF B
<1>3. Shaped(B)
  <2>1. temp \in [TempSessions -> Temps(B)] /\ story \in [TempSessions -> Stories(B)]
    BY <1>2 DEF TempInit
  <2>2. questions \in [TempSessions -> Nat] /\ asking \in Seq(TempSessions)
    BY DEF TempInit
  <2>3. QED
    BY <2>1, <2>2 DEF Shaped
<1>4. Good(NoTemp, NoStory, "open")
  BY DEF Good, NoTemp, NoStory, Untouched
<1>5. \A s \in TempSessions : Good(temp[s], story[s], window)
  BY <1>4 DEF TempInit
<1>6. Queued
  BY DEF TempInit, Queued
<1>7. QED
  BY <1>3, <1>5, <1>6 DEF TempInv

LEMMA Invariant == TempSpec => []TempInv
<1>1. TempInit => TempInv
  BY InitInv
<1>2. TempInv /\ [TempNext]_allVars => TempInv'
  BY StepKeepsInv
<1>3. QED
  BY <1>1, <1>2, PTL DEF TempSpec

-----------------------------------------------------------------------------
(* The theorems.                                                           *)

\* What a program wrote or removed comes to the archive, or the user declined or
\* was told that it did not (finalize_archive_temp_session, on_single_update_finished):
\* for any number of sessions and of writes.
THEOREM NoSilentLoss == TempSpec => []NothingLostSilently
<1>1. ASSUME TempInv
      PROVE  NothingLostSilently
  BY <1>1 DEF TempInv, Good, Accounted, NothingLostSilently
<1>2. QED
  BY <1>1, Invariant, PTL

\* The directory is kept for the programs of a session, and given up after the
\* last (on_open_outside_temp_session_tracking_finished, release_archive_temp_session):
\* for any number of programs.
THEOREM DirectoriesKept == TempSpec => []KeptForPrograms
<1>1. ASSUME TempInv
      PROVE  KeptForPrograms
  <2> SUFFICES ASSUME NEW s \in TempSessions
               PROVE  /\ window = "open" /\ temp[s].programs > 0 =>
                           "window" \in temp[s].refs /\ ~temp[s].doomed
                      /\ Running /\ Ended(s) =>
                           \/ temp[s].refs \cap {"window", "chain"} = {}
                           \/ temp[s].notices > 0
                           \/ temp[s].stage \in {"asking", "starting", "updating", "updated", "failed"}
    BY DEF KeptForPrograms
  <2>1. PICK B : Shaped(B)
    BY <1>1 DEF TempInv
  <2>2. temp[s] \in Temps(B) /\ Good(temp[s], story[s], window)
    BY <1>1, <2>1 DEF TempInv, Shaped
  <2>3. PICK t : t = temp[s]
    OBVIOUS
  <2>4. /\ t.programs \in Nat /\ t.notices \in Nat /\ t.pending \in Nat /\ t.stage \in Stages
        /\ t.purpose \in {"edit", "outside", "drag"}
        /\ t.refs \subseteq {"window", "process", "poll", "chain"}
    BY <2>2, <2>3 DEF Temps
  <2>5. window = "open" /\ t.programs > 0 => t.stage = "open"
    BY <2>2, <2>3, <2>4 DEF Good, Untouched
  <2>6. t.programs = 0 /\ t.refs \cap {"process", "poll"} # {} /\ t.stage = "open" => t.notices > 0
    BY <2>2, <2>3, <2>4 DEF Good, Waits
  <2>7. t.stage = "over" => t.refs \cap {"window", "chain"} = {}
    BY <2>2, <2>3 DEF Good
  <2>8. t.stage = "none" => t.refs = {}
    BY <2>2, <2>3 DEF Good, Untouched
  <2>9. t.stage = "open" => "window" \in t.refs /\ ~t.doomed
    BY <2>2, <2>3 DEF Good
  <2>10. QED
    BY <2>3, <2>4, <2>5, <2>6, <2>7, <2>8, <2>9 DEF Ended, Stages
<1>2. QED
  BY <1>1, Invariant, PTL

\* A session with its judgement stays as it is judged.
Settled ==
  \A s \in TempSessions :
    story[s].judged => story'[s].found = story[s].found /\ questions'[s] = questions[s]

LEMMA FinishedSettles ==
  ASSUME TempInv, NEW s \in TempSessions, NEW t, t.handled = temp[s].handled, Finished(s, t)
  PROVE  Settled
<1>1. PICK B : Shaped(B)
  BY DEF TempInv
<1>2. DOMAIN story = TempSessions /\ DOMAIN questions = TempSessions
  BY <1>1 DEF Shaped
<1>3. CASE t.handled
  BY <1>3 DEF Finished, Settled
<1>4. CASE ~t.handled
  <2>1. ~story[s].judged
    BY <1>4 DEF TempInv, Good
  <2>2. \A u \in TempSessions \ {s} : story'[u] = story[u] /\ questions'[u] = questions[u]
    BY <1>2, <1>4 DEF Finished
  <2>3. QED
    BY <2>1, <2>2 DEF Settled
<1>5. QED
  BY <1>3, <1>4

LEMMA StepSettles ==
  ASSUME TempInv, [TempNext]_allVars
  PROVE  Settled
<1>1. PICK B : Shaped(B)
  BY DEF TempInv
<1>2. /\ DOMAIN story = TempSessions /\ DOMAIN questions = TempSessions
      /\ \A s \in TempSessions : story[s] \in Stories(B)
  BY <1>1 DEF Shaped
<1>3. ASSUME UNCHANGED <<story, questions>>
      PROVE  Settled
  BY <1>3 DEF Settled
<1>4. ASSUME NEW new, story' = Replacing(new), UNCHANGED questions
      PROVE  Settled
  BY <1>1, <1>4, ReplacingSame DEF Settled, SameStory
<1>5. ASSUME NEW s \in TempSessions, NEW fate, story' = [story EXCEPT ![s].fate = fate],
             UNCHANGED questions
      PROVE  Settled
  BY <1>2, <1>5 DEF Settled, Stories
<1>6. ASSUME NEW s \in TempSessions, NEW e
      PROVE  \A u \in TempSessions : Told(s, e)[u].found = story[u].found
  BY <1>2 DEF Told, Stories
<1>7. CASE UNCHANGED allVars
  BY <1>3, <1>7 DEF allVars
<1>8. CASE Enter \/ Leave \/ CloseStep \/ CloseWindow \/ DispatchClose \/ Quit
  <2>1. /\ UNCHANGED questions
        /\ story' = story \/ (\E new : story' = Replacing(new))
    BY <1>8 DEF Enter, Leave, CloseStep, CloseWindow, DispatchClose, Quit, TempUnchanged
  <2>2. QED
    BY <1>3, <1>4, <2>1
<1>9. CASE Answer
  <2>1. UNCHANGED questions /\ Last(asking) \in TempSessions
    <3>1. /\ asking \in Seq(TempSessions) /\ asking # <<>> /\ UNCHANGED questions
      BY <1>1, <1>9 DEF Shaped, Answer, Asked
    <3>2. QED
      BY <3>1 DEF Last
  <2>2. story' = story \/ (\E fate : story' = [story EXCEPT ![Last(asking)].fate = fate])
    BY <1>9 DEF Answer
  <2>3. QED
    BY <1>3, <1>5, <2>1, <2>2
<1>10. ASSUME NEW s \in TempSessions, Starts(s) \/ Programs(s) \/ DeleteProcess(s) \/ StartUpdate(s)
       PROVE  Settled
  BY <1>3, <1>10 DEF Starts, NotLaunched, ViewOrEdit, OpenOutside, DragOut, Launch,
     Programs, Save, RemoveFile, EndProgram, DeleteProcess, OutsideUnchanged, StartUpdate
<1>11. ASSUME NEW s \in TempSessions, Notice(s)
       PROVE  Settled
  <2>1. CASE UNCHANGED <<story, questions>>
    BY <1>3, <2>1
  <2>2. CASE \E t : t.handled = temp[s].handled /\ Finished(s, t)
    BY <2>2, FinishedSettles
  <2>3. QED
    <3>1. PICK t : t = [temp[s] EXCEPT !.notices = @ - 1]
      OBVIOUS
    <3>2. t.handled = temp[s].handled
      BY <1>1, <3>1 DEF Shaped, Temps
    <3>3. Finished(s, t) \/ UNCHANGED <<story, questions>>
      BY <1>11, <3>1 DEF Notice
    <3>4. QED
      BY <2>1, <2>2, <3>2, <3>3
<1>12. ASSUME NEW s \in TempSessions, Finalize(s)
       PROVE  Settled
  <2>1. Finished(s, temp[s]) \/ UNCHANGED <<story, questions>>
    BY <1>12 DEF Finalize
  <2>2. QED
    BY <1>3, <2>1, FinishedSettles
<1>13. ASSUME NEW s \in TempSessions, Update(s)
       PROVE  Settled
  <2>1. UNCHANGED questions /\ (story' = story \/ \E e : story' = Told(s, e))
    BY <1>13 DEF Update
  <2>2. QED
    BY <1>3, <1>6, <2>1 DEF Settled
<1>14. ASSUME NEW s \in TempSessions, UpdateDisk(s)
       PROVE  Settled
  <2>1. UNCHANGED questions
    BY <1>14 DEF UpdateDisk
  <2>2. CASE \E e : story' = [Replacing(disk') EXCEPT ![s] = Told(s, e)[s]]
    <3>1. PICK e : story' = [Replacing(disk') EXCEPT ![s] = Told(s, e)[s]]
      BY <2>2
    <3>2. /\ DOMAIN Replacing(disk') = TempSessions
          /\ \A u \in TempSessions : Replacing(disk')[u].found = story[u].found
      BY <1>1, ReplacingSame DEF SameStory
    <3>3. Told(s, e)[s].found = story[s].found
      BY <1>6
    <3>4. QED
      BY <2>1, <3>1, <3>2, <3>3 DEF Settled
  <2>3. CASE story' = story
    BY <1>3, <2>1, <2>3
  <2>4. QED
    BY <1>14, <2>2, <2>3 DEF UpdateDisk
<1>15. ASSUME NEW s \in TempSessions, Updated(s)
       PROVE  Settled
  BY <1>5, <1>15 DEF Updated
<1>16. QED
  BY <1>7, <1>8, <1>9, <1>10, <1>11, <1>12, <1>13, <1>14, <1>15 DEF TempNext, Handlers

\* However often the end of a program is heard, its file is judged once and the
\* user asked once (process_finished_handled): for any number of sessions.
THEOREM JudgedOnce == TempSpec => AskedOnce
<1>1. TempInv /\ [TempNext]_allVars => [Settled]_allVars
  BY StepSettles
<1>2. TempSpec => [][Settled]_allVars
  BY <1>1, Invariant, PTL DEF TempSpec
<1>3. QED
  BY <1>2 DEF AskedOnce, Settled
-----------------------------------------------------------------------------
(* What the window takes for an update.  All sessions are roots, so what   *)
(* the registry does to an edit is told here anew, from the disk and the   *)
(* private files alone.                                                    *)

\* The data of the archive: its edits, and those of what is nested in it.
Archives == UNION {[0..m -> SUBSET Edits] : m \in Levels}

RootType ==
  [level : {0}, parent : {NoToken}, view : Archives, file : Archives \cup {NoFile},
   buffered : {FALSE}, dirty : BOOLEAN]
Roots ==
  /\ disk \in Archives
  /\ session \in Seq(RootType)
  /\ \A t \in DOMAIN session : session[t].dirty => session[t].file # NoFile
  /\ registered \subseteq DOMAIN session

\* Threads of sessions add to the archive, the panel's opens and closes it.
CallShape ==
  [op : {"add", "close"}, token : DOMAIN session, stage : {"found", "committed"}] \cup {NoCall}
Calls ==
  /\ call \in [Threads -> CallShape]
  /\ \A s \in TempSessions : call[s] # NoCall =>
       /\ call[s] = Found("add", temp[s].token)
       /\ temp[s].stage = "updating" /\ temp[s].token \in DOMAIN session
  /\ call[panelTask] # NoCall => call[panelTask].op = "close"
  /\ via \in [Edits -> DOMAIN session \cup {NoToken}]

\* Edits that sessions made count from the first and the others from the last, at
\* most one for each temporary session: they do not meet.
Numbered == {s \in TempSessions : story[s].edit # 0}
Taken == Made \cup {story[s].edit : s \in Numbered}
Numbers ==
  /\ \A s \in TempSessions : story[s].edit \in Edits \cup {0}
  /\ \E k, m \in 0..MaxEdits :
       /\ k + m <= Cardinality(Numbered)
       /\ Made = 1..k
       /\ Taken = 1..k \cup (MaxEdits - m + 1)..MaxEdits
OnlyTaken ==
  /\ EditsIn(disk) \subseteq Taken
  /\ \A t \in DOMAIN session : EditsIn(session[t].file) \subseteq Taken

\* How far the update of a session has come, and what it started from.
UpdateStage(s) ==
  /\ story[s].edit # 0 => temp[s].stage \in {"updated", "failed", "over"}
  /\ story[s].fate = "updated" => temp[s].stage = "over"
  /\ temp[s].stage = "updating" /\ temp[s].token = NoToken =>
       temp[s].base \in Archives /\ EditsIn(temp[s].base) \subseteq Taken

\* A session that will commit the edit: it is open, and nobody has committed it.
Carries(t, e) ==
  t \in registered /\ ~Raced(t) /\ session[t].dirty /\ e \in EditsIn(session[t].file)
Safe(s) ==
  \/ story[s].edit \in EditsIn(disk)
  \/ \E t \in registered : Carries(t, story[s].edit)
TakenForUpdate(s) == temp[s].stage = "updated" \/ story[s].fate = "updated"
UpdateKept(s) ==
  TakenForUpdate(s) => story[s].replaced \/ story[s].edit \in excused \/ Safe(s)

UpdatesInv ==
  /\ Roots /\ Calls /\ Numbers /\ OnlyTaken
  /\ \A s \in TempSessions : UpdateStage(s) /\ UpdateKept(s)

-----------------------------------------------------------------------------
(* Steps that leave the registry alone.                                    *)

SameUpdate(s) ==
  /\ temp'[s].stage = temp[s].stage /\ temp'[s].token = temp[s].token
  /\ temp'[s].base = temp[s].base
  /\ story'[s].edit = story[s].edit /\ story'[s].fate = story[s].fate
  /\ story[s].replaced => story'[s].replaced

\* The session comes closer to its update, or ends without one.
Before(s) ==
  /\ temp[s].stage \in {"none", "open", "asking", "starting"}
  /\ temp'[s].stage \notin {"updating", "updated"}
  /\ story'[s].edit = story[s].edit /\ story'[s].replaced = story[s].replaced
  /\ story'[s].fate \in {story[s].fate, "unchanged", "declined", "missing"}

\* A session that a step does not change.
LEMMA OtherUpdate ==
  ASSUME UpdatesInv, Taken \subseteq Taken', excused \subseteq excused',
         NEW u \in TempSessions, SameUpdate(u),
         Safe(u) => story'[u].replaced \/ story'[u].edit \in excused' \/ Safe(u)'
  PROVE  UpdateStage(u)' /\ UpdateKept(u)'
<1>1. UpdateStage(u) /\ UpdateKept(u)
  BY DEF UpdatesInv
<1>2. UpdateStage(u)'
  BY <1>1 DEF UpdateStage, SameUpdate
<1>3. UpdateKept(u)'
  BY <1>1 DEF UpdateKept, TakenForUpdate, SameUpdate
<1>4. QED
  BY <1>2, <1>3

\* The parts of the invariant, after a step that changes one session.
LEMMA OneUpdates ==
  ASSUME UpdatesInv, Roots', Calls', Numbers', OnlyTaken', Taken \subseteq Taken',
         excused \subseteq excused', NEW s \in TempSessions,
         \A u \in TempSessions \ {s} : SameUpdate(u),
         \A u \in TempSessions \ {s} : Safe(u) =>
           story'[u].replaced \/ story'[u].edit \in excused' \/ Safe(u)',
         UpdateStage(s)', UpdateKept(s)'
  PROVE  UpdatesInv'
<1>1. \A u \in TempSessions \ {s} : UpdateStage(u)' /\ UpdateKept(u)'
  BY OtherUpdate
<1>2. QED
  BY <1>1 DEF UpdatesInv

\* After one that changes none.
LEMMA NoneUpdates ==
  ASSUME UpdatesInv, Roots', Calls', Numbers', OnlyTaken', Taken \subseteq Taken',
         excused \subseteq excused', \A u \in TempSessions : SameUpdate(u),
         \A u \in TempSessions : Safe(u) =>
           story'[u].replaced \/ story'[u].edit \in excused' \/ Safe(u)'
  PROVE  UpdatesInv'
<1>1. \A u \in TempSessions : UpdateStage(u)' /\ UpdateKept(u)'
  BY OtherUpdate
<1>2. QED
  BY <1>1 DEF UpdatesInv

\* Edits that stay where they are.
LEMMA SafeStays ==
  ASSUME NEW s, Safe(s), story'[s].edit = story[s].edit, UNCHANGED <<disk, session, registered>>,
         \A t \in registered : Raced(t)' => Raced(t)
  PROVE  Safe(s)'
BY DEF Safe, Carries

LEMMA NumbersStay ==
  ASSUME Numbers, UNCHANGED via, \A u \in TempSessions : story'[u].edit = story[u].edit
  PROVE  Numbers' /\ Taken' = Taken
<1>1. Made' = Made /\ Numbered' = Numbered /\ Taken' = Taken
  <2>1. Made' = Made
    BY DEF Made
  <2>2. Numbered' = Numbered
    BY DEF Numbered
  <2>3. QED
    BY <2>1, <2>2 DEF Taken, Numbered
<1>2. QED
  BY <1>1 DEF Numbers

\* A step of the registry that moves no data.
LEMMA SameData ==
  ASSUME UpdatesInv, UNCHANGED <<disk, session, registered, history>>,
         \A t \in registered : Raced(t)' => Raced(t),
         NEW s \in TempSessions, \A u \in TempSessions \ {s} : SameUpdate(u),
         story'[s].edit = story[s].edit, story'[s].replaced = story[s].replaced,
         Calls', UpdateStage(s)',
         TakenForUpdate(s)' => TakenForUpdate(s)
  PROVE  UpdatesInv'
<1>1. UNCHANGED <<via, acked, excused>>
  BY DEF history
<1>2. Roots'
  BY DEF UpdatesInv, Roots
<1>3. \A u \in TempSessions : story'[u].edit = story[u].edit
  BY DEF SameUpdate
<1>4. Numbers' /\ Taken' = Taken
  BY <1>1, <1>3, NumbersStay DEF UpdatesInv
<1>5. OnlyTaken'
  BY <1>4 DEF UpdatesInv, OnlyTaken
<1>6. \A u \in TempSessions : Safe(u) => Safe(u)'
  BY <1>3, SafeStays
<1>7. UpdateKept(s)'
  BY <1>1, <1>3, <1>6 DEF UpdatesInv, UpdateKept
<1>8. QED
  BY <1>1, <1>2, <1>4, <1>5, <1>6, <1>7, OneUpdates

LEMMA BeforeUpdate ==
  ASSUME UpdatesInv, UNCHANGED registry, NEW s \in TempSessions,
         \A u \in TempSessions \ {s} : SameUpdate(u),
         story'[s].replaced = story[s].replaced, SameUpdate(s) \/ Before(s)
  PROVE  UpdatesInv'
<1>1. UNCHANGED <<disk, session, registered, history>> /\ UNCHANGED call
  BY DEF registry
<1>2. \A t \in registered : Raced(t)' => Raced(t)
  BY <1>1 DEF Raced
<1>3. UpdateStage(s) /\ Calls /\ (call[s] # NoCall => temp[s].stage = "updating")
  BY DEF UpdatesInv, Calls
<1>4. UNCHANGED via
  BY <1>1 DEF history
<1>5. Calls'
  <2>1. ASSUME NEW u \in TempSessions, call[u] # NoCall
        PROVE  temp'[u].stage = temp[u].stage /\ temp'[u].token = temp[u].token
    <3>1. temp[u].stage = "updating"
      BY <1>3, <2>1 DEF Calls
    <3>2. SameUpdate(u)
      BY <3>1 DEF Before
    <3>3. QED
      BY <3>2 DEF SameUpdate
  <2>2. QED
    BY <1>1, <1>3, <1>4, <2>1 DEF Calls, Found, CallShape
<1>6. CASE SameUpdate(s)
  <2>1. Numbers' /\ Taken' = Taken
    BY <1>4, <1>6, NumbersStay DEF UpdatesInv, SameUpdate
  <2>2. UpdateStage(s)'
    BY <1>3, <1>6, <2>1 DEF UpdateStage, SameUpdate
  <2>3. TakenForUpdate(s)' => TakenForUpdate(s)
    BY <1>6 DEF SameUpdate, TakenForUpdate
  <2>4. story'[s].edit = story[s].edit
    BY <1>6 DEF SameUpdate
  <2>5. QED
    BY <1>1, <1>2, <1>5, <1>6, <2>2, <2>3, <2>4, SameData
<1>7. CASE Before(s)
  <2>1. story[s].edit = 0 /\ story[s].fate # "updated"
    BY <1>3, <1>7 DEF Before, UpdateStage
  <2>2. UpdateStage(s)'
    BY <1>7, <2>1 DEF Before, UpdateStage
  <2>3. ~TakenForUpdate(s)'
    BY <1>7, <2>1 DEF Before, TakenForUpdate
  <2>4. story'[s].edit = story[s].edit /\ story'[s].replaced = story[s].replaced
    BY <1>7 DEF Before
  <2>5. QED
    BY <1>1, <1>2, <1>5, <2>2, <2>3, <2>4, SameData
<1>8. QED
  BY <1>6, <1>7

\* What the steps that leave the registry alone do to the sessions.
Quiet(s) ==
  /\ \A u \in TempSessions \ {s} : SameUpdate(u)
  /\ story'[s].replaced = story[s].replaced
  /\ SameUpdate(s) \/ Before(s)

LEMMA OneIsQuiet ==
  ASSUME TempInv, NEW s \in TempSessions, NEW t, temp' = [temp EXCEPT ![s] = t],
         NEW r, story' = [story EXCEPT ![s] = r],
         r.replaced = story[s].replaced, r.edit = story[s].edit,
         \/ /\ t.stage = temp[s].stage /\ t.token = temp[s].token /\ t.base = temp[s].base
            /\ r.fate = story[s].fate
         \/ /\ temp[s].stage \in {"none", "open", "asking", "starting"}
            /\ t.stage \notin {"updating", "updated"}
            /\ r.fate \in {story[s].fate, "unchanged", "declined", "missing"}
  PROVE  Quiet(s)
<1>1. DOMAIN temp = TempSessions /\ DOMAIN story = TempSessions
  BY DEF TempInv, Shaped
<1>2. temp'[s] = t /\ story'[s] = r
  BY <1>1
<1>3. \A u \in TempSessions \ {s} : temp'[u] = temp[u] /\ story'[u] = story[u]
  BY <1>1
<1>4. \A u \in TempSessions \ {s} : SameUpdate(u)
  BY <1>3 DEF SameUpdate
<1>5. SameUpdate(s) \/ Before(s)
  BY <1>2 DEF SameUpdate, Before
<1>6. QED
  BY <1>2, <1>4, <1>5 DEF Quiet

LEMMA OneTempIsQuiet ==
  ASSUME TempInv, NEW s \in TempSessions, NEW t, temp' = [temp EXCEPT ![s] = t],
         story' = story,
         \/ t.stage = temp[s].stage /\ t.token = temp[s].token /\ t.base = temp[s].base
         \/ /\ temp[s].stage \in {"none", "open", "asking", "starting"}
            /\ t.stage \notin {"updating", "updated"}
  PROVE  Quiet(s)
<1>1. story' = [story EXCEPT ![s] = story[s]]
  BY DEF TempInv, Shaped
<1>2. QED
  BY <1>1, OneIsQuiet

LEMMA FinishedIsQuiet ==
  ASSUME TempInv, NEW s \in TempSessions, NEW t,
         t = temp[s] \/ t = [temp[s] EXCEPT !.notices = @ - 1],
         temp[s].handled \/ temp[s].stage = "open", Finished(s, t)
  PROVE  Quiet(s)
<1>1. PICK B : Shaped(B)
  BY DEF TempInv
<1>2. temp[s] \in Temps(B) /\ story[s] \in Stories(B) /\ story \in [TempSessions -> Stories(B)]
  BY <1>1 DEF Shaped
<1>3. /\ t.stage = temp[s].stage /\ t.token = temp[s].token /\ t.base = temp[s].base
      /\ t.handled = temp[s].handled
  BY <1>2 DEF Temps
<1>4. CASE t.handled
  <2>1. temp' = [temp EXCEPT ![s] = t] /\ UNCHANGED story
    BY <1>4 DEF Finished
  <2>2. QED
    BY <1>3, <2>1, OneTempIsQuiet
<1>5. CASE ~t.handled
  <2>1. temp[s].stage = "open"
    BY <1>3, <1>5
  <2>2. PICK n, fate :
          /\ n = IF Changed(t) THEN [Handled(t) EXCEPT !.stage = "asking"] ELSE Released(t)
          /\ fate = IF Changed(t) THEN story[s].fate ELSE "unchanged"
    OBVIOUS
  <2>3. PICK r : r = [story[s] EXCEPT !.found = t.file, !.judged = TRUE, !.fate = fate]
    OBVIOUS
  <2>4. temp' = [temp EXCEPT ![s] = n]
    BY <1>5, <2>2 DEF Finished
  <2>5. story' = [story EXCEPT ![s] = r]
    <3>1. story' = [story EXCEPT ![s].found = t.file, ![s].judged = TRUE,
                                 ![s].fate = IF Changed(t) THEN @ ELSE "unchanged"]
      BY <1>5 DEF Finished
    <3>2. CASE Changed(t)
      BY <1>2, <2>2, <2>3, <3>1, <3>2 DEF Stories
    <3>3. CASE ~Changed(t)
      BY <1>2, <2>2, <2>3, <3>1, <3>3 DEF Stories
    <3>4. QED
      BY <3>2, <3>3
  <2>6. r.replaced = story[s].replaced /\ r.edit = story[s].edit /\ r.fate = fate
    BY <1>2, <2>3 DEF Stories
  <2>7. n.stage \in {"asking", "over"}
    BY <2>2 DEF Handled, Released
  <2>8. QED
    BY <2>1, <2>2, <2>4, <2>5, <2>6, <2>7, OneIsQuiet
<1>6. QED
  BY <1>4, <1>5

LEMMA ProgramsAreQuiet ==
  ASSUME TempInv, NEW s \in TempSessions, Starts(s) \/ Programs(s) \/ DeleteProcess(s)
  PROVE  UNCHANGED registry /\ Quiet(s)
<1>1. PICK B : Shaped(B)
  BY DEF TempInv
<1>2. temp[s] \in Temps(B) /\ DOMAIN temp = TempSessions
  BY <1>1 DEF Shaped
<1>3. UNCHANGED <<registry, story>>
  BY DEF Starts, NotLaunched, ViewOrEdit, OpenOutside, DragOut, Launch,
     Programs, Save, RemoveFile, EndProgram, DeleteProcess, OutsideUnchanged
<1> SUFFICES Quiet(s)
  BY <1>3 DEF registry
<1>4. CASE Starts(s)
  <2>1. temp[s].stage = "none"
    BY <1>4 DEF Starts, NotLaunched, ViewOrEdit, OpenOutside, DragOut, Fresh
  <2>2. ASSUME NEW t, Launch(s, t), t.stage \in {"open", "over"}
        PROVE  Quiet(s)
    BY <1>3, <2>1, <2>2, OneTempIsQuiet DEF Launch
  <2>3. ASSUME NEW x, NEW purpose, x = Extracted(purpose),
               NEW programs, NEW notices, NEW pending, NEW refs
        PROVE  /\ x.stage = "open"
               /\ [x EXCEPT !.programs = programs, !.notices = notices, !.refs = refs].stage = "open"
               /\ [x EXCEPT !.programs = programs, !.notices = notices, !.pending = pending,
                            !.refs = refs].stage = "open"
    BY <2>3 DEF Extracted, NoTemp
  <2>4. CASE NotLaunched(s)
    <3>1. [NoTemp EXCEPT !.stage = "over"].stage = "over"
      BY DEF NoTemp
    <3>2. QED
      BY <2>2, <2>4, <3>1 DEF NotLaunched
  <2>5. CASE ViewOrEdit(s)
    <3>1. PICK ended \in 0..1 :
            Launch(s, [Extracted("edit") EXCEPT !.programs = 1 - ended, !.notices = PostedNotices(ended),
                                                !.refs = @ \cup {"process"}])
      BY <2>5 DEF ViewOrEdit
    <3>2. PICK x, refs : x = Extracted("edit") /\ refs = x.refs \cup {"process"}
      OBVIOUS
    <3>3. Launch(s, [x EXCEPT !.programs = 1 - ended, !.notices = PostedNotices(ended), !.refs = refs])
      BY <3>1, <3>2
    <3>4. PICK t : t = [x EXCEPT !.programs = 1 - ended, !.notices = PostedNotices(ended), !.refs = refs]
      OBVIOUS
    <3>5. t.stage = "open"
      BY <2>3, <3>2, <3>4
    <3>6. QED
      BY <2>2, <3>3, <3>4, <3>5
  <2>6. CASE OpenOutside(s)
    <3>1. PICK tracked \in 0..MaxLaunches, how \in {"process", "poll"} :
            \E ended \in 0..tracked :
              Launch(s, [Extracted("outside") EXCEPT
                           !.programs = tracked - ended, !.notices = PostedNotices(ended),
                           !.pending = tracked,
                           !.refs = @ \cup (IF tracked = 0 THEN {} ELSE {how})])
      BY <2>6 DEF OpenOutside
    <3>2. PICK ended \in 0..tracked :
              Launch(s, [Extracted("outside") EXCEPT
                           !.programs = tracked - ended, !.notices = PostedNotices(ended),
                           !.pending = tracked,
                           !.refs = @ \cup (IF tracked = 0 THEN {} ELSE {how})])
      BY <3>1
    <3>3. PICK x, refs :
            /\ x = Extracted("outside")
            /\ refs = x.refs \cup (IF tracked = 0 THEN {} ELSE {how})
      OBVIOUS
    <3>4. Launch(s, [x EXCEPT !.programs = tracked - ended, !.notices = PostedNotices(ended),
                              !.pending = tracked, !.refs = refs])
      BY <3>2, <3>3
    <3>5. PICK t : t = [x EXCEPT !.programs = tracked - ended, !.notices = PostedNotices(ended),
                                 !.pending = tracked, !.refs = refs]
      OBVIOUS
    <3>6. t.stage = "open"
      BY <2>3, <3>3, <3>5
    <3>7. QED
      BY <2>2, <3>4, <3>5, <3>6
  <2>7. CASE DragOut(s)
    BY <2>2, <2>3, <2>7 DEF DragOut
  <2>8. QED
    BY <1>4, <2>4, <2>5, <2>6, <2>7 DEF Starts
<1>5. CASE Programs(s) \/ DeleteProcess(s)
  <2>1. ASSUME NEW file, temp' = [temp EXCEPT ![s].file = file]
        PROVE  Quiet(s)
    BY <1>2, <1>3, <2>1, OneTempIsQuiet DEF Temps
  <2>2. CASE Save(s)
    BY <2>1, <2>2 DEF Save
  <2>3. CASE RemoveFile(s)
    <3>1. PICK t : t = [temp[s] EXCEPT !.file = [temp[s].file EXCEPT !.there = FALSE]]
      OBVIOUS
    <3>2. temp' = [temp EXCEPT ![s] = t]
      BY <2>3, <3>1 DEF RemoveFile
    <3>3. t.stage = temp[s].stage /\ t.token = temp[s].token /\ t.base = temp[s].base
      BY <1>2, <3>1 DEF Temps
    <3>4. QED
      BY <1>3, <3>2, <3>3, OneTempIsQuiet
  <2>4. CASE EndProgram(s)
    <3>1. PICK t : t = [temp[s] EXCEPT !.programs = @ - 1, !.notices = @ + 1]
      OBVIOUS
    <3>2. temp' = [temp EXCEPT ![s] = t]
      BY <2>4, <3>1 DEF EndProgram
    <3>3. t.stage = temp[s].stage /\ t.token = temp[s].token /\ t.base = temp[s].base
      BY <1>2, <3>1 DEF Temps
    <3>4. QED
      BY <1>3, <3>2, <3>3, OneTempIsQuiet
  <2>5. CASE DeleteProcess(s)
    <3>1. PICK t : t = [temp[s] EXCEPT !.refs = @ \ {"process"}, !.programs = 0, !.notices = 0]
      OBVIOUS
    <3>2. temp' = [temp EXCEPT ![s] = t]
      BY <2>5, <3>1 DEF DeleteProcess
    <3>3. t.stage = temp[s].stage /\ t.token = temp[s].token /\ t.base = temp[s].base
      BY <1>2, <3>1 DEF Temps
    <3>4. QED
      BY <1>3, <3>2, <3>3, OneTempIsQuiet
  <2>6. QED
    BY <1>5, <2>2, <2>3, <2>4, <2>5 DEF Programs
<1>6. QED
  BY <1>4, <1>5

LEMMA NoticesAreQuiet ==
  ASSUME TempInv, NEW s \in TempSessions, Notice(s) \/ Finalize(s)
  PROVE  UNCHANGED registry /\ Quiet(s)
<1>1. PICK B : Shaped(B)
  BY DEF TempInv
<1>2. temp[s] \in Temps(B) /\ Good(temp[s], story[s], window)
  BY <1>1 DEF TempInv, Shaped
<1>3. temp[s].handled \/ temp[s].stage = "open"
  <2>1. CASE Notice(s)
    BY <1>2, <2>1 DEF Notice, Good, Untouched, Temps
  <2>2. CASE Finalize(s)
    BY <2>2 DEF Finalize, TempInv, Queued
  <2>3. QED
    BY <2>1, <2>2
<1>4. UNCHANGED registry
  BY DEF Notice, Finalize
<1> SUFFICES Quiet(s)
  BY <1>4
<1>5. CASE Notice(s)
  <2>1. PICK t : t = [temp[s] EXCEPT !.notices = @ - 1]
    OBVIOUS
  <2>2. /\ t.stage = temp[s].stage /\ t.token = temp[s].token /\ t.base = temp[s].base
        /\ t.handled = temp[s].handled
    BY <1>2, <2>1 DEF Temps
  <2>3. \/ Finished(s, t)
        \/ temp' = [temp EXCEPT ![s] = Drained(t)] /\ UNCHANGED story
    BY <1>5, <2>1 DEF Notice
  <2>4. CASE Finished(s, t)
    BY <1>3, <2>1, <2>4, FinishedIsQuiet
  <2>5. CASE temp' = [temp EXCEPT ![s] = Drained(t)] /\ UNCHANGED story
    <3>1. PICK n : n = Drained(t)
      OBVIOUS
    <3>2. CASE t.handled
      <4>1. n = t
        BY <3>1, <3>2 DEF Drained
      <4>2. QED
        BY <2>2, <2>5, <3>1, <4>1, OneTempIsQuiet
    <3>3. CASE ~t.handled
      <4>1. temp[s].stage = "open" /\ t.stage = "open"
        BY <1>3, <2>2, <3>3
      <4>2. n.stage \in {"open", "over"}
        <5>1. PICK pending : pending = IF t.pending > 0 THEN t.pending - 1 ELSE 0
          OBVIOUS
        <5>2. CASE pending = 0
          BY <3>1, <3>3, <5>1, <5>2 DEF Drained, Released, Handled
        <5>3. CASE pending # 0
          <6>1. n = [t EXCEPT !.pending = pending]
            BY <3>1, <3>3, <5>1, <5>3 DEF Drained
          <6>2. QED
            BY <1>2, <2>1, <4>1, <6>1 DEF Temps
        <5>4. QED
          BY <5>2, <5>3
      <4>3. QED
        BY <2>5, <3>1, <4>1, <4>2, OneTempIsQuiet
    <3>4. QED
      BY <3>2, <3>3
  <2>6. QED
    BY <2>3, <2>4, <2>5
<1>6. CASE Finalize(s)
  <2>1. CASE Finished(s, temp[s])
    BY <1>3, <2>1, FinishedIsQuiet
  <2>2. CASE temp[s].purpose # "edit" /\ temp' = [temp EXCEPT ![s] = Released(@)] /\ UNCHANGED story
    <3>1. PICK n : n = Released(temp[s])
      OBVIOUS
    <3>2. temp' = [temp EXCEPT ![s] = n] /\ n.stage = "over"
      <4>1. n \in Temps(B) /\ n.stage = "over"
        BY <1>2, <3>1, ReleasedFields
      <4>2. QED
        BY <2>2, <3>1, <4>1
    <3>3. temp[s].stage \in {"none", "open", "over"}
      BY <1>2, <2>2 DEF Good
    <3>4. CASE temp[s].stage = "over"
      <4>1. n.token = temp[s].token /\ n.base = temp[s].base
        BY <1>2, <3>1 DEF Released, Handled, Temps
      <4>2. QED
        BY <2>2, <3>2, <3>4, <4>1, OneTempIsQuiet
    <3>5. CASE temp[s].stage # "over"
      BY <2>2, <3>2, <3>3, <3>5, OneTempIsQuiet
    <3>6. QED
      BY <3>4, <3>5
  <2>3. QED
    BY <1>6, <2>1, <2>2 DEF Finalize
<1>7. QED
  BY <1>5, <1>6

LEMMA AnswersAreQuiet ==
  ASSUME TempInv, Answer
  PROVE  UNCHANGED registry /\ \E s \in TempSessions : Quiet(s)
<1>1. PICK B : Shaped(B)
  BY DEF TempInv
<1>2. PICK s : s = Last(asking)
  OBVIOUS
<1>3. s \in TempSessions /\ temp[s].stage = "asking"
  <2>1. asking \in Seq(TempSessions) /\ asking # <<>>
    BY <1>1 DEF Shaped, Answer, Asked
  <2>2. Len(asking) \in 1..Len(asking) /\ s = asking[Len(asking)]
    BY <1>2, <2>1 DEF Last
  <2>3. QED
    BY <2>1, <2>2 DEF TempInv, Queued
<1>4. temp[s] \in Temps(B) /\ story[s] \in Stories(B)
  BY <1>1, <1>3 DEF Shaped
<1>8. UNCHANGED registry
  BY DEF Answer
<1> SUFFICES Quiet(s)
  BY <1>8, <1>3
<1>5. CASE \E fate \in {"declined", "missing"} :
             /\ temp' = [temp EXCEPT ![s] = Released(@)]
             /\ story' = [story EXCEPT ![s].fate = fate]
  <2>1. PICK fate \in {"declined", "missing"} :
             /\ temp' = [temp EXCEPT ![s] = Released(@)]
             /\ story' = [story EXCEPT ![s].fate = fate]
    BY <1>5
  <2>2. PICK n, r : n = Released(temp[s]) /\ r = [story[s] EXCEPT !.fate = fate]
    OBVIOUS
  <2>3. n.stage = "over"
    BY <1>4, <2>2, ReleasedFields
  <2>4. r.replaced = story[s].replaced /\ r.edit = story[s].edit /\ r.fate = fate
    BY <1>4, <2>2 DEF Stories
  <2>5. temp' = [temp EXCEPT ![s] = n] /\ story' = [story EXCEPT ![s] = r]
    BY <2>1, <2>2
  <2>6. QED
    BY <1>3, <2>3, <2>4, <2>5, OneIsQuiet
<1>6. CASE /\ temp' = [temp EXCEPT ![s].stage = "starting", ![s].refs = @ \cup {"chain"}]
           /\ UNCHANGED story
  <2>1. PICK n : n = [temp[s] EXCEPT !.stage = "starting", !.refs = @ \cup {"chain"}]
    OBVIOUS
  <2>2. temp' = [temp EXCEPT ![s] = n]
    BY <1>6, <2>1
  <2>3. n.stage = "starting"
    BY <1>4, <2>1 DEF Temps
  <2>4. QED
    BY <1>3, <1>6, <2>2, <2>3, OneTempIsQuiet
<1>7. QED
  BY <1>2, <1>5, <1>6 DEF Answer

LEMMA QuietKeepsUpdates ==
  ASSUME UpdatesInv, UNCHANGED registry, NEW s \in TempSessions, Quiet(s)
  PROVE  UpdatesInv'
BY BeforeUpdate DEF Quiet

-----------------------------------------------------------------------------
(* The archive and its edits.                                              *)

LEMMA ArchiveHasRoot ==
  ASSUME NEW c \in Archives
  PROVE  0 \in DOMAIN c /\ c # NoFile
<1>1. PICK m \in Levels : c \in [0..m -> SUBSET Edits]
  BY DEF Archives
<1>2. 0 \in 0..m /\ DOMAIN c = 0..m /\ DOMAIN NoFile = {}
  BY <1>1, BoundsAssumption DEF Levels, NoFile
<1>3. QED
  BY <1>2

LEMMA EditAdded ==
  ASSUME NEW c \in Archives, NEW e \in Edits
  PROVE  /\ WithEdit(c, 0, e) \in Archives
         /\ EditsIn(WithEdit(c, 0, e)) = EditsIn(c) \cup {e}
<1>1. PICK m \in Levels : c \in [0..m -> SUBSET Edits]
  BY DEF Archives
<1>2. 0 \in DOMAIN c
  BY ArchiveHasRoot
<1>3. WithEdit(c, 0, e) \in [0..m -> SUBSET Edits]
  BY <1>1, <1>2 DEF WithEdit
<1>4. WithEdit(c, 0, e) \in Archives
  BY <1>3 DEF Archives
<1>5. /\ DOMAIN WithEdit(c, 0, e) = DOMAIN c
      /\ WithEdit(c, 0, e)[0] = c[0] \cup {e}
      /\ \A l \in DOMAIN c \ {0} : WithEdit(c, 0, e)[l] = c[l]
  BY <1>1, <1>2 DEF WithEdit
<1>6. QED
  <2>1. ASSUME NEW x \in EditsIn(WithEdit(c, 0, e))
        PROVE  x \in EditsIn(c) \cup {e}
    BY <1>5, <2>1 DEF EditsIn
  <2>2. ASSUME NEW x \in EditsIn(c)
        PROVE  x \in EditsIn(WithEdit(c, 0, e))
    BY <1>5, <2>2 DEF EditsIn
  <2>3. e \in EditsIn(WithEdit(c, 0, e))
    BY <1>2, <1>5 DEF EditsIn
  <2>4. QED
    BY <1>4, <2>1, <2>2, <2>3

LEMMA NothingInNoFile == EditsIn(NoFile) = {}
<1>1. DOMAIN NoFile = {}
  BY DEF NoFile
<1>2. QED
  BY <1>1 DEF EditsIn

\* The session that an edit is added to, when a call on it ends.
LEMMA RootWritten ==
  ASSUME Roots, NEW t \in DOMAIN session, NEW e \in Edits,
         NEW outcome \in WriteOutcomes(t, WithEdit(Material(t), session[t].level, e))
  PROVE  /\ outcome.session \in RootType
         /\ outcome.session.dirty => outcome.session.file # NoFile
         /\ session[t].dirty =>
              outcome.session.dirty /\ EditsIn(session[t].file) \subseteq EditsIn(outcome.session.file)
         /\ EditsIn(outcome.session.file) \subseteq EditsIn(session[t].file) \cup EditsIn(disk) \cup {e}
         /\ EditsIn(Material(t)) \subseteq EditsIn(session[t].file) \cup EditsIn(disk)
         /\ EditsIn(WithEdit(Material(t), session[t].level, e)) = EditsIn(Material(t)) \cup {e}
         /\ outcome.ok => outcome.session.dirty /\ e \in EditsIn(outcome.session.file)
<1>1. PICK x : x = session[t]
  OBVIOUS
<1>2. /\ x \in RootType /\ x.level = 0 /\ x.parent = NoToken /\ x.buffered = FALSE
      /\ x.file \in Archives \cup {NoFile} /\ disk \in Archives
      /\ x.dirty => x.file # NoFile
  <2>1. session \in Seq(RootType) /\ disk \in Archives /\ (x.dirty => x.file # NoFile)
    BY <1>1 DEF Roots
  <2>2. x \in RootType
    BY <1>1, <2>1
  <2>3. QED
    BY <2>1, <2>2 DEF RootType
<1>3. PICK m : m = IF x.file # NoFile THEN x.file ELSE disk
  OBVIOUS
<1>4. Material(t) = m
  BY <1>1, <1>2, <1>3 DEF Material, Nested
<1>5. m \in Archives /\ EditsIn(m) \subseteq EditsIn(x.file) \cup EditsIn(disk)
  BY <1>2, <1>3
<1>6. PICK new : new = WithEdit(Material(t), session[t].level, e)
  OBVIOUS
<1>7. new \in Archives /\ EditsIn(new) = EditsIn(m) \cup {e} /\ new # NoFile
  BY <1>1, <1>2, <1>4, <1>5, <1>6, EditAdded, ArchiveHasRoot
<1>8. PICK y : y = Materialized(t)
  OBVIOUS
<1>9. /\ y \in RootType /\ y.file = m /\ y.dirty = x.dirty /\ m # NoFile
  <2>1. m # NoFile
    BY <1>5, ArchiveHasRoot
  <2>2. CASE x.file # NoFile
    BY <1>1, <1>2, <1>3, <1>8, <2>1, <2>2 DEF Materialized
  <2>3. CASE x.file = NoFile
    <3>1. y = [x EXCEPT !.view = m, !.file = m, !.buffered = FALSE]
      BY <1>1, <1>4, <1>8, <2>3 DEF Materialized, Reopened
    <3>2. QED
      BY <1>2, <1>5, <2>1, <3>1 DEF RootType
  <2>4. QED
    BY <2>2, <2>3
<1>10. PICK u : u = Unrefreshed(t, new)
  OBVIOUS
<1>11. u \in RootType /\ u.file = new /\ u.dirty
  <2>1. u = [y EXCEPT !.file = new, !.dirty = TRUE]
    BY <1>8, <1>10 DEF Unrefreshed
  <2>2. QED
    BY <1>7, <1>9, <2>1 DEF RootType
<1>12. PICK r : r = Reopened(u, new)
  OBVIOUS
<1>13. r \in RootType /\ r.file = new /\ r.dirty
  <2>1. r = [u EXCEPT !.view = new, !.file = new, !.buffered = FALSE]
    BY <1>12 DEF Reopened
  <2>2. QED
    BY <1>7, <1>11, <2>1 DEF RootType
<1>14. PICK o : o = outcome.session
  OBVIOUS
<1>15. (o = y \/ o = u \/ o = r) /\ (outcome.ok => o = r)
  <2>1. outcome \in {[session |-> Materialized(t), ok |-> FALSE],
                     [session |-> Unrefreshed(t, new), ok |-> FALSE],
                     [session |-> Reopened(Unrefreshed(t, new), new), ok |-> TRUE]}
    BY <1>6 DEF WriteOutcomes
  <2>2. QED
    BY <1>8, <1>10, <1>12, <1>14, <2>1
<1>16. /\ o \in RootType /\ o.file # NoFile
       /\ x.dirty => o.dirty
       /\ EditsIn(m) \subseteq EditsIn(o.file) /\ EditsIn(o.file) \subseteq EditsIn(m) \cup {e}
  BY <1>7, <1>9, <1>11, <1>13, <1>15
<1>17. x.dirty => x.file = m
  BY <1>2, <1>3
<1>18. outcome.ok => o.dirty /\ e \in EditsIn(o.file)
  BY <1>7, <1>13, <1>15
<1>19. QED
  BY <1>1, <1>4, <1>5, <1>6, <1>7, <1>14, <1>16, <1>17, <1>18

-----------------------------------------------------------------------------
(* The numbers of the edits.                                               *)

LEMMA RoomForOne ==
  ASSUME Numbers, NEW s \in TempSessions, story[s].edit = 0
  PROVE  \E k, m \in 0..MaxEdits :
           /\ k + m < MaxEdits /\ k + m <= Cardinality(Numbered)
           /\ Made = 1..k /\ Taken = 1..k \cup (MaxEdits - m + 1)..MaxEdits
           /\ Cardinality(Numbered \cup {s}) = Cardinality(Numbered) + 1
           /\ Cardinality(Numbered) \in Nat
<1>1. Numbered \subseteq TempSessions /\ s \notin Numbered
  BY DEF Numbered
<1>2. IsFiniteSet(Numbered) /\ Cardinality(Numbered) \in Nat
  BY <1>1, TempAssumption, FS_Subset, FS_CardinalityType
<1>3. Cardinality(Numbered \cup {s}) = Cardinality(Numbered) + 1 /\ IsFiniteSet(Numbered \cup {s})
  BY <1>1, <1>2, FS_AddElement
<1>4. Cardinality(Numbered \cup {s}) <= Cardinality(TempSessions)
  BY <1>1, TempAssumption, FS_Subset
<1>5. Cardinality(TempSessions) \in Nat /\ Cardinality(TempSessions) <= MaxEdits /\ MaxEdits \in Nat
  BY TempAssumption, BoundsAssumption, FS_CardinalityType
<1>6. PICK k, m \in 0..MaxEdits :
        /\ k + m <= Cardinality(Numbered)
        /\ Made = 1..k /\ Taken = 1..k \cup (MaxEdits - m + 1)..MaxEdits
  BY DEF Numbers
<1>7. k + m < MaxEdits
  BY <1>2, <1>3, <1>4, <1>5, <1>6
<1>8. QED
  BY <1>2, <1>3, <1>6, <1>7

\* One more edit is numbered, of the session s.
LEMMA OneMoreTaken ==
  ASSUME NEW s \in TempSessions, story[s].edit = 0, NEW e \in Edits, story'[s].edit = e,
         \A u \in TempSessions \ {s} : story'[u].edit = story[u].edit,
         Made' \subseteq Made \cup {e}, Made \subseteq Made'
  PROVE  Numbered' = Numbered \cup {s} /\ Taken' = Taken \cup {e}
<1>1. e # 0
  BY BoundsAssumption DEF Edits
<1>2. Numbered' = Numbered \cup {s}
  BY <1>1 DEF Numbered
<1>3. \A u \in Numbered : u # s /\ story'[u].edit = story[u].edit
  BY DEF Numbered
<1>4. QED
  BY <1>2, <1>3 DEF Taken

LEMMA SessionNumbers ==
  ASSUME Numbers, NEW s \in TempSessions, story[s].edit = 0, NEW e \in Edits, NextEdit(e),
         story'[s].edit = e, \A u \in TempSessions \ {s} : story'[u].edit = story[u].edit,
         Made' = Made \cup {e}
  PROVE  Numbers' /\ e \notin Taken /\ Taken' = Taken \cup {e}
<1>1. PICK k, m \in 0..MaxEdits :
        /\ k + m < MaxEdits /\ k + m <= Cardinality(Numbered)
        /\ Made = 1..k /\ Taken = 1..k \cup (MaxEdits - m + 1)..MaxEdits
        /\ Cardinality(Numbered \cup {s}) = Cardinality(Numbered) + 1
        /\ Cardinality(Numbered) \in Nat
  BY RoomForOne
<1>2. Numbered' = Numbered \cup {s} /\ Taken' = Taken \cup {e}
  BY OneMoreTaken
<1>3. MaxEdits \in Nat /\ k \in Nat /\ m \in Nat
  BY BoundsAssumption
<1>4. e = k + 1
  <2>1. k + 1 \in Edits \ Made /\ e \in Edits \ Made
    BY <1>1, <1>3 DEF Edits, NextEdit
  <2>2. e <= k + 1
    BY <2>1 DEF NextEdit
  <2>3. QED
    BY <1>1, <1>3, <2>1, <2>2 DEF Edits
<1>5. e \notin Taken
  BY <1>1, <1>3, <1>4
<1>6. Made' = 1..k + 1 /\ Taken' = 1..k + 1 \cup (MaxEdits - m + 1)..MaxEdits
  BY <1>1, <1>2, <1>3, <1>4
<1>7. k + 1 \in 0..MaxEdits /\ (k + 1) + m <= Cardinality(Numbered')
  BY <1>1, <1>2, <1>3
<1>8. \A u \in TempSessions : story'[u].edit \in Edits \cup {0}
  BY DEF Numbers
<1>9. PICK n \in 0..MaxEdits : n = k + 1
  BY <1>7
<1>10. \E i, j \in 0..MaxEdits :
          /\ i + j <= Cardinality(Numbered')
          /\ Made' = 1..i /\ Taken' = 1..i \cup (MaxEdits - j + 1)..MaxEdits
  BY <1>6, <1>7, <1>9
<1>11. Numbers'
  BY <1>8, <1>10 DEF Numbers
<1>12. QED
  BY <1>2, <1>5, <1>11

LEMMA DirectNumbers ==
  ASSUME Numbers, NEW s \in TempSessions, story[s].edit = 0, NEW e \in Edits, NextDirect(e),
         story'[s].edit = e, \A u \in TempSessions \ {s} : story'[u].edit = story[u].edit,
         Made' = Made
  PROVE  Numbers' /\ Taken' = Taken \cup {e}
<1>1. PICK k, m \in 0..MaxEdits :
        /\ k + m < MaxEdits /\ k + m <= Cardinality(Numbered)
        /\ Made = 1..k /\ Taken = 1..k \cup (MaxEdits - m + 1)..MaxEdits
        /\ Cardinality(Numbered \cup {s}) = Cardinality(Numbered) + 1
        /\ Cardinality(Numbered) \in Nat
  BY RoomForOne
<1>2. Numbered' = Numbered \cup {s} /\ Taken' = Taken \cup {e}
  BY OneMoreTaken
<1>3. MaxEdits \in Nat /\ k \in Nat /\ m \in Nat
  BY BoundsAssumption
<1>4. PICK taken : taken = Made \cup {story[u].edit : u \in TempSessions}
  OBVIOUS
<1>5. \A x \in Edits : x \in taken <=> x \in Taken
  <2>1. 0 \notin Edits
    BY BoundsAssumption DEF Edits
  <2>2. QED
    BY <1>4, <2>1 DEF Taken, Numbered
<1>6. e \notin taken /\ \A other \in Edits \ taken : other <= e
  BY <1>4 DEF NextDirect
<1>7. e = MaxEdits - m
  <2>1. MaxEdits - m \in Edits \ Taken /\ e \in Edits \ Taken
    BY <1>1, <1>3, <1>5, <1>6 DEF Edits
  <2>2. MaxEdits - m <= e
    BY <1>5, <1>6, <2>1
  <2>3. QED
    BY <1>1, <1>3, <2>1, <2>2 DEF Edits
<1>8. Taken' = 1..k \cup (MaxEdits - (m + 1) + 1)..MaxEdits
  BY <1>1, <1>2, <1>3, <1>7
<1>9. m + 1 \in 0..MaxEdits /\ k + (m + 1) <= Cardinality(Numbered')
  BY <1>1, <1>2, <1>3
<1>10. \A u \in TempSessions : story'[u].edit \in Edits \cup {0}
  BY DEF Numbers
<1>11. PICK n \in 0..MaxEdits : n = m + 1
  BY <1>9
<1>12. k + n <= Cardinality(Numbered') /\ Taken' = 1..k \cup (MaxEdits - n + 1)..MaxEdits
  BY <1>8, <1>9, <1>11
<1>13. \E i, j \in 0..MaxEdits :
          /\ i + j <= Cardinality(Numbered')
          /\ Made' = 1..i /\ Taken' = 1..i \cup (MaxEdits - j + 1)..MaxEdits
  BY <1>1, <1>12
<1>14. Numbers'
  BY <1>10, <1>13 DEF Numbers
<1>15. QED
  BY <1>2, <1>14

-----------------------------------------------------------------------------
(* Steps of the registry.                                                  *)

LEMMA PanelCalls ==
  ASSUME Calls, NEW c, call' = [call EXCEPT ![panelTask] = c], c \in CallShape',
         c # NoCall => c.op = "close", temp' = temp, via' = via,
         DOMAIN session \subseteq DOMAIN session'
  PROVE  Calls'
<1>1. panelTask \in Threads /\ panelTask \notin TempSessions /\ TempSessions \subseteq Threads
  BY TempAssumption
<1>2. CallShape \subseteq CallShape'
  BY DEF CallShape
<1>3. call' \in [Threads -> CallShape']
  BY <1>2 DEF Calls
<1>4. via' \in [Edits -> DOMAIN session' \cup {NoToken}]
  BY DEF Calls
<1>5. call'[panelTask] = c /\ \A s \in TempSessions : call'[s] = call[s]
  BY <1>1 DEF Calls
<1>6. QED
  BY <1>3, <1>4, <1>5 DEF Calls

LEMMA SessionCalls ==
  ASSUME Calls, NEW s \in TempSessions, NEW c, call' = [call EXCEPT ![s] = c], c \in CallShape,
         c # NoCall => /\ c = Found("add", temp'[s].token) /\ temp'[s].stage = "updating"
                       /\ temp'[s].token \in DOMAIN session,
         DOMAIN session' = DOMAIN session, via' \in [Edits -> DOMAIN session \cup {NoToken}],
         \A u \in TempSessions \ {s} : SameUpdate(u)
  PROVE  Calls'
<1>1. panelTask \in Threads /\ panelTask \notin TempSessions /\ TempSessions \subseteq Threads
  BY TempAssumption
<1>2. CallShape' = CallShape
  BY DEF CallShape
<1>3. call' \in [Threads -> CallShape']
  BY <1>2 DEF Calls
<1>4. /\ call'[s] = c /\ call'[panelTask] = call[panelTask]
      /\ \A u \in TempSessions \ {s} : call'[u] = call[u]
  BY <1>1 DEF Calls
<1>5. \A u \in TempSessions \ {s} :
        temp'[u].stage = temp[u].stage /\ temp'[u].token = temp[u].token
  BY DEF SameUpdate
<1>6. QED
  BY <1>3, <1>4, <1>5 DEF Calls

\* Nobody commits but by a step that commits.
LEMMA RacedStays ==
  ASSUME Calls, NEW w \in Threads, NEW c, call' = [call EXCEPT ![w] = c],
         c.stage # "committed",
         registered \subseteq registered', NEW t \in registered, Raced(t)'
  PROVE  Raced(t)
<1>1. call \in [Threads -> CallShape]
  BY DEF Calls
<1>2. PICK v \in Threads :
        call'[v].op = "close" /\ call'[v].token = t /\ call'[v].stage = "committed"
  BY DEF Raced
<1>3. v # w
  BY <1>1, <1>2
<1>4. QED
  BY <1>1, <1>2, <1>3 DEF Raced

\* The panel's calls that move no data.
LEMMA PanelSameData ==
  ASSUME UpdatesInv, UNCHANGED <<disk, session, registered, history, temp, story>>,
         NEW c, call' = [call EXCEPT ![panelTask] = c], c \in CallShape,
         c # NoCall => c.op = "close", c.stage # "committed"
  PROVE  UpdatesInv'
<1>1. Calls /\ panelTask \in Threads
  BY TempAssumption DEF UpdatesInv
<1>2. UNCHANGED via
  BY DEF history
<1>3. CallShape' = CallShape
  BY DEF CallShape
<1>4. Calls'
  <2>1. c \in CallShape' /\ temp' = temp /\ via' = via /\ DOMAIN session \subseteq DOMAIN session'
    BY <1>2, <1>3
  <2>2. Calls /\ call' = [call EXCEPT ![panelTask] = c] /\ (c # NoCall => c.op = "close")
    BY <1>1
  <2>3. QED
    BY <2>1, <2>2, PanelCalls
<1>5. \A t \in registered : Raced(t)' => Raced(t)
  BY <1>1, RacedStays
<1>6. \A u \in TempSessions : SameUpdate(u) /\ story'[u].edit = story[u].edit
  BY DEF SameUpdate
<1>7. Roots'
  BY DEF UpdatesInv, Roots
<1>8. Numbers' /\ Taken' = Taken
  BY <1>2, <1>6, NumbersStay DEF UpdatesInv
<1>9. OnlyTaken'
  BY <1>8 DEF UpdatesInv, OnlyTaken
<1>10. \A u \in TempSessions : Safe(u) => Safe(u)'
  BY <1>5, <1>6, SafeStays
<1>11. excused' = excused
  BY DEF history
<1>12. QED
  BY <1>4, <1>6, <1>7, <1>8, <1>9, <1>10, <1>11, NoneUpdates

LEMMA OpenKeepsUpdates ==
  ASSUME UpdatesInv, OpenRoot(panelTask), UNCHANGED <<temp, story>>
  PROVE  UpdatesInv'
<1>1. PICK new : new = Opened(0, NoToken, disk, NoFile, FALSE)
  OBVIOUS
<1>2. /\ session' = Append(session, new) /\ registered' = registered \cup {Len(session) + 1}
      /\ call' = [call EXCEPT ![panelTask] = NoCall]
      /\ disk' = disk /\ via' = via /\ acked' = acked /\ excused' = excused
  BY <1>1 DEF OpenRoot, Register, Return, history
<1>3. Roots /\ Calls /\ Numbers /\ OnlyTaken /\ session \in Seq(RootType)
  BY DEF UpdatesInv, Roots
<1>4. new \in RootType /\ new.file = NoFile /\ new.dirty = FALSE
  BY <1>1, <1>3 DEF Opened, RootType, Roots
<1>5. /\ DOMAIN session' = DOMAIN session \cup {Len(session) + 1}
      /\ session' \in Seq(RootType) /\ Len(session) + 1 \notin DOMAIN session
      /\ session'[Len(session) + 1] = new
      /\ \A t \in DOMAIN session : session'[t] = session[t]
  BY <1>2, <1>3, <1>4
<1>6. Roots'
  BY <1>2, <1>3, <1>4, <1>5 DEF Roots
<1>7. Calls'
  <2>1. NoCall \in CallShape' /\ temp' = temp /\ DOMAIN session \subseteq DOMAIN session'
    BY <1>5 DEF CallShape
  <2>2. QED
    BY <1>2, <1>3, <2>1, PanelCalls
<1>8. \A u \in TempSessions : SameUpdate(u) /\ story'[u].edit = story[u].edit
  BY DEF SameUpdate
<1>9. Numbers' /\ Taken' = Taken
  BY <1>2, <1>3, <1>8, NumbersStay
<1>10. OnlyTaken'
  BY <1>2, <1>3, <1>4, <1>5, <1>9, NothingInNoFile DEF OnlyTaken
<1>11. \A t \in registered : Raced(t)' => Raced(t)
  <2>1. NoCall.stage # "committed" /\ registered \subseteq registered' /\ panelTask \in Threads
    BY <1>2, TempAssumption DEF NoCall
  <2>2. QED
    BY <1>2, <1>3, <2>1, RacedStays
<1>12. ASSUME NEW u \in TempSessions, Safe(u)
       PROVE  Safe(u)'
  <2>1. ASSUME NEW t \in registered, Carries(t, story[u].edit)
        PROVE  t \in registered' /\ Carries(t, story[u].edit)'
    BY <1>2, <1>3, <1>5, <1>8, <1>11, <2>1 DEF Carries, Roots
  <2>2. QED
    BY <1>2, <1>8, <1>12, <2>1 DEF Safe
<1>13. QED
  BY <1>2, <1>6, <1>7, <1>8, <1>9, <1>10, <1>12, NoneUpdates

LEMMA BeginCloseKeepsUpdates ==
  ASSUME UpdatesInv, NEW t, Begin(panelTask, "close", t), UNCHANGED <<temp, story>>
  PROVE  UpdatesInv'
<1>1. PICK c : c = Found("close", t)
  OBVIOUS
<1>2. c.op = "close" /\ c.stage # "committed"
  BY <1>1 DEF Found
<1>3. c \in CallShape
  BY <1>1 DEF Begin, Found, CallShape, UpdatesInv, Roots
<1>4. call' = [call EXCEPT ![panelTask] = c]
  BY <1>1 DEF Begin
<1>5. UNCHANGED <<disk, session, registered, history, temp, story>>
  BY DEF Begin
<1>6. QED
  BY <1>2, <1>3, <1>4, <1>5, PanelSameData

\* Who is raced when the session t is committed.
LEMMA CommittedRaces ==
  ASSUME Calls, NEW t, call[panelTask].token = t, call[panelTask] # NoCall,
         Committed(panelTask), UNCHANGED registered
  PROVE  /\ \E c \in CallShape : call' = [call EXCEPT ![panelTask] = c] /\ c.op = "close"
         /\ \A x \in registered \ {t} : Raced(x)' => Raced(x)
<1>1. PICK old : old = call[panelTask]
  OBVIOUS
<1>2. call \in [Threads -> CallShape] /\ panelTask \in Threads /\ old.op = "close" /\ old # NoCall
  BY <1>1, TempAssumption DEF Calls
<1>3. old \in [op : {"add", "close"}, token : DOMAIN session, stage : {"found", "committed"}]
  BY <1>1, <1>2 DEF CallShape
<1>4. PICK c : c = [old EXCEPT !.stage = "committed"]
  OBVIOUS
<1>5. c \in CallShape /\ c.op = "close" /\ c.token = t
  BY <1>1, <1>2, <1>3, <1>4 DEF CallShape
<1>6. call' = [call EXCEPT ![panelTask] = c]
  BY <1>1, <1>4 DEF Committed
<1>7. ASSUME NEW x \in registered \ {t}, Raced(x)'
      PROVE  Raced(x)
  <2>1. PICK v \in Threads :
          call'[v].op = "close" /\ call'[v].token = x /\ call'[v].stage = "committed"
    BY <1>7 DEF Raced
  <2>2. v # panelTask
    BY <1>2, <1>5, <1>6, <2>1
  <2>3. QED
    BY <1>2, <1>6, <2>1, <2>2 DEF Raced
<1>8. QED
  BY <1>5, <1>6, <1>7

LEMMA CloseCleanKeepsUpdates ==
  ASSUME UpdatesInv, CloseClean(panelTask), UNCHANGED <<temp, story>>
  PROVE  UpdatesInv'
<1>1. PICK t : t = call[panelTask].token
  OBVIOUS
<1>2. /\ ~session[t].dirty /\ Committed(panelTask) /\ call[panelTask] # NoCall
      /\ disk' = disk /\ session' = session /\ registered' = registered
      /\ via' = via /\ excused' = excused
  BY <1>1 DEF CloseClean, Doing, NoCall, history
<1>3. Roots /\ Calls /\ Numbers /\ OnlyTaken
  BY DEF UpdatesInv
<1>4. /\ \E c \in CallShape : call' = [call EXCEPT ![panelTask] = c] /\ c.op = "close"
      /\ \A x \in registered \ {t} : Raced(x)' => Raced(x)
  BY <1>1, <1>2, <1>3, CommittedRaces
<1>5. Calls'
  <2>1. CallShape' = CallShape /\ DOMAIN session \subseteq DOMAIN session' /\ temp' = temp
    BY <1>2 DEF CallShape
  <2>2. QED
    BY <1>2, <1>3, <1>4, <2>1, PanelCalls
<1>6. \A u \in TempSessions : SameUpdate(u) /\ story'[u].edit = story[u].edit
  BY DEF SameUpdate
<1>7. Roots' /\ Numbers' /\ Taken' = Taken
  BY <1>2, <1>3, <1>6, NumbersStay DEF Roots
<1>8. OnlyTaken'
  BY <1>2, <1>3, <1>7 DEF OnlyTaken
<1>9. ASSUME NEW u \in TempSessions, Safe(u)
      PROVE  Safe(u)'
  <2>1. ASSUME NEW x \in registered, Carries(x, story[u].edit)
        PROVE  Carries(x, story[u].edit)'
    BY <1>2, <1>4, <1>6, <2>1 DEF Carries
  <2>2. QED
    BY <1>2, <1>6, <1>9, <2>1 DEF Safe
<1>10. QED
  BY <1>2, <1>5, <1>6, <1>7, <1>8, <1>9, NoneUpdates

LEMMA EraseKeepsUpdates ==
  ASSUME UpdatesInv, Erase(panelTask), UNCHANGED <<temp, story>>
  PROVE  UpdatesInv'
<1>1. PICK t : t = call[panelTask].token
  OBVIOUS
<1>2. /\ call[panelTask].stage = "committed" /\ call[panelTask] # NoCall
      /\ call' = [call EXCEPT ![panelTask] = NoCall]
      /\ disk' = disk /\ session' = session /\ registered' = registered \ {t}
      /\ via' = via /\ excused' = excused
  BY <1>1 DEF Erase, NoCall, Return, history
<1>3. Roots /\ Calls /\ Numbers /\ OnlyTaken /\ panelTask \in Threads
  BY TempAssumption DEF UpdatesInv
<1>4. Raced(t)
  BY <1>1, <1>2, <1>3 DEF Raced, Calls
<1>5. \A x \in registered \ {t} : Raced(x)' => Raced(x)
  BY <1>2, <1>3 DEF Raced, Calls, NoCall
<1>6. Calls'
  <2>1. NoCall \in CallShape' /\ DOMAIN session \subseteq DOMAIN session' /\ temp' = temp
    BY <1>2 DEF CallShape
  <2>2. QED
    BY <1>2, <1>3, <2>1, PanelCalls
<1>7. \A u \in TempSessions : SameUpdate(u) /\ story'[u].edit = story[u].edit
  BY DEF SameUpdate
<1>8. Roots' /\ Numbers' /\ Taken' = Taken
  BY <1>2, <1>3, <1>7, NumbersStay DEF Roots
<1>9. OnlyTaken'
  BY <1>2, <1>3, <1>8 DEF OnlyTaken
<1>10. ASSUME NEW u \in TempSessions, Safe(u)
       PROVE  Safe(u)'
  <2>1. ASSUME NEW x \in registered, Carries(x, story[u].edit)
        PROVE  x \in registered' /\ Carries(x, story[u].edit)'
    BY <1>2, <1>4, <1>5, <1>7, <2>1 DEF Carries
  <2>2. QED
    BY <1>2, <1>7, <1>10, <2>1 DEF Safe
<1>11. QED
  BY <1>2, <1>6, <1>7, <1>8, <1>9, <1>10, NoneUpdates

\* What new data of the archive takes away is marked, and nothing else is.
LEMMA ReplacingMarks ==
  ASSUME TempInv, NEW new, NEW s \in TempSessions
  PROVE  /\ Replacing(new)[s].edit = story[s].edit /\ Replacing(new)[s].fate = story[s].fate
         /\ story[s].replaced => Replacing(new)[s].replaced
         /\ story[s].edit \in EditsIn(disk) => Replacing(new)[s].replaced \/ story[s].edit \in EditsIn(new)
<1>1. PICK B : story[s] \in Stories(B)
  BY DEF TempInv, Shaped
<1>2. PICK r : r = [story[s] EXCEPT !.replaced = TRUE]
  OBVIOUS
<1>3. r.edit = story[s].edit /\ r.fate = story[s].fate /\ r.replaced
  BY <1>1, <1>2 DEF Stories
<1>4. Replacing(new)[s] = IF story[s].edit \in EditsIn(disk) \ EditsIn(new) THEN r ELSE story[s]
  BY <1>2 DEF Replacing
<1>5. QED
  BY <1>3, <1>4

LEMMA CommitKeepsUpdates ==
  ASSUME TempInv, UpdatesInv, CommitToRoot(panelTask), story' = Replacing(disk'), UNCHANGED temp
  PROVE  UpdatesInv'
<1>1. PICK t : t = call[panelTask].token
  OBVIOUS
<1>2. /\ session[t].dirty /\ Committed(panelTask) /\ call[panelTask] # NoCall
      /\ disk' = session[t].file /\ session' = [session EXCEPT ![t].dirty = FALSE]
      /\ registered' = registered /\ via' = via /\ excused \subseteq excused'
  BY <1>1 DEF CommitToRoot, Doing, NoCall
<1>3. Roots /\ Calls /\ Numbers /\ OnlyTaken /\ session \in Seq(RootType)
  BY DEF UpdatesInv, Roots
<1>4. t \in DOMAIN session
  BY <1>1, <1>2, <1>3, TempAssumption DEF Calls, CallShape
<1>5. PICK old : old = session[t]
  OBVIOUS
<1>6. old \in RootType /\ old.file # NoFile /\ old.dirty
  BY <1>2, <1>3, <1>4, <1>5 DEF Roots
<1>7. PICK new : new = [old EXCEPT !.dirty = FALSE]
  OBVIOUS
<1>8. new \in RootType /\ new.file = old.file /\ new.dirty = FALSE
  BY <1>6, <1>7 DEF RootType
<1>9. /\ session' \in Seq(RootType) /\ DOMAIN session' = DOMAIN session
      /\ session'[t] = new /\ \A x \in DOMAIN session \ {t} : session'[x] = session[x]
  <2>1. session' = [session EXCEPT ![t] = new]
    BY <1>2, <1>5, <1>7
  <2>2. QED
    BY <1>3, <1>4, <1>8, <2>1
<1>10. disk' \in Archives
  BY <1>2, <1>5, <1>6 DEF RootType
<1>11. Roots'
  <2>1. \A x \in DOMAIN session' : session'[x].dirty => session'[x].file # NoFile
    BY <1>3, <1>8, <1>9 DEF Roots
  <2>2. registered' \subseteq DOMAIN session'
    BY <1>2, <1>3, <1>9 DEF Roots
  <2>3. QED
    BY <1>9, <1>10, <2>1, <2>2 DEF Roots
<1>12. /\ \E c \in CallShape : call' = [call EXCEPT ![panelTask] = c] /\ c.op = "close"
       /\ \A x \in registered \ {t} : Raced(x)' => Raced(x)
  BY <1>1, <1>2, <1>3, CommittedRaces
<1>13. Calls'
  <2>1. CallShape' = CallShape /\ DOMAIN session \subseteq DOMAIN session' /\ temp' = temp
    BY <1>9 DEF CallShape
  <2>2. QED
    BY <1>2, <1>3, <1>12, <2>1, PanelCalls
<1>14. ASSUME NEW u \in TempSessions
       PROVE  /\ SameUpdate(u) /\ story'[u].edit = story[u].edit
              /\ story[u].edit \in EditsIn(disk) =>
                   story'[u].replaced \/ story[u].edit \in EditsIn(session[t].file)
  <2>1. PICK d : d = disk'
    OBVIOUS
  <2>2. story'[u] = Replacing(d)[u]
    BY <2>1
  <2>3. QED
    BY <1>2, <2>1, <2>2, ReplacingMarks DEF SameUpdate
<1>15. Numbers' /\ Taken' = Taken
  BY <1>2, <1>3, <1>14, NumbersStay
<1>16. OnlyTaken'
  BY <1>2, <1>3, <1>4, <1>5, <1>8, <1>9, <1>15 DEF OnlyTaken
<1>17. ASSUME NEW u \in TempSessions, Safe(u)
       PROVE  story'[u].replaced \/ Safe(u)'
  <2>1. CASE story[u].edit \in EditsIn(disk)
    <3>1. story'[u].replaced \/ story'[u].edit \in EditsIn(disk')
      BY <1>2, <1>14, <2>1
    <3>2. QED
      BY <3>1 DEF Safe
  <2>2. CASE \E x \in registered : Carries(x, story[u].edit)
    <3>1. PICK x \in registered : Carries(x, story[u].edit)
      BY <2>2
    <3>2. CASE x = t
      <4>1. story'[u].edit \in EditsIn(disk')
        BY <1>2, <1>14, <3>1, <3>2 DEF Carries
      <4>2. QED
        BY <4>1 DEF Safe
    <3>3. CASE x # t
      <4>1. x \in registered' /\ Carries(x, story[u].edit)'
        BY <1>2, <1>3, <1>9, <1>12, <1>14, <3>1, <3>3 DEF Carries, Roots
      <4>2. QED
        BY <1>14, <4>1 DEF Safe
    <3>4. QED
      BY <3>2, <3>3
  <2>3. QED
    BY <1>17, <2>1, <2>2 DEF Safe
<1>18. QED
  BY <1>2, <1>11, <1>13, <1>14, <1>15, <1>16, <1>17, NoneUpdates

LEMMA PanelKeepsUpdates ==
  ASSUME TempInv, UpdatesInv,
         Enter \/ Leave \/ CloseStep \/ CloseWindow \/ DispatchClose \/ Quit
  PROVE  UpdatesInv'
<1>1. ASSUME UNCHANGED <<registry, temp, story>>
      PROVE  UpdatesInv'
  <2>1. UNCHANGED <<disk, session, registered, history, temp, story, call>>
    BY <1>1 DEF registry
  <2>2. UNCHANGED <<disk, session, registered, via, acked, excused, temp, story, call>>
    BY <2>1 DEF history
  <2>3. Roots' /\ Calls'
    BY <2>2 DEF UpdatesInv, Roots, Calls, CallShape
  <2>4. \A u \in TempSessions : SameUpdate(u) /\ story'[u].edit = story[u].edit
    BY <2>2 DEF SameUpdate
  <2>5. Numbers' /\ Taken' = Taken
    BY <2>2, NumbersStay DEF UpdatesInv
  <2>6. OnlyTaken'
    BY <2>2, <2>5 DEF UpdatesInv, OnlyTaken
  <2>7. \A t \in registered : Raced(t)' => Raced(t)
    BY <2>2 DEF Raced
  <2>8. \A u \in TempSessions : Safe(u) => Safe(u)'
    BY <2>2, <2>7, SafeStays
  <2>9. QED
    BY <2>2, <2>3, <2>4, <2>5, <2>6, <2>8, NoneUpdates
<1>2. CASE Enter
  BY <1>1, <1>2, OpenKeepsUpdates DEF Enter, TempUnchanged
<1>3. CASE Leave \/ DispatchClose
  <2>1. UNCHANGED <<temp, story>> /\ (UNCHANGED registry \/ Begin(panelTask, "close", shown))
    BY <1>3 DEF Leave, DispatchClose, TempUnchanged
  <2>2. CASE UNCHANGED registry
    BY <1>1, <2>1, <2>2
  <2>3. CASE Begin(panelTask, "close", shown)
    <3>1. PICK t : t = shown
      OBVIOUS
    <3>2. Begin(panelTask, "close", t)
      BY <2>3, <3>1
    <3>3. QED
      BY <2>1, <3>2, BeginCloseKeepsUpdates
  <2>4. QED
    BY <2>1, <2>2, <2>3
<1>4. CASE CloseStep
  <2>1. UNCHANGED temp
    BY <1>4 DEF CloseStep
  <2>2. \/ /\ CloseClean(panelTask) \/ CommitToRoot(panelTask) \/ Fail(panelTask)
           /\ story' = Replacing(disk')
        \/ Erase(panelTask) /\ UNCHANGED story
    BY <1>4 DEF CloseStep
  <2>3. CASE CommitToRoot(panelTask) /\ story' = Replacing(disk')
    BY <2>1, <2>3, CommitKeepsUpdates
  <2>4. CASE Erase(panelTask) /\ UNCHANGED story
    BY <2>1, <2>4, EraseKeepsUpdates
  <2>5. CASE (CloseClean(panelTask) \/ Fail(panelTask)) /\ story' = Replacing(disk')
    <3>1. story' = story
      <4>1. disk' = disk
        BY <2>5 DEF CloseClean, Fail
      <4>2. EditsIn(disk) \ EditsIn(disk') = {}
        BY <4>1
      <4>3. DOMAIN story = TempSessions /\ \E S : story \in [TempSessions -> S]
        BY DEF TempInv, Shaped
      <4>4. QED
        BY <2>5, <4>2, <4>3 DEF Replacing
    <3>2. CASE CloseClean(panelTask)
      BY <2>1, <3>1, <3>2, CloseCleanKeepsUpdates
    <3>3. CASE Fail(panelTask)
      <4>1. /\ UNCHANGED <<disk, session, registered, history, temp, story>>
            /\ call' = [call EXCEPT ![panelTask] = NoCall]
        BY <2>1, <3>1, <3>3 DEF Fail, Return
      <4>2. NoCall \in CallShape /\ NoCall.stage # "committed"
        BY DEF NoCall, CallShape
      <4>3. QED
        BY <4>1, <4>2, PanelSameData
    <3>4. QED
      BY <2>5, <3>2, <3>3
  <2>6. QED
    BY <2>2, <2>3, <2>4, <2>5
<1>5. CASE CloseWindow \/ Quit
  BY <1>1, <1>5 DEF CloseWindow, Quit
<1>6. QED
  BY <1>2, <1>3, <1>4, <1>5

-----------------------------------------------------------------------------
(* The updates.                                                            *)

\* A session before it is updated, and while it is.
LEMMA NotYetNumbered ==
  ASSUME TempInv, UpdatesInv, NEW s \in TempSessions, temp[s].stage \in {"starting", "updating"}
  PROVE  /\ story[s].edit = 0 /\ story[s].fate # "updated" /\ ~TakenForUpdate(s)
         /\ temp[s].stage = "starting" => call[s] = NoCall
         /\ call[s] # NoCall => /\ call[s] = Found("add", temp[s].token)
                                /\ temp[s].token \in DOMAIN session /\ temp[s].token # NoToken
<1>1. UpdateStage(s) /\ Calls /\ session \in Seq(RootType)
  BY DEF UpdatesInv, Roots
<1>2. NoToken \notin DOMAIN session
  BY <1>1 DEF NoToken
<1>3. QED
  BY <1>1, <1>2 DEF UpdateStage, Calls, TakenForUpdate

LEMMA StartKeepsUpdates ==
  ASSUME TempInv, UpdatesInv, NEW s \in TempSessions, StartUpdate(s)
  PROVE  UpdatesInv'
<1>1. PICK B : Shaped(B)
  BY DEF TempInv
<1>2. /\ temp[s] \in Temps(B) /\ DOMAIN temp = TempSessions
      /\ temp[s].stage = "starting" /\ story' = story
  BY <1>1 DEF Shaped, StartUpdate
<1>3. /\ story[s].edit = 0 /\ story[s].fate # "updated" /\ call[s] = NoCall
  BY <1>2, NotYetNumbered
<1>4. Roots /\ Calls /\ Numbers /\ OnlyTaken /\ s \in Threads
  BY TempAssumption DEF UpdatesInv
<1>5. PICK t : t = temp[s].token
  OBVIOUS
<1>6. CASE Begin(s, "add", t) /\ temp' = [temp EXCEPT ![s].stage = "updating"]
  <2>1. PICK n : n = [temp[s] EXCEPT !.stage = "updating"]
    OBVIOUS
  <2>2. n.stage = "updating" /\ n.token = t
    BY <1>2, <1>5, <2>1 DEF Temps
  <2>3. temp'[s] = n /\ \A u \in TempSessions \ {s} : temp'[u] = temp[u]
    BY <1>2, <1>6, <2>1
  <2>4. PICK c : c = Found("add", t)
    OBVIOUS
  <2>5. t \in registered /\ t \in DOMAIN session /\ t # NoToken
    <3>1. t \in registered /\ t \in DOMAIN session /\ session \in Seq(RootType)
      BY <1>4, <1>6 DEF Begin, Roots
    <3>2. QED
      BY <3>1 DEF NoToken
  <2>6. c \in CallShape /\ c.stage # "committed"
    BY <2>4, <2>5 DEF Found, CallShape
  <2>7. call' = [call EXCEPT ![s] = c]
    BY <1>6, <2>4 DEF Begin
  <2>8. UNCHANGED <<disk, session, registered, history>>
    BY <1>6 DEF Begin
  <2>9. \A u \in TempSessions \ {s} : SameUpdate(u)
    BY <1>2, <2>3 DEF SameUpdate
  <2>10. Calls'
    <3>1. via' \in [Edits -> DOMAIN session \cup {NoToken}] /\ DOMAIN session' = DOMAIN session
      BY <1>4, <2>8 DEF Calls, history
    <3>2. c = Found("add", temp'[s].token) /\ temp'[s].stage = "updating" /\ temp'[s].token \in DOMAIN session
      BY <2>2, <2>3, <2>4, <2>5
    <3>3. QED
      BY <1>4, <2>6, <2>7, <2>9, <3>1, <3>2, SessionCalls
  <2>11. \A x \in registered : Raced(x)' => Raced(x)
    <3>1. registered \subseteq registered'
      BY <2>8
    <3>2. QED
      BY <1>4, <2>6, <2>7, <3>1, RacedStays
  <2>12. UpdateStage(s)' /\ ~TakenForUpdate(s)'
    BY <1>2, <1>3, <2>2, <2>3, <2>5 DEF UpdateStage, TakenForUpdate
  <2>13. QED
    BY <1>2, <2>8, <2>9, <2>10, <2>11, <2>12, SameData
<1>7. CASE temp' = [temp EXCEPT ![s].stage = "failed"] /\ UNCHANGED registry
  <2>1. PICK n : n = [temp[s] EXCEPT !.stage = "failed"]
    OBVIOUS
  <2>2. n.stage = "failed" /\ temp' = [temp EXCEPT ![s] = n]
    BY <1>2, <1>7, <2>1 DEF Temps
  <2>3. Quiet(s)
    BY <1>2, <2>2, OneTempIsQuiet
  <2>4. QED
    BY <1>7, <2>3, QuietKeepsUpdates
<1>8. CASE /\ t = NoToken /\ UNCHANGED registry
           /\ temp' = [temp EXCEPT ![s].stage = "updating", ![s].base = disk]
  <2>1. PICK n : n = [temp[s] EXCEPT !.stage = "updating", !.base = disk]
    OBVIOUS
  <2>2. n.stage = "updating" /\ n.base = disk
    BY <1>2, <2>1 DEF Temps
  <2>3. temp'[s] = n /\ \A u \in TempSessions \ {s} : temp'[u] = temp[u]
    BY <1>2, <1>8, <2>1
  <2>4. UNCHANGED <<disk, session, registered, history>> /\ call' = call /\ via' = via
    BY <1>8 DEF registry, history
  <2>5. \A u \in TempSessions \ {s} : SameUpdate(u)
    BY <1>2, <2>3 DEF SameUpdate
  <2>6. Calls'
    <3>1. call' = [call EXCEPT ![s] = NoCall] /\ NoCall \in CallShape
      BY <1>3, <1>4, <2>4 DEF Calls, CallShape
    <3>2. via' \in [Edits -> DOMAIN session \cup {NoToken}] /\ DOMAIN session' = DOMAIN session
      BY <1>4, <2>4 DEF Calls
    <3>3. QED
      BY <1>4, <2>5, <3>1, <3>2, SessionCalls
  <2>7. \A x \in registered : Raced(x)' => Raced(x)
    BY <2>4 DEF Raced
  <2>8. Taken' = Taken
    BY <1>2, <1>4, <2>4, NumbersStay
  <2>9. UpdateStage(s)' /\ ~TakenForUpdate(s)'
    BY <1>2, <1>3, <1>4, <2>2, <2>3, <2>8 DEF UpdateStage, TakenForUpdate, Roots, OnlyTaken
  <2>10. QED
    BY <1>2, <2>4, <2>5, <2>6, <2>7, <2>9, SameData
<1>9. QED
  BY <1>5, <1>6, <1>7, <1>8 DEF StartUpdate

\* An update that fails before it changes the archive.
LEMMA FailedUpdateKeepsUpdates ==
  ASSUME TempInv, UpdatesInv, NEW s \in TempSessions, temp[s].stage = "updating",
         UNCHANGED <<disk, session, registered, history, story>>, Return(s),
         temp' = [temp EXCEPT ![s].stage = "failed"]
  PROVE  UpdatesInv'
<1>1. PICK B : Shaped(B)
  BY DEF TempInv
<1>2. temp[s] \in Temps(B) /\ DOMAIN temp = TempSessions
  BY <1>1 DEF Shaped
<1>3. story[s].edit = 0 /\ story[s].fate # "updated"
  BY NotYetNumbered
<1>4. Calls /\ s \in Threads
  BY TempAssumption DEF UpdatesInv
<1>5. temp'[s].stage = "failed" /\ \A u \in TempSessions \ {s} : temp'[u] = temp[u]
  BY <1>2
<1>6. \A u \in TempSessions \ {s} : SameUpdate(u)
  BY <1>5 DEF SameUpdate
<1>7. call' = [call EXCEPT ![s] = NoCall] /\ NoCall \in CallShape /\ NoCall.stage # "committed"
  BY DEF Return, CallShape, NoCall
<1>8. Calls'
  <2>1. via' \in [Edits -> DOMAIN session \cup {NoToken}] /\ DOMAIN session' = DOMAIN session
    BY <1>4 DEF Calls, history
  <2>2. QED
    BY <1>4, <1>6, <1>7, <2>1, SessionCalls
<1>9. \A x \in registered : Raced(x)' => Raced(x)
  BY <1>4, <1>7, RacedStays
<1>10. UpdateStage(s)' /\ ~TakenForUpdate(s)'
  BY <1>3, <1>5 DEF UpdateStage, TakenForUpdate
<1>11. QED
  BY <1>6, <1>8, <1>9, <1>10, SameData

LEMMA UpdatedKeepsUpdates ==
  ASSUME TempInv, UpdatesInv, NEW s \in TempSessions, Updated(s)
  PROVE  UpdatesInv'
<1>1. PICK B : Shaped(B)
  BY DEF TempInv
<1>2. /\ temp[s] \in Temps(B) /\ story[s] \in Stories(B)
      /\ DOMAIN temp = TempSessions /\ DOMAIN story = TempSessions
      /\ temp[s].stage \in {"updated", "failed"}
  BY <1>1 DEF Shaped, Updated
<1>3. Calls /\ UpdateStage(s) /\ s \in Threads
  BY TempAssumption DEF UpdatesInv
<1>4. PICK x, t, r : /\ x = Released(temp[s]) /\ t = [x EXCEPT !.refs = @ \ {"chain"}]
                     /\ r = [story[s] EXCEPT !.fate = temp[s].stage]
  OBVIOUS
<1>5. temp' = [temp EXCEPT ![s] = t] /\ story' = [story EXCEPT ![s] = r]
  <2>1. temp' = [temp EXCEPT ![s] = [Released(temp[s]) EXCEPT !.refs = @ \ {"chain"}]]
    BY DEF Updated
  <2>2. story' = [story EXCEPT ![s].fate = temp[s].stage]
    BY DEF Updated
  <2>3. QED
    BY <1>2, <1>4, <2>1, <2>2
<1>6. t.stage = "over"
  BY <1>2, <1>4 DEF Released, Handled, Temps
<1>7. r.edit = story[s].edit /\ r.replaced = story[s].replaced /\ r.fate = temp[s].stage
  BY <1>2, <1>4 DEF Stories
<1>8. /\ temp'[s] = t /\ story'[s] = r
      /\ \A u \in TempSessions \ {s} : temp'[u] = temp[u] /\ story'[u] = story[u]
  BY <1>2, <1>5
<1>9. \A u \in TempSessions \ {s} : SameUpdate(u)
  BY <1>8 DEF SameUpdate
<1>10. UNCHANGED <<disk, session, registered, history>> /\ call' = call /\ via' = via
  BY DEF Updated, registry, history
<1>11. Calls'
  <2>1. call[s] = NoCall
    BY <1>2, <1>3 DEF Calls
  <2>2. call' = [call EXCEPT ![s] = NoCall] /\ NoCall \in CallShape
    BY <1>3, <1>10, <2>1 DEF Calls, CallShape
  <2>3. via' \in [Edits -> DOMAIN session \cup {NoToken}] /\ DOMAIN session' = DOMAIN session
    BY <1>3, <1>10 DEF Calls
  <2>4. QED
    BY <1>3, <1>9, <2>2, <2>3, SessionCalls
<1>12. \A y \in registered : Raced(y)' => Raced(y)
  BY <1>10 DEF Raced
<1>13. UpdateStage(s)'
  BY <1>6, <1>8 DEF UpdateStage
<1>14. TakenForUpdate(s)' => TakenForUpdate(s)
  BY <1>6, <1>7, <1>8 DEF TakenForUpdate
<1>15. story'[s].edit = story[s].edit /\ story'[s].replaced = story[s].replaced
  BY <1>7, <1>8
<1>16. QED
  BY <1>9, <1>10, <1>11, <1>12, <1>13, <1>14, <1>15, SameData

\* An update by a session of the registry: it is numbered, and it is in the file
\* of the session that will commit it, or it met the session's close.
LEMMA AddKeepsUpdates ==
  ASSUME TempInv, UpdatesInv, NEW s \in TempSessions, temp[s].stage = "updating", Add(s),
         temp' = [temp EXCEPT ![s].stage = Outcome(acked' # acked)],
         story' = Told(s, CHOOSE e \in Edits : via'[e] # via[e])
  PROVE  UpdatesInv'
<1>1. PICK B : Shaped(B)
  BY DEF TempInv
<1>2. /\ temp[s] \in Temps(B) /\ story[s] \in Stories(B)
      /\ DOMAIN temp = TempSessions /\ DOMAIN story = TempSessions
  BY <1>1 DEF Shaped
<1>3. Roots /\ Calls /\ Numbers /\ OnlyTaken /\ s \in Threads /\ session \in Seq(RootType)
  BY TempAssumption DEF UpdatesInv, Roots
<1>4. PICK t : t = call[s].token
  OBVIOUS
<1>5. /\ story[s].edit = 0 /\ story[s].fate # "updated"
      /\ t \in DOMAIN session /\ t # NoToken
  <2>1. call[s] # NoCall
    BY DEF Add, Doing, NoCall
  <2>2. call[s] = Found("add", temp[s].token)
    BY <2>1, NotYetNumbered
  <2>3. t = temp[s].token
    BY <1>4, <2>2 DEF Found
  <2>4. QED
    BY <2>1, <2>3, NotYetNumbered
<1>6. PICK e \in Edits :
        /\ NextEdit(e)
        /\ \E outcome \in WriteOutcomes(t, WithEdit(Material(t), session[t].level, e)) :
             Written(s, t, e, outcome) /\ acked' = IF outcome.ok THEN acked \cup {e} ELSE acked
        /\ excused' = excused \cup RacedEdits(t, WithEdit(Material(t), session[t].level, e))
  BY <1>4 DEF Add
<1>7. PICK outcome \in WriteOutcomes(t, WithEdit(Material(t), session[t].level, e)) :
        Written(s, t, e, outcome) /\ acked' = IF outcome.ok THEN acked \cup {e} ELSE acked
  BY <1>6
<1>8. PICK o, ok : o = outcome.session /\ ok = outcome.ok
  OBVIOUS
<1>9. /\ o \in RootType /\ (o.dirty => o.file # NoFile)
      /\ session[t].dirty => o.dirty /\ EditsIn(session[t].file) \subseteq EditsIn(o.file)
      /\ EditsIn(o.file) \subseteq EditsIn(session[t].file) \cup EditsIn(disk) \cup {e}
      /\ EditsIn(Material(t)) \subseteq EditsIn(session[t].file) \cup EditsIn(disk)
      /\ EditsIn(WithEdit(Material(t), session[t].level, e)) = EditsIn(Material(t)) \cup {e}
      /\ ok => o.dirty /\ e \in EditsIn(o.file)
  BY <1>3, <1>5, <1>8, RootWritten
<1>10. /\ disk' = disk /\ registered' = registered
       /\ session' = [session EXCEPT ![t] = o] /\ via' = [via EXCEPT ![e] = t]
       /\ call' = [call EXCEPT ![s] = NoCall]
  BY <1>7, <1>8 DEF Written, Return
<1>11. /\ session' \in Seq(RootType) /\ DOMAIN session' = DOMAIN session
       /\ session'[t] = o /\ \A x \in DOMAIN session \ {t} : session'[x] = session[x]
  BY <1>3, <1>5, <1>9, <1>10
<1>12. /\ via \in [Edits -> DOMAIN session \cup {NoToken}] /\ via[e] = NoToken /\ e \notin Made
       /\ via' \in [Edits -> DOMAIN session \cup {NoToken}]
       /\ via'[e] = t /\ \A x \in Edits \ {e} : via'[x] = via[x]
  BY <1>3, <1>5, <1>6, <1>10 DEF Calls, NextEdit, Made
<1>13. Made' = Made \cup {e}
  BY <1>5, <1>12 DEF Made
<1>14. PICK stage : stage = Outcome(acked' # acked)
  OBVIOUS
<1>15. stage \in {"updated", "failed"} /\ (stage = "updated" => ok)
  BY <1>7, <1>8, <1>14 DEF Outcome
<1>16. /\ temp'[s].stage = stage /\ \A u \in TempSessions \ {s} : temp'[u] = temp[u]
  BY <1>2, <1>14
<1>17. PICK made : made = (CHOOSE x \in Edits : via'[x] # via[x]) /\ story' = Told(s, made)
  OBVIOUS
<1>18. /\ story'[s].edit = e /\ story'[s].fate = story[s].fate
       /\ \A u \in TempSessions \ {s} : story'[u] = story[u]
  <2>1. PICK r : r = [story[s] EXCEPT !.edit = e, !.written = temp[s].file.data]
    OBVIOUS
  <2>2. r.edit = e /\ r.fate = story[s].fate
    BY <1>2, <2>1 DEF Stories
  <2>3. made = e
    BY <1>5, <1>12, <1>17
  <2>4. story' = [story EXCEPT ![s] = r]
    BY <1>2, <1>17, <2>1, <2>3 DEF Told
  <2>5. QED
    BY <1>2, <2>2, <2>4
<1>19. \A u \in TempSessions \ {s} : SameUpdate(u) /\ story'[u].edit = story[u].edit
  BY <1>16, <1>18 DEF SameUpdate
<1>20. Numbers' /\ e \notin Taken /\ Taken' = Taken \cup {e}
  BY <1>3, <1>5, <1>6, <1>13, <1>18, <1>19, SessionNumbers
<1>21. Roots'
  <2>1. \A x \in DOMAIN session' : session'[x].dirty => session'[x].file # NoFile
    BY <1>3, <1>9, <1>11 DEF Roots
  <2>2. disk' \in Archives /\ registered' \subseteq DOMAIN session'
    BY <1>3, <1>10, <1>11 DEF Roots
  <2>3. QED
    BY <1>11, <2>1, <2>2 DEF Roots
<1>22. Calls'
  <2>1. NoCall \in CallShape
    BY DEF CallShape
  <2>2. QED
    BY <1>3, <1>10, <1>11, <1>12, <1>19, <2>1, SessionCalls
<1>23. OnlyTaken'
  <2>1. EditsIn(disk') \subseteq Taken' /\ EditsIn(o.file) \subseteq Taken'
    BY <1>3, <1>5, <1>9, <1>10, <1>20 DEF OnlyTaken
  <2>2. \A x \in DOMAIN session' : EditsIn(session'[x].file) \subseteq Taken'
    BY <1>3, <1>11, <1>20, <2>1 DEF OnlyTaken
  <2>3. QED
    BY <2>1, <2>2 DEF OnlyTaken
<1>24. \A x \in registered : Raced(x)' => Raced(x)
  <2>1. NoCall.stage # "committed" /\ registered \subseteq registered'
    BY <1>10 DEF NoCall
  <2>2. QED
    BY <1>3, <1>10, <2>1, RacedStays
<1>25. ASSUME NEW u \in TempSessions \ {s}, Safe(u)
       PROVE  Safe(u)'
  <2>1. ASSUME NEW x \in registered, Carries(x, story[u].edit)
        PROVE  x \in registered' /\ Carries(x, story[u].edit)'
    <3>1. x \in DOMAIN session /\ story'[u].edit = story[u].edit
      BY <1>3, <1>19 DEF Roots
    <3>2. CASE x = t
      BY <1>9, <1>10, <1>11, <1>24, <2>1, <3>1, <3>2 DEF Carries
    <3>3. CASE x # t
      BY <1>10, <1>11, <1>24, <2>1, <3>1, <3>3 DEF Carries
    <3>4. QED
      BY <3>2, <3>3
  <2>2. QED
    BY <1>10, <1>19, <1>25, <2>1 DEF Safe
<1>26. UpdateStage(s)'
  BY <1>5, <1>15, <1>16, <1>18 DEF UpdateStage
<1>27. UpdateKept(s)'
  <2>1. SUFFICES ASSUME TakenForUpdate(s)'
                 PROVE  story'[s].edit \in excused' \/ Safe(s)'
    BY DEF UpdateKept
  <2>2. ok
    BY <1>5, <1>15, <1>16, <1>18, <2>1 DEF TakenForUpdate
  <2>3. CASE Raced(t)
    <3>1. e \notin EditsIn(Material(t))
      BY <1>3, <1>5, <1>9, <1>20 DEF OnlyTaken
    <3>2. e \in RacedEdits(t, WithEdit(Material(t), session[t].level, e))
      BY <1>9, <2>3, <3>1 DEF RacedEdits
    <3>3. QED
      BY <1>6, <1>18, <3>2
  <2>4. CASE ~Raced(t)
    <3>1. t \in registered /\ t \in registered'
      BY <1>10, <2>4 DEF Raced
    <3>2. ~Raced(t)'
      BY <1>24, <2>4, <3>1
    <3>3. Carries(t, story[s].edit)'
      BY <1>9, <1>11, <1>18, <2>2, <3>1, <3>2 DEF Carries
    <3>4. QED
      BY <3>1, <3>3 DEF Safe
  <2>5. QED
    BY <2>3, <2>4
<1>28. QED
  <2>1. Taken \subseteq Taken' /\ excused \subseteq excused'
    BY <1>6, <1>20
  <2>2. \A u \in TempSessions \ {s} : SameUpdate(u)
    BY <1>19
  <2>3. QED
    BY <1>20, <1>21, <1>22, <1>23, <1>25, <1>26, <1>27, <2>1, <2>2, OneUpdates

\* An update of the archive on disk.
LEMMA DiskKeepsUpdates ==
  ASSUME TempInv, UpdatesInv, NEW s \in TempSessions, UpdateDisk(s)
  PROVE  UpdatesInv'
<1>1. PICK B : Shaped(B)
  BY DEF TempInv
<1>2. /\ temp[s] \in Temps(B) /\ story \in [TempSessions -> Stories(B)]
      /\ DOMAIN temp = TempSessions /\ DOMAIN story = TempSessions
      /\ temp[s].stage = "updating" /\ temp[s].token = NoToken
  BY <1>1 DEF Shaped, UpdateDisk
<1>3. Roots /\ Calls /\ Numbers /\ OnlyTaken /\ UpdateStage(s)
  BY DEF UpdatesInv
<1>4. story[s].edit = 0 /\ story[s].fate # "updated" /\ call[s] = NoCall
  BY <1>2, NotYetNumbered
<1>5. /\ session' = session /\ registered' = registered /\ call' = call
      /\ via' = via /\ acked' = acked /\ excused' = excused
  BY DEF UpdateDisk, history
<1>6. \A x \in registered : Raced(x)' => Raced(x)
  BY <1>5 DEF Raced
<1>7. \A u \in TempSessions \ {s} : temp'[u] = temp[u]
  BY <1>2 DEF UpdateDisk
<1>8. ASSUME \A u \in TempSessions \ {s} : SameUpdate(u)
      PROVE  Calls'
  <2>1. call' = [call EXCEPT ![s] = NoCall] /\ NoCall \in CallShape
    BY <1>3, <1>4, <1>5, TempAssumption DEF Calls, CallShape
  <2>2. via' \in [Edits -> DOMAIN session \cup {NoToken}] /\ DOMAIN session' = DOMAIN session
    BY <1>3, <1>5 DEF Calls
  <2>3. QED
    BY <1>3, <1>8, <2>1, <2>2, SessionCalls
<1>9. CASE /\ \E e \in Edits :
                /\ NextDirect(e)
                /\ disk' = WithEdit(temp[s].base, 0, e)
                /\ story' = [Replacing(disk') EXCEPT ![s] = Told(s, e)[s]]
           /\ temp' = [temp EXCEPT ![s].stage = Outcome(TRUE)]
  <2>1. PICK e \in Edits :
                /\ NextDirect(e)
                /\ disk' = WithEdit(temp[s].base, 0, e)
                /\ story' = [Replacing(disk') EXCEPT ![s] = Told(s, e)[s]]
    BY <1>9
  <2>2. PICK new, told : new = disk' /\ told = Told(s, e)[s]
    OBVIOUS
  <2>3. /\ new \in Archives /\ EditsIn(new) \subseteq Taken \cup {e} /\ e \in EditsIn(new)
    <3>1. PICK base : base = temp[s].base
      OBVIOUS
    <3>2. base \in Archives /\ EditsIn(base) \subseteq Taken
      BY <1>2, <1>3, <3>1 DEF UpdateStage
    <3>3. new = WithEdit(base, 0, e)
      BY <2>1, <2>2, <3>1
    <3>4. QED
      BY <3>2, <3>3, EditAdded
  <2>4. told.edit = e /\ told.fate = story[s].fate
    <3>1. PICK r : r = [story[s] EXCEPT !.edit = e, !.written = temp[s].file.data]
      OBVIOUS
    <3>2. r.edit = e /\ r.fate = story[s].fate
      BY <1>2, <3>1 DEF Stories
    <3>3. Told(s, e)[s] = r
      BY <1>2, <3>1 DEF Told
    <3>4. QED
      BY <2>2, <3>2, <3>3
  <2>5. DOMAIN Replacing(new) = TempSessions
    BY DEF Replacing
  <2>6. /\ story'[s] = told
        /\ \A u \in TempSessions \ {s} : story'[u] = Replacing(new)[u]
    BY <2>1, <2>2, <2>5
  <2>7. \A u \in TempSessions \ {s} : SameUpdate(u) /\ story'[u].edit = story[u].edit
    <3>1. ASSUME NEW u \in TempSessions \ {s}
          PROVE  /\ story'[u].edit = story[u].edit /\ story'[u].fate = story[u].fate
                 /\ story[u].replaced => story'[u].replaced
      BY <2>6, ReplacingMarks
    <3>2. QED
      BY <1>7, <3>1 DEF SameUpdate
  <2>8. Made' = Made
    BY <1>5 DEF Made
  <2>9. Numbers' /\ Taken' = Taken \cup {e}
    BY <1>3, <1>4, <2>1, <2>4, <2>6, <2>7, <2>8, DirectNumbers
  <2>10. Roots' /\ OnlyTaken'
    BY <1>3, <1>5, <2>2, <2>3, <2>9 DEF Roots, OnlyTaken
  <2>11. ASSUME NEW u \in TempSessions \ {s}, Safe(u)
         PROVE  story'[u].replaced \/ Safe(u)'
    <3>1. CASE story[u].edit \in EditsIn(disk)
      <4>1. story'[u].replaced \/ story[u].edit \in EditsIn(new)
        BY <2>6, <3>1, ReplacingMarks
      <4>2. QED
        BY <2>2, <2>7, <4>1 DEF Safe
    <3>2. CASE \E x \in registered : Carries(x, story[u].edit)
      BY <1>5, <1>6, <2>7, <3>2 DEF Safe, Carries
    <3>3. QED
      BY <2>11, <3>1, <3>2 DEF Safe
  <2>12. temp'[s].stage = "updated"
    BY <1>2, <1>9 DEF Outcome
  <2>13. UpdateStage(s)'
    BY <1>4, <2>4, <2>6, <2>12 DEF UpdateStage
  <2>14. UpdateKept(s)'
    BY <2>2, <2>3, <2>4, <2>6 DEF UpdateKept, Safe
  <2>15. Taken \subseteq Taken' /\ excused \subseteq excused' /\ Calls'
    BY <1>5, <1>8, <2>7, <2>9
  <2>16. QED
    BY <2>7, <2>9, <2>10, <2>11, <2>13, <2>14, <2>15, OneUpdates
<1>10. CASE temp' = [temp EXCEPT ![s].stage = Outcome(FALSE)] /\ UNCHANGED <<disk, story>>
  <2>1. temp'[s].stage = "failed"
    BY <1>2, <1>10 DEF Outcome
  <2>2. \A u \in TempSessions \ {s} : SameUpdate(u)
    BY <1>7, <1>10 DEF SameUpdate
  <2>3. UpdateStage(s)' /\ ~TakenForUpdate(s)'
    BY <1>4, <1>10, <2>1 DEF UpdateStage, TakenForUpdate
  <2>4. UNCHANGED <<disk, session, registered, history>>
    BY <1>5, <1>10 DEF history
  <2>5. QED
    BY <1>6, <1>8, <1>10, <2>2, <2>3, <2>4, SameData
<1>11. QED
  BY <1>9, <1>10 DEF UpdateDisk

LEMMA UpdateKeepsUpdates ==
  ASSUME TempInv, UpdatesInv, NEW s \in TempSessions, Update(s)
  PROVE  UpdatesInv'
<1>1. temp[s].stage = "updating"
  BY DEF Update
<1>2. CASE /\ Add(s) /\ temp' = [temp EXCEPT ![s].stage = Outcome(acked' # acked)]
           /\ story' = Told(s, CHOOSE e \in Edits : via'[e] # via[e])
  BY <1>1, <1>2, AddKeepsUpdates
<1>3. CASE /\ Return(s) /\ UNCHANGED <<disk, session, registered, history, story>>
           /\ temp' = [temp EXCEPT ![s].stage = "failed"]
  BY <1>1, <1>3, FailedUpdateKeepsUpdates
<1>4. QED
  BY <1>2, <1>3 DEF Update, Fail

LEMMA StepKeepsUpdates ==
  ASSUME TempInv, UpdatesInv, [TempNext]_allVars
  PROVE  UpdatesInv'
<1>1. CASE UNCHANGED allVars
  <2>1. UNCHANGED <<disk, session, registered, call, via, excused, temp, story>>
    BY <1>1 DEF allVars, registry, history
  <2>2. /\ Roots' /\ Calls' /\ Numbers' /\ OnlyTaken' /\ Taken \subseteq Taken'
        /\ excused \subseteq excused'
    <3>1. Roots' /\ Calls'
      BY <2>1 DEF UpdatesInv, Roots, Calls, CallShape
    <3>2. \A u \in TempSessions : story'[u].edit = story[u].edit
      BY <2>1
    <3>3. Numbers' /\ Taken' = Taken
      BY <2>1, <3>2, NumbersStay DEF UpdatesInv
    <3>4. QED
      BY <2>1, <3>1, <3>3 DEF UpdatesInv, OnlyTaken
  <2>3. \A u \in TempSessions : SameUpdate(u) /\ (Safe(u) => Safe(u)')
    BY <2>1 DEF SameUpdate, Safe, Carries, Raced
  <2>4. QED
    BY <2>2, <2>3, NoneUpdates
<1>2. CASE Enter \/ Leave \/ CloseStep \/ CloseWindow \/ DispatchClose \/ Quit
  BY <1>2, PanelKeepsUpdates
<1>3. CASE Answer
  BY <1>3, AnswersAreQuiet, QuietKeepsUpdates
<1>4. ASSUME NEW s \in TempSessions, Starts(s) \/ Programs(s) \/ Handlers(s) \/ Finalize(s)
      PROVE  UpdatesInv'
  <2>1. CASE Starts(s) \/ Programs(s) \/ DeleteProcess(s)
    BY <2>1, ProgramsAreQuiet, QuietKeepsUpdates
  <2>2. CASE Notice(s) \/ Finalize(s)
    BY <2>2, NoticesAreQuiet, QuietKeepsUpdates
  <2>3. CASE StartUpdate(s) \/ Update(s) \/ UpdateDisk(s) \/ Updated(s)
    BY <2>3, StartKeepsUpdates, UpdateKeepsUpdates, DiskKeepsUpdates, UpdatedKeepsUpdates
  <2>4. QED
    BY <1>4, <2>1, <2>2, <2>3 DEF Handlers
<1>5. QED
  BY <1>1, <1>2, <1>3, <1>4 DEF TempNext

LEMMA InitUpdates ==
  ASSUME TempInit
  PROVE  UpdatesInv
<1>1. /\ disk = [l \in Levels |-> {}] /\ session = <<>> /\ registered = {}
      /\ call = [w \in Threads |-> NoCall] /\ via = [e \in Edits |-> NoToken]
      /\ temp = [s \in TempSessions |-> NoTemp] /\ story = [s \in TempSessions |-> NoStory]
  BY DEF TempInit, Init, NoEdits
<1>2. /\ NoTemp.stage = "none" /\ NoStory.edit = 0 /\ NoStory.fate = "none"
  BY DEF NoTemp, NoStory
<1>3. EditsIn(disk) = {}
  BY <1>1 DEF EditsIn
<1>4. Roots
  <2>1. disk \in Archives
    <3>1. Depth - 1 \in Levels
      BY BoundsAssumption DEF Levels
    <3>2. disk \in [0..(Depth - 1) -> SUBSET Edits]
      BY <1>1 DEF Levels
    <3>3. QED
      BY <3>1, <3>2 DEF Archives
  <2>2. session \in Seq(RootType) /\ DOMAIN session = {}
    BY <1>1
  <2>3. QED
    BY <1>1, <2>1, <2>2 DEF Roots
<1>5. Calls
  <2>1. \A s \in TempSessions : call[s] = NoCall
    BY <1>1, TempAssumption
  <2>2. call[panelTask] = NoCall /\ call \in [Threads -> CallShape]
    BY <1>1, TempAssumption DEF CallShape
  <2>3. via \in [Edits -> DOMAIN session \cup {NoToken}]
    BY <1>1
  <2>4. QED
    BY <2>1, <2>2, <2>3 DEF Calls
<1>6. Made = {} /\ Numbered = {}
  BY <1>1, <1>2 DEF Made, Numbered
<1>7. Taken = {}
  BY <1>6 DEF Taken
<1>8. Numbers
  <2>1. MaxEdits \in Nat /\ Cardinality(Numbered) = 0
    BY <1>6, BoundsAssumption, FS_EmptySet
  <2>2. 0 \in 0..MaxEdits /\ 0 + 0 <= Cardinality(Numbered)
    BY <2>1
  <2>3. 1..0 = {} /\ (MaxEdits - 0 + 1)..MaxEdits = {}
    BY <2>1
  <2>4. \A s \in TempSessions : story[s].edit \in Edits \cup {0}
    BY <1>1, <1>2
  <2>5. QED
    BY <1>6, <1>7, <2>2, <2>3, <2>4 DEF Numbers
<1>9. OnlyTaken
  <2>1. DOMAIN session = {}
    BY <1>1
  <2>2. QED
    BY <1>3, <2>1 DEF OnlyTaken
<1>10. \A s \in TempSessions : UpdateStage(s) /\ UpdateKept(s)
  BY <1>1, <1>2 DEF UpdateStage, UpdateKept, TakenForUpdate
<1>11. QED
  BY <1>4, <1>5, <1>8, <1>9, <1>10 DEF UpdatesInv

LEMMA UpdatesInvariant == TempSpec => []UpdatesInv
<1>1. TempInit => UpdatesInv
  BY InitUpdates
<1>2. TempInv /\ UpdatesInv /\ [TempNext]_allVars => UpdatesInv'
  BY StepKeepsUpdates
<1>3. QED
  BY <1>1, <1>2, Invariant, PTL DEF TempSpec

\* An update that the user is not told has failed is in the archive, or in a session
\* that is open and will commit it (on_single_update_finished, commit_session): for
\* any number of temporary sessions, of sessions of the registry and of edits, and
\* whatever fails.  Not so if it met the close of its session, or if someone who had
\* read the archive before replaced it.
THEOREM UpdatesAreKept == TempSpec => []UpdatesKept
<1>1. ASSUME UpdatesInv
      PROVE  UpdatesKept
  BY <1>1 DEF UpdatesInv, UpdateKept, TakenForUpdate, Safe, Carries, UpdatesKept
<1>2. QED
  BY <1>1, UpdatesInvariant, PTL
===============================================================================
