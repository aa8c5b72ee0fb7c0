------------------------- MODULE ArchivePanels_proofs -------------------------
(***************************************************************************)
(* The registry of open archives, and the panels that use it, for any      *)
(* number of threads, levels, sessions and edits.  Of the registry: its    *)
(* states have the declared types, a session with something to commit has  *)
(* a file to commit, and no acknowledged edit is lost.  Of the panels:     *)
(* every step of theirs is a step of the registry or leaves it alone, so   *)
(* all that holds beneath them too; and they hold what they opened: what   *)
(* is open is in a panel, inside something open, and no panel closes what  *)
(* the other one needs.                                                    *)
(***************************************************************************)
EXTENDS ArchivePanels, TLAPS

\* The data of an archive of level l: that level, and those nested in it.
IsContent(c, l) ==
  \E m \in Levels : l \in Levels /\ l <= m /\ c \in [l..m -> SUBSET Edits]

\* What holds of a session whatever the others do.
Sound(s) ==
  /\ s \in SessionType
  /\ IsContent(s.view, s.level)
  /\ s.file # NoFile => IsContent(s.file, s.level)
  /\ s.dirty => s.file # NoFile

\* A nested session is one level below its parent.
Placed(s, t) ==
  IF s[t].parent = NoToken THEN s[t].level = 0
  ELSE s[t].parent \in DOMAIN s /\ s[t].level = s[s[t].parent].level + 1

SessionsSound ==
  /\ session \in Seq(SessionType) /\ Len(session) <= MaxTokens
  /\ \A t \in DOMAIN session : Sound(session[t]) /\ Placed(session, t)

\* The calls that are under way, and the history.
CallsOK ==
  /\ registered \subseteq DOMAIN session
  /\ call \in [Threads -> CallType \cup {NoCall}]
  /\ \A w \in Threads : call[w].token \in DOMAIN session \cup {NoToken}
  /\ faults \in 0..MaxFaults
  /\ via \in [Edits -> DOMAIN session \cup {NoToken}]
  /\ acked \subseteq Edits /\ excused \subseteq Edits

IInv == IsContent(disk, 0) /\ SessionsSound /\ CallsOK

-----------------------------------------------------------------------------
(* Contents.                                                               *)

LEMMA ContentIsTyped ==
  ASSUME NEW c, NEW l, IsContent(c, l)
  PROVE  c \in Contents /\ c # NoFile /\ l \in DOMAIN c /\ l \in Levels
<1>1. PICK m \in Levels : l \in Levels /\ l <= m /\ c \in [l..m -> SUBSET Edits]
  BY DEF IsContent
<1>2. l \in l..m
  BY <1>1, BoundsAssumption DEF Levels
<1>3. c \in Contents
  <2> DEFINE functions == [l..m -> SUBSET Edits]
  <2>1. functions \in {[i..j -> SUBSET Edits] : i \in Levels, j \in Levels}
    BY <1>1
  <2>2. c \in functions
    BY <1>1
  <2> HIDE DEF functions
  <2>3. QED
    BY <2>1, <2>2 DEF Contents
<1>4. DOMAIN c = l..m /\ DOMAIN NoFile = {}
  BY <1>1 DEF NoFile
<1>5. QED
  BY <1>1, <1>2, <1>3, <1>4

LEMMA InnerContent ==
  ASSUME NEW c, NEW k, NEW l, IsContent(c, k), l \in DOMAIN c
  PROVE  IsContent(Inner(c, l), l)
<1>1. PICK m \in Levels : k \in Levels /\ k <= m /\ c \in [k..m -> SUBSET Edits]
  BY DEF IsContent
<1>2. l \in Levels /\ k <= l /\ l <= m
  BY <1>1, BoundsAssumption DEF Levels
<1>3. {i \in DOMAIN c : i >= l} = l..m
  BY <1>1, <1>2, BoundsAssumption DEF Levels
<1>4. l..m \subseteq k..m
  BY <1>1, <1>2, BoundsAssumption DEF Levels
<1>5. Inner(c, l) \in [l..m -> SUBSET Edits]
  BY <1>1, <1>3, <1>4 DEF Inner
<1>6. QED
  BY <1>2, <1>5 DEF IsContent

LEMMA WithInnerContent ==
  ASSUME NEW c, NEW k, NEW inner, IsContent(c, k), IsContent(inner, k + 1)
  PROVE  IsContent(WithInner(c, inner, k + 1), k)
<1>1. PICK m \in Levels : k \in Levels /\ k <= m /\ c \in [k..m -> SUBSET Edits]
  BY DEF IsContent
<1>2. PICK n \in Levels : k + 1 <= n /\ inner \in [k + 1..n -> SUBSET Edits]
  BY DEF IsContent
<1>3. {i \in DOMAIN c : i < k + 1} = {k}
  BY <1>1, BoundsAssumption DEF Levels
<1>4. {k} \cup DOMAIN inner = k..n
  BY <1>1, <1>2, BoundsAssumption DEF Levels
<1>5. \A i \in k..n : IF i < k + 1 THEN i \in k..m ELSE i \in k + 1..n
  BY <1>1, <1>2, BoundsAssumption DEF Levels
<1>6. WithInner(c, inner, k + 1) = [i \in k..n |-> IF i < k + 1 THEN c[i] ELSE inner[i]]
  BY <1>3, <1>4 DEF WithInner
<1>7. WithInner(c, inner, k + 1) \in [k..n -> SUBSET Edits]
  BY <1>1, <1>2, <1>5, <1>6
<1>8. k <= n
  BY <1>1, <1>2, BoundsAssumption DEF Levels
<1>9. QED
  BY <1>1, <1>7, <1>8 DEF IsContent

LEMMA WithEditContent ==
  ASSUME NEW c, NEW l, NEW e \in Edits, IsContent(c, l)
  PROVE  IsContent(WithEdit(c, l, e), l)
<1>1. PICK m \in Levels : l \in Levels /\ l <= m /\ c \in [l..m -> SUBSET Edits]
  BY DEF IsContent
<1>2. l \in l..m
  BY <1>1, BoundsAssumption DEF Levels
<1>3. WithEdit(c, l, e) \in [l..m -> SUBSET Edits]
  BY <1>1, <1>2 DEF WithEdit
<1>4. QED
  BY <1>1, <1>3 DEF IsContent

LEMMA WithoutInnerContent ==
  ASSUME NEW c, NEW l, IsContent(c, l)
  PROVE  IsContent(WithoutInner(c, l), l)
<1>1. PICK m \in Levels : l \in Levels /\ l <= m /\ c \in [l..m -> SUBSET Edits]
  BY DEF IsContent
<1>2. l \in l..m /\ l..l = {l}
  BY <1>1, BoundsAssumption DEF Levels
<1>3. WithoutInner(c, l) \in [l..l -> SUBSET Edits]
  BY <1>1, <1>2 DEF WithoutInner
<1>4. l <= l
  BY <1>1, BoundsAssumption DEF Levels
<1>5. QED
  BY <1>1, <1>3, <1>4 DEF IsContent

-----------------------------------------------------------------------------
(* Sessions.                                                               *)

LEMMA SessionIsSound ==
  ASSUME SessionsSound, NEW t \in DOMAIN session
  PROVE  /\ Sound(session[t]) /\ Placed(session, t)
         /\ session[t].level \in Levels /\ t \in Tokens /\ t # NoToken
<1>1. Sound(session[t]) /\ Placed(session, t)
  BY DEF SessionsSound
<1>2. session[t].level \in Levels
  BY <1>1 DEF Sound, SessionType
<1>3. DOMAIN session = 1..Len(session) /\ Len(session) \in Nat
  BY DEF SessionsSound
<1>4. QED
  BY <1>1, <1>2, <1>3, BoundsAssumption DEF SessionsSound, Tokens, NoToken

\* What a session is materialised from is an archive of its level.
LEMMA MaterialContent ==
  ASSUME IsContent(disk, 0), SessionsSound, NEW t \in DOMAIN session, CanMaterialize(t)
  PROVE  IsContent(Material(t), session[t].level)
<1> DEFINE p == session[t].parent
<1>1. Sound(session[t]) /\ Placed(session, t)
  BY SessionIsSound
<1>2. CASE session[t].file # NoFile
  BY <1>1, <1>2 DEF Sound, Material
<1>3. CASE session[t].file = NoFile /\ session[t].buffered
  BY <1>1, <1>3 DEF Sound, Material
<1>4. CASE session[t].file = NoFile /\ ~session[t].buffered /\ Nested(t)
  <2>1. p \in DOMAIN session
    BY <1>1, <1>4 DEF Placed, Nested
  <2>2. IsContent(session[p].view, session[p].level)
    BY <2>1, SessionIsSound DEF Sound
  <2>3. session[t].level \in DOMAIN session[p].view
    BY <1>4 DEF CanMaterialize
  <2>4. IsContent(Inner(session[p].view, session[t].level), session[t].level)
    BY <2>2, <2>3, InnerContent
  <2>5. QED
    BY <1>4, <2>4 DEF Material
<1>5. CASE session[t].file = NoFile /\ ~session[t].buffered /\ ~Nested(t)
  <2>1. session[t].level = 0
    BY <1>1, <1>5 DEF Placed, Nested
  <2>2. Material(t) = disk
    BY <1>5 DEF Material
  <2>3. QED
    BY <2>1, <2>2
<1>6. QED
  BY <1>2, <1>3, <1>4, <1>5

\* Wherever a write ends, the session is sound and where it was.
LEMMA WrittenIsSound ==
  ASSUME IsContent(disk, 0), SessionsSound, NEW t \in DOMAIN session, CanMaterialize(t),
         NEW new, IsContent(new, session[t].level), NEW outcome \in WriteOutcomes(t, new)
  PROVE  /\ Sound(outcome.session) /\ outcome.ok \in BOOLEAN
         /\ outcome.session.level = session[t].level
         /\ outcome.session.parent = session[t].parent
         /\ faults \in 0..MaxFaults /\ Counted(outcome) => faults' \in 0..MaxFaults
<1> DEFINE l == session[t].level
           s == session[t]
<1>1. Sound(s) /\ s \in SessionType
  BY SessionIsSound DEF Sound
<1>2. IsContent(Material(t), l)
  BY MaterialContent
<1>3. \A c : IsContent(c, l) => c \in Contents /\ c # NoFile
  BY ContentIsTyped
<1>4. ASSUME NEW r \in SessionType, r.level = l, r.parent = s.parent,
             NEW c, IsContent(c, l)
      PROVE  /\ Sound(Reopened(r, c))
             /\ Reopened(r, c).level = l /\ Reopened(r, c).parent = s.parent
  <2> DEFINE a == [r EXCEPT !.view = c]
             b == [a EXCEPT !.file = c]
             d == [b EXCEPT !.buffered = FALSE]
  <2>1. c \in Contents /\ c # NoFile
    BY <1>3, <1>4
  <2>2. a \in SessionType /\ a = [r EXCEPT !.view = c]
    BY <2>1 DEF SessionType
  <2>3. b \in SessionType /\ b = [a EXCEPT !.file = c]
    BY <2>1, <2>2 DEF SessionType
  <2>4. d \in SessionType /\ d = [b EXCEPT !.buffered = FALSE]
    BY <2>3 DEF SessionType
  <2>5. Reopened(r, c) = d
    BY DEF Reopened
  <2>6. d.view = c /\ d.file = c /\ d.level = l /\ d.parent = s.parent
    BY <1>4 DEF SessionType
  <2> HIDE DEF d
  <2>7. QED
    BY <1>4, <2>1, <2>4, <2>5, <2>6 DEF Sound
<1>5. /\ Sound(Materialized(t)) /\ Materialized(t) \in SessionType
      /\ Materialized(t).level = l /\ Materialized(t).parent = s.parent
  BY <1>1, <1>2, <1>4 DEF Materialized, Sound
<1>6. /\ Sound(Unrefreshed(t, new)) /\ Unrefreshed(t, new) \in SessionType
      /\ Unrefreshed(t, new).level = l /\ Unrefreshed(t, new).parent = s.parent
  <2> DEFINE r == Materialized(t)
             a == [r EXCEPT !.file = new]
             b == [a EXCEPT !.dirty = TRUE]
  <2>1. new \in Contents /\ new # NoFile
    BY <1>3
  <2>2. r \in SessionType /\ r.level = l /\ r.parent = s.parent /\ IsContent(r.view, l)
    BY <1>5 DEF Sound
  <2> HIDE DEF r
  <2>3. a \in SessionType
    BY <2>1, <2>2 DEF SessionType
  <2>4. b \in SessionType
    BY <2>3 DEF SessionType
  <2>5. /\ b.view = r.view /\ b.file = new
        /\ b.level = l /\ b.parent = s.parent
    BY <2>2 DEF SessionType
  <2>6. Unrefreshed(t, new) = b
    BY DEF Unrefreshed, r
  <2> HIDE DEF b
  <2>7. QED
    BY <2>1, <2>2, <2>4, <2>5, <2>6 DEF Sound
<1>7. /\ Sound(Reopened(Unrefreshed(t, new), new))
      /\ Reopened(Unrefreshed(t, new), new).level = l
      /\ Reopened(Unrefreshed(t, new), new).parent = s.parent
  BY <1>4, <1>6
<1>8. /\ outcome \in {[session |-> Materialized(t), ok |-> FALSE],
                      [session |-> Unrefreshed(t, new), ok |-> FALSE],
                      [session |-> Reopened(Unrefreshed(t, new), new), ok |-> TRUE]}
      /\ ~outcome.ok => faults < MaxFaults
  BY DEF WriteOutcomes
<1>9. faults \in 0..MaxFaults /\ Counted(outcome) => faults' \in 0..MaxFaults
  BY <1>8, BoundsAssumption DEF Counted
<1>10. outcome.ok \in BOOLEAN /\ outcome.session \in
          {Materialized(t), Unrefreshed(t, new), Reopened(Unrefreshed(t, new), new)}
  <2>1. CASE outcome = [session |-> Materialized(t), ok |-> FALSE]
    BY <2>1
  <2>2. CASE outcome = [session |-> Unrefreshed(t, new), ok |-> FALSE]
    BY <2>2
  <2>3. CASE outcome = [session |-> Reopened(Unrefreshed(t, new), new), ok |-> TRUE]
    BY <2>3
  <2>4. QED
    BY <1>8, <2>1, <2>2, <2>3
<1>11. QED
  BY <1>5, <1>6, <1>7, <1>9, <1>10

\* A session may be replaced by a sound one at the same place.
LEMMA ReplacedIsSound ==
  ASSUME SessionsSound, NEW t \in DOMAIN session, NEW s, Sound(s),
         s.level = session[t].level, s.parent = session[t].parent,
         session' = [session EXCEPT ![t] = s]
  PROVE  SessionsSound' /\ DOMAIN session' = DOMAIN session /\ Len(session') = Len(session)
<1>1. s \in SessionType
  BY DEF Sound
<1>2. session' \in Seq(SessionType) /\ Len(session') = Len(session) /\ DOMAIN session' = DOMAIN session
  BY <1>1 DEF SessionsSound
<1>3. \A u \in DOMAIN session : /\ session'[u].level = session[u].level
                                /\ session'[u].parent = session[u].parent
  OBVIOUS
<1>4. \A u \in DOMAIN session : Sound(session'[u])
  BY DEF SessionsSound
<1>5. \A u \in DOMAIN session : Placed(session', u)
  BY <1>2, <1>3 DEF SessionsSound, Placed
<1>6. QED
  BY <1>2, <1>4, <1>5 DEF SessionsSound

-----------------------------------------------------------------------------
(* The steps.                                                              *)

\* A call that is under way is on a session.
LEMMA CallHasSession ==
  ASSUME IInv, NEW w \in Threads, call[w] # NoCall
  PROVE  call[w] \in CallType /\ call[w].token \in DOMAIN session
<1>1. call[w] \in CallType
  BY DEF IInv, CallsOK
<1>2. call[w].token \in Tokens /\ NoToken \notin Tokens
  BY <1>1, BoundsAssumption DEF CallType, Tokens, NoToken
<1>3. QED
  BY <1>1, <1>2 DEF IInv, CallsOK

\* The sessions stay as many as they are, and the rest is typed: the calls are too.
LEMMA CallsKept ==
  ASSUME CallsOK, NEW w \in Threads, DOMAIN session' = DOMAIN session,
         registered' \subseteq registered,
         \/ Return(w)
         \/ Committed(w) /\ call[w] \in CallType
         \/ UNCHANGED call,
         faults' \in 0..MaxFaults, via' \in [Edits -> DOMAIN session \cup {NoToken}],
         acked' \subseteq Edits, excused' \subseteq Edits
  PROVE  CallsOK'
<1>1. NoCall.token = NoToken
  BY DEF NoCall
<1>2. CASE Return(w)
  BY <1>1, <1>2 DEF Return, CallsOK
<1>3. CASE Committed(w) /\ call[w] \in CallType
  <2>1. [call[w] EXCEPT !.stage = "committed"] \in CallType
    BY <1>3 DEF CallType
  <2>2. [call[w] EXCEPT !.stage = "committed"].token = call[w].token
    BY <1>3 DEF CallType
  <2>3. call' = [call EXCEPT ![w] = [call[w] EXCEPT !.stage = "committed"]]
    BY <1>3 DEF Committed
  <2> HIDE DEF CallType
  <2>4. QED
    BY <2>1, <2>2, <2>3 DEF CallsOK
<1>4. CASE UNCHANGED call
  BY <1>4 DEF CallsOK
<1>5. QED
  BY <1>2, <1>3, <1>4

\* A new session at its place is registered.
LEMMA RegisteredIsSound ==
  ASSUME IInv, NEW w \in Threads, NEW new, Sound(new), Len(session) < MaxTokens,
         IF new.parent = NoToken THEN new.level = 0
         ELSE new.parent \in DOMAIN session /\ new.level = session[new.parent].level + 1,
         Register(w, new), UNCHANGED <<disk, faults, history>>
  PROVE  IInv'
<1> DEFINE n == Len(session) + 1
<1>1. session \in Seq(SessionType) /\ new \in SessionType
  BY DEF IInv, SessionsSound, Sound
<1>2. /\ session' \in Seq(SessionType) /\ Len(session') = n
      /\ DOMAIN session' = DOMAIN session \cup {n}
      /\ \A t \in DOMAIN session : session'[t] = session[t]
      /\ session'[n] = new /\ n \notin DOMAIN session
  BY <1>1 DEF Register
<1>3. n <= MaxTokens
  BY <1>1, BoundsAssumption
<1>4. \A t \in DOMAIN session : Sound(session'[t])
  BY <1>2 DEF IInv, SessionsSound
<1>5. \A t \in DOMAIN session : Placed(session', t)
  BY <1>2 DEF IInv, SessionsSound, Placed
<1>6. Placed(session', n)
  BY <1>2 DEF Placed
<1>7. SessionsSound'
  BY <1>2, <1>3, <1>4, <1>5, <1>6 DEF SessionsSound
<1>8. NoCall.token = NoToken
  BY DEF NoCall
<1>9. CallsOK'
  BY <1>2, <1>8 DEF IInv, CallsOK, Register, Return, history
<1>10. QED
  BY <1>7, <1>9 DEF IInv

\* A session opens from data of its level, with a private file or without.
LEMMA OpenedIsSound ==
  ASSUME NEW l, NEW p \in Tokens \cup {NoToken}, NEW view, IsContent(view, l),
         NEW file \in {NoFile, view}, NEW buffered \in BOOLEAN
  PROVE  /\ Sound(Opened(l, p, view, file, buffered))
         /\ Opened(l, p, view, file, buffered).level = l
         /\ Opened(l, p, view, file, buffered).parent = p
<1>1. view \in Contents /\ view # NoFile /\ l \in Levels
  BY ContentIsTyped
<1>2. QED
  BY <1>1 DEF Opened, Sound, SessionType

\* Work of any thread keeps the invariant: one step for each operation.
LEMMA WorkKeepsInvariant ==
  ASSUME IInv, NEW w \in Threads, Works(w)
  PROVE  IInv'
<1> DEFINE t == call[w].token
<1>0. IsContent(disk, 0) /\ SessionsSound /\ CallsOK
  BY DEF IInv
<1>1. call[w] # NoCall => call[w] \in CallType /\ t \in DOMAIN session
  BY CallHasSession
<1>2. NoCall.stage # "found" /\ NoCall.stage # "committed"
  BY DEF NoCall
<1>3. /\ faults \in 0..MaxFaults /\ via \in [Edits -> DOMAIN session \cup {NoToken}]
      /\ acked \subseteq Edits /\ excused \subseteq Edits
      /\ faults < MaxFaults => faults + 1 \in 0..MaxFaults
  BY <1>0, BoundsAssumption DEF CallsOK
<1>4. ASSUME NEW u \in DOMAIN session, CanMaterialize(u)
      PROVE  IsContent(Material(u), session[u].level)
  BY <1>0, <1>4, MaterialContent
<1>5. ASSUME NEW c, NEW l, IsContent(c, l) PROVE EditsIn(c) \subseteq Edits
  <2>1. \A i \in DOMAIN c : c[i] \subseteq Edits
    BY <1>5 DEF IsContent
  <2>2. QED
    BY <2>1 DEF EditsIn
<1>6. ASSUME NEW u, NEW c, NEW l, IsContent(c, l) PROVE RacedEdits(u, c) \subseteq Edits
  BY <1>5, <1>6 DEF RacedEdits
<1>7. CASE OpenNested(w)
  <2>1. call[w] # NoCall /\ Len(session) < MaxTokens /\ UNCHANGED <<disk, faults, history>>
    BY <1>2, <1>7 DEF OpenNested, Doing
  <2> DEFINE l == session[t].level + 1
             inner == Inner(session[t].view, l)
  <2>2. /\ EntryFound(t)
        /\ \/ Register(w, Opened(l, t, inner, NoFile, FALSE))
           \/ Register(w, Opened(l, t, inner, NoFile, TRUE))
           \/ Register(w, Opened(l, t, inner, inner, FALSE))
    BY <1>7 DEF OpenNested
  <2>3. IsContent(session[t].view, session[t].level)
    BY <1>0, <1>1, <2>1, SessionIsSound DEF Sound
  <2>4. IsContent(inner, l)
    BY <2>2, <2>3, InnerContent DEF EntryFound
  <2>5. t \in Tokens /\ t # NoToken
    BY <1>0, <1>1, <2>1, SessionIsSound
  <2> HIDE DEF l, inner
  <2>6. ASSUME NEW file \in {NoFile, inner}, NEW buffered \in BOOLEAN,
               Register(w, Opened(l, t, inner, file, buffered))
        PROVE  IInv'
    <3>1. /\ Sound(Opened(l, t, inner, file, buffered))
          /\ Opened(l, t, inner, file, buffered).level = l
          /\ Opened(l, t, inner, file, buffered).parent = t
      BY <2>4, <2>5, OpenedIsSound
    <3>2. QED
      BY <1>1, <2>1, <2>5, <2>6, <3>1, RegisteredIsSound DEF l
  <2>7. QED
    BY <2>2, <2>6
<1>8. CASE Refuse(w) \/ Fail(w)
  <2>1. /\ Return(w) /\ UNCHANGED <<disk, session, registered, history>>
        /\ faults' \in 0..MaxFaults
    BY <1>3, <1>8 DEF Refuse, Fail
  <2>2. CallsOK'
    BY <1>0, <1>3, <2>1, CallsKept DEF history
  <2>3. QED
    BY <1>0, <2>1, <2>2 DEF IInv, SessionsSound
<1>9. ASSUME NEW new, IsContent(new, session[t].level), t \in DOMAIN session, CanMaterialize(t),
             NEW outcome \in WriteOutcomes(t, new), NEW e \in Edits, Written(w, t, e, outcome),
             acked' \subseteq Edits, excused' \subseteq Edits
      PROVE  IInv'
  <2>1. /\ Sound(outcome.session) /\ faults' \in 0..MaxFaults
        /\ outcome.session.level = session[t].level
        /\ outcome.session.parent = session[t].parent
    BY <1>0, <1>3, <1>9, WrittenIsSound DEF Written
  <2>2. SessionsSound' /\ DOMAIN session' = DOMAIN session
    BY <1>0, <1>9, <2>1, ReplacedIsSound DEF Written
  <2>3. via' \in [Edits -> DOMAIN session \cup {NoToken}]
    BY <1>3, <1>9 DEF Written
  <2>4. CallsOK'
    BY <1>0, <1>9, <2>1, <2>2, <2>3, CallsKept DEF Written
  <2>5. QED
    BY <1>0, <1>9, <2>2, <2>4 DEF IInv, Written
<1>10. CASE Add(w)
  <2>1. call[w] # NoCall /\ call[w].op = "add" /\ Servable(w)
    BY <1>2, <1>10 DEF Add, Doing
  <2>2. t \in DOMAIN session /\ CanMaterialize(t)
    BY <1>1, <2>1 DEF Servable
  <2>3. PICK e \in Edits :
          LET new == WithEdit(Material(t), session[t].level, e)
          IN /\ \E outcome \in WriteOutcomes(t, new) :
                  /\ Written(w, t, e, outcome)
                  /\ acked' = IF outcome.ok THEN acked \cup {e} ELSE acked
             /\ excused' = excused \cup RacedEdits(t, new)
    BY <1>10 DEF Add
  <2> DEFINE new == WithEdit(Material(t), session[t].level, e)
  <2>4. IsContent(new, session[t].level)
    BY <1>4, <2>2, WithEditContent
  <2> HIDE DEF new
  <2>5. PICK outcome \in WriteOutcomes(t, new) :
          /\ Written(w, t, e, outcome)
          /\ acked' = IF outcome.ok THEN acked \cup {e} ELSE acked
    BY <2>3 DEF new
  <2>6. excused' \subseteq Edits
    BY <1>3, <1>6, <2>3, <2>4 DEF new
  <2>7. acked' \subseteq Edits
    BY <1>3, <2>5
  <2>8. QED
    BY <1>9, <2>2, <2>4, <2>5, <2>6, <2>7
<1>11. CASE Drop(w)
  <2> DEFINE new == WithoutInner(Material(t), session[t].level)
  <2>1. call[w] # NoCall /\ call[w].op = "drop" /\ Servable(w)
    BY <1>2, <1>11 DEF Drop, Doing
  <2>2. t \in DOMAIN session /\ CanMaterialize(t)
    BY <1>1, <2>1 DEF Servable
  <2>3. IsContent(new, session[t].level)
    BY <1>4, <2>2, WithoutInnerContent
  <2>4. /\ \E e \in Edits, outcome \in WriteOutcomes(t, new) :
             NextEdit(e) /\ Written(w, t, e, outcome)
        /\ excused' = excused \cup (EditsIn(Material(t)) \ EditsIn(new))
        /\ UNCHANGED acked
    BY <1>11 DEF Drop
  <2>5. excused' \subseteq Edits
    BY <1>3, <1>4, <1>5, <2>2, <2>4
  <2> HIDE DEF new
  <2>6. QED
    BY <1>3, <1>9, <2>2, <2>3, <2>4, <2>5
<1>12. CASE CloseClean(w)
  <2>1. /\ call[w] # NoCall /\ Committed(w)
        /\ UNCHANGED <<disk, session, registered, faults, history>>
    BY <1>2, <1>12 DEF CloseClean, Doing
  <2>2. CallsOK'
    BY <1>0, <1>1, <1>3, <2>1, CallsKept DEF history
  <2>3. QED
    BY <1>0, <2>1, <2>2 DEF IInv, SessionsSound
<1>13. CASE CommitToParent(w)
  <2> DEFINE p == session[t].parent
             new == WithInner(Material(p), session[t].file, session[t].level)
  <2>1. call[w] # NoCall /\ call[w].op = "close" /\ session[t].dirty /\ Nested(t) /\ Servable(w)
    BY <1>2, <1>13 DEF CommitToParent, Doing
  <2>2. CanMaterialize(p)
    BY <2>1 DEF Servable
  <2>3. t \in DOMAIN session /\ Sound(session[t]) /\ Placed(session, t)
    BY <1>0, <1>1, <2>1, SessionIsSound
  <2>4. p \in DOMAIN session /\ session[t].level = session[p].level + 1
    BY <2>1, <2>3 DEF Placed, Nested
  <2>5. IsContent(Material(p), session[p].level)
    BY <1>4, <2>2, <2>4
  <2>6. IsContent(session[t].file, session[t].level)
    BY <2>1, <2>3 DEF Sound
  <2>7. IsContent(new, session[p].level)
    BY <2>4, <2>5, <2>6, WithInnerContent
  <2> HIDE DEF new
  <2>8. PICK outcome \in WriteOutcomes(p, new) :
             /\ session' = [session EXCEPT ![p] = outcome.session,
                                           ![t].dirty = ~outcome.ok]
             /\ IF outcome.ok THEN Committed(w) ELSE Return(w)
             /\ Counted(outcome)
    BY <1>13 DEF CommitToParent, new
  <2>9. excused' = excused \cup Siblings(t, Material(p), new) \cup RacedEdits(p, new)
        /\ UNCHANGED <<disk, registered, via, acked>>
    BY <1>13 DEF CommitToParent, new
  <2>10. /\ Sound(outcome.session) /\ faults' \in 0..MaxFaults /\ outcome.ok \in BOOLEAN
         /\ outcome.session.level = session[p].level
         /\ outcome.session.parent = session[p].parent
    BY <1>0, <1>3, <2>2, <2>4, <2>7, <2>8, WrittenIsSound
  <2>11. SessionsSound' /\ DOMAIN session' = DOMAIN session
    <3> DEFINE s == [session[t] EXCEPT !.dirty = ~outcome.ok]
               middle == [session EXCEPT ![p] = outcome.session]
    <3>1. p # t
      <4>1. session[p].level \in Levels
        BY <1>0, <2>4, SessionIsSound
      <4>2. QED
        BY <2>4, <4>1, BoundsAssumption DEF Levels
    <3>2. /\ Sound(s) /\ s.level = session[t].level /\ s.parent = session[t].parent
      BY <2>1, <2>3, <2>10 DEF Sound, SessionType
    <3> HIDE DEF s
    <3>3. session' = [middle EXCEPT ![t] = [middle[t] EXCEPT !.dirty = ~outcome.ok]]
      BY <2>8
    <3>4. middle[t] = session[t]
      BY <2>3, <3>1
    <3>5. /\ DOMAIN session' = DOMAIN session
          /\ session'[p] = outcome.session /\ session'[t] = s
          /\ \A u \in DOMAIN session \ {p, t} : session'[u] = session[u]
      BY <2>3, <2>4, <3>1, <3>3, <3>4 DEF s
    <3>6. session' \in Seq(SessionType) /\ Len(session') = Len(session)
      <4>1. outcome.session \in SessionType /\ s \in SessionType
        BY <2>10, <3>2 DEF Sound
      <4>2. session \in Seq(SessionType)
        BY <1>0 DEF SessionsSound
      <4>3. \A u \in DOMAIN session : session'[u] \in SessionType
        BY <3>5, <4>1, <4>2
      <4>4. middle \in Seq(SessionType) /\ Len(middle) = Len(session)
        BY <4>1, <4>2, <2>4
      <4>5. session' = [middle EXCEPT ![t] = s]
        BY <3>3, <3>4 DEF s
      <4> HIDE DEF middle
      <4>6. t \in DOMAIN middle
        BY <2>3, <4>2, <4>4
      <4>7. QED
        BY <4>1, <4>4, <4>5, <4>6
    <3>7. \A u \in DOMAIN session : /\ session'[u].level = session[u].level
                                    /\ session'[u].parent = session[u].parent
      BY <2>10, <3>2, <3>5
    <3>8. \A u \in DOMAIN session : Sound(session'[u])
      BY <1>0, <2>10, <3>2, <3>5 DEF SessionsSound
    <3>9. \A u \in DOMAIN session : Placed(session', u)
      BY <1>0, <3>5, <3>7 DEF SessionsSound, Placed
    <3>10. QED
      BY <1>0, <3>5, <3>6, <3>8, <3>9 DEF SessionsSound
  <2>12. excused' \subseteq Edits
    BY <1>3, <1>5, <1>6, <2>5, <2>7, <2>9 DEF Siblings
  <2>13. Return(w) \/ (Committed(w) /\ call[w] \in CallType)
    BY <1>1, <2>1, <2>8
  <2>14. CallsOK'
    BY <1>0, <1>3, <2>9, <2>10, <2>11, <2>12, <2>13, CallsKept
  <2>15. QED
    BY <1>0, <2>9, <2>11, <2>14 DEF IInv
<1>14. CASE CommitToRoot(w)
  <2> DEFINE s == [session[t] EXCEPT !.dirty = FALSE]
  <2>1. call[w] # NoCall /\ session[t].dirty /\ ~Nested(t)
    BY <1>2, <1>14 DEF CommitToRoot, Doing
  <2>2. t \in DOMAIN session /\ Sound(session[t]) /\ Placed(session, t)
    BY <1>0, <1>1, <2>1, SessionIsSound
  <2>3. IsContent(session[t].file, 0)
    BY <2>1, <2>2 DEF Sound, Placed, Nested
  <2>4. Sound(s) /\ s.level = session[t].level /\ s.parent = session[t].parent
    BY <2>2 DEF Sound, SessionType
  <2>5. /\ disk' = session[t].file /\ session' = [session EXCEPT ![t] = s]
        /\ Committed(w) /\ excused' = excused \cup Siblings(t, disk, session[t].file)
        /\ UNCHANGED <<registered, faults, via, acked>>
    BY <1>14 DEF CommitToRoot
  <2> HIDE DEF s
  <2>6. SessionsSound' /\ DOMAIN session' = DOMAIN session
    BY <1>0, <2>2, <2>4, <2>5, ReplacedIsSound
  <2>7. excused' \subseteq Edits
    BY <1>0, <1>3, <1>5, <2>5 DEF Siblings
  <2>8. CallsOK'
    BY <1>0, <1>1, <1>3, <2>1, <2>5, <2>6, <2>7, CallsKept
  <2>9. QED
    BY <2>3, <2>5, <2>6, <2>8 DEF IInv
<1>15. CASE Erase(w)
  <2>1. /\ Return(w) /\ registered' \subseteq registered
        /\ UNCHANGED <<disk, session, faults, history>>
    BY <1>15 DEF Erase
  <2>2. CallsOK'
    BY <1>0, <1>3, <2>1, CallsKept DEF history
  <2>3. QED
    BY <1>0, <2>1, <2>2 DEF IInv, SessionsSound
<1>16. QED
  BY <1>7, <1>8, <1>10, <1>11, <1>12, <1>13, <1>14, <1>15 DEF Works

-----------------------------------------------------------------------------
LEMMA InitHasInvariant ==
  ASSUME Init PROVE IInv
<1>1. 0 \in Levels /\ Depth - 1 \in Levels /\ 0 <= Depth - 1 /\ Levels = 0..Depth - 1
  BY BoundsAssumption DEF Levels
<1>2. disk \in [0..Depth - 1 -> SUBSET Edits]
  BY <1>1 DEF Init, NoEdits
<1>3. IsContent(disk, 0)
  BY <1>1, <1>2 DEF IsContent
<1>4. SessionsSound
  BY BoundsAssumption DEF Init, SessionsSound
<1>5. NoCall.token = NoToken
  BY DEF NoCall
<1>6. CallsOK
  BY <1>5, BoundsAssumption DEF Init, CallsOK
<1>7. QED
  BY <1>3, <1>4, <1>6 DEF IInv

LEMMA StepKeepsInvariant ==
  ASSUME IInv, [Next]_vars PROVE IInv'
<1>1. ASSUME NEW w \in Threads, OpenRoot(w) PROVE IInv'
  <2>1. /\ Len(session) < MaxTokens /\ Register(w, Opened(0, NoToken, disk, NoFile, FALSE))
        /\ UNCHANGED <<disk, faults, history>>
    BY <1>1 DEF OpenRoot
  <2>2. /\ Sound(Opened(0, NoToken, disk, NoFile, FALSE))
        /\ Opened(0, NoToken, disk, NoFile, FALSE).level = 0
        /\ Opened(0, NoToken, disk, NoFile, FALSE).parent = NoToken
    <3>1. IsContent(disk, 0) /\ NoToken \in Tokens \cup {NoToken}
      BY DEF IInv
    <3>2. disk \in Contents /\ 0 \in Levels
      BY <3>1, ContentIsTyped
    <3>3. QED
      BY <3>1, <3>2 DEF Opened, Sound, SessionType
  <2>3. QED
    BY <2>1, <2>2, RegisteredIsSound
<1>2. ASSUME NEW w \in Threads, Begins(w) PROVE IInv'
  <2>1. PICK op \in {"open", "add", "drop", "close"}, t \in DOMAIN session : Begin(w, op, t)
    BY <1>2 DEF Begins
  <2>2. t \in Tokens
    BY SessionIsSound DEF IInv
  <2>3. Found(op, t) \in CallType /\ Found(op, t).token = t
    BY <2>2 DEF Found, CallType
  <2>4. CallsOK'
    BY <2>1, <2>3 DEF IInv, CallsOK, Begin, history
  <2>5. QED
    BY <2>1, <2>4 DEF IInv, SessionsSound, Begin
<1>3. CASE UNCHANGED vars
  BY <1>3 DEF vars, history, IInv, SessionsSound, CallsOK
<1>4. QED
  BY <1>1, <1>2, <1>3, WorkKeepsInvariant DEF Next

LEMMA Invariant == Spec => []IInv
<1>1. Init => IInv
  BY InitHasInvariant
<1>2. IInv /\ [Next]_vars => IInv'
  BY StepKeepsInvariant
<1>3. QED
  BY <1>1, <1>2, PTL DEF Spec

\* Every reachable state of the registry has the declared types.
THEOREM TypeCorrect == Spec => []TypeOK
<1>1. IInv => TypeOK
  BY ContentIsTyped DEF IInv, SessionsSound, CallsOK, TypeOK
<1>2. QED
  BY <1>1, Invariant, PTL

\* A dirty session always has a private file: materialise_session_archive comes
\* before every change, and no failed reopen and no commit of a child takes the
\* file away (session_registry.cpp).
THEOREM DirtySessionsHaveFiles == Spec => []DirtyHasFile
<1>1. IInv => DirtyHasFile
  BY DEF IInv, SessionsSound, Sound, DirtyHasFile
<1>2. QED
  BY <1>1, Invariant, PTL

-----------------------------------------------------------------------------
(* Edits.  The invariant says where each edit is on its way up: an edit    *)
(* that is known beyond a session is in that session's file if it passed   *)
(* through it, and a session that will not commit it has handed it on.     *)

FileEdits(t) == EditsIn(session[t].file)
ViewEdits(t) == EditsIn(session[t].view)

\* Only edits that were made are in any data.
OnlyMade ==
  /\ EditsIn(disk) \subseteq Made /\ acked \subseteq Made
  /\ \A t \in DOMAIN session : FileEdits(t) \cup ViewEdits(t) \subseteq Made

\* An edit is known outside of a session and of those nested in it.
Beyond(e, t) ==
  \/ e \in EditsIn(disk) \/ e \in ViewEdits(t)
  \/ \E x \in DOMAIN session : t \notin Above(x) /\ e \in FileEdits(x) \cup ViewEdits(x)

\* It got there by the commits of the sessions above the one it was made in,
\* each of which still has it.
PassedOn ==
  \A e \in Made \ excused : \A t \in Above(via[e]) : Beyond(e, t) => e \in FileEdits(t)

\* A session that will commit the edit.
Carrier(x, e) == ~Raced(x) /\ session[x].dirty /\ e \in FileEdits(x)

\* A session that will not commit has handed the edit on.
HandedOn(e, p) == e \in EditsIn(disk) \/ \E x \in Above(p) \ {p} : Carrier(x, e)
CarriedUp ==
  \A e \in Made \ excused : \A p \in Above(via[e]) :
    (~session[p].dirty \/ Raced(p)) /\ e \in FileEdits(p) => HandedOn(e, p)

AckedHere == \A e \in acked \ excused : e \in FileEdits(via[e])

EditsInv == OnlyMade /\ PassedOn /\ CarriedUp /\ AckedHere

-----------------------------------------------------------------------------
(* What the sessions above a session are.                                  *)

LEMMA AboveItself ==
  ASSUME NEW t \in DOMAIN session
  PROVE  t \in Above(t) /\ Above(t) \subseteq DOMAIN session
BY DEF Above

LEMMA AboveRises ==
  ASSUME IInv, NEW t, NEW x \in Above(t), Nested(x)
  PROVE  session[x].parent \in Above(t)
<1>1. x \in DOMAIN session
  BY DEF Above
<1>2. session[x].parent \in DOMAIN session
  BY <1>1, SessionIsSound DEF IInv, Placed, Nested
<1>3. QED
  BY <1>2 DEF Above, Rising

LEMMA AboveAbove ==
  ASSUME NEW t, NEW x \in Above(t)
  PROVE  Above(x) \subseteq Above(t)
BY DEF Above

LEMMA AboveNested ==
  ASSUME IInv, NEW t \in DOMAIN session, Nested(t)
  PROVE  /\ session[t].parent \in DOMAIN session
         /\ Above(t) = {t} \cup Above(session[t].parent)
<1> DEFINE p == session[t].parent
<1>1. p \in DOMAIN session
  BY SessionIsSound DEF IInv, Placed, Nested
<1>2. t \in Above(t) /\ p \in Above(t)
  BY AboveItself, AboveRises
<1>3. {t} \cup Above(p) \subseteq Above(t)
  BY <1>2, AboveAbove
<1>4. {t} \cup Above(p) \in SUBSET DOMAIN session
  BY AboveItself, <1>1
<1>5. p \in Above(p)
  BY <1>1, AboveItself
<1>6. Rising({t} \cup Above(p))
  BY <1>5, AboveRises DEF Rising
<1>7. QED
  BY <1>1, <1>3, <1>4, <1>6 DEF Above

LEMMA AboveRoot ==
  ASSUME NEW t \in DOMAIN session, ~Nested(t)
  PROVE  Above(t) = {t}
BY DEF Above, Rising

LEMMA AboveIsLower ==
  ASSUME IInv, NEW t \in DOMAIN session, NEW x \in Above(t)
  PROVE  session[x].level <= session[t].level
<1> DEFINE S == {y \in DOMAIN session : session[y].level <= session[t].level}
<1>1. \A y \in DOMAIN session : session[y].level \in Int
  BY SessionIsSound, BoundsAssumption DEF IInv, Levels
<1>2. \A y \in DOMAIN session : Nested(y) =>
        /\ session[y].parent \in DOMAIN session
        /\ session[y].level = session[session[y].parent].level + 1
  BY SessionIsSound DEF IInv, Placed, Nested
<1>3. Rising(S)
  BY <1>1, <1>2 DEF Rising
<1>4. t \in S
  BY <1>1
<1>5. QED
  BY <1>3, <1>4 DEF Above

\* The parent of a session above another is not that other.
LEMMA ParentIsAbove ==
  ASSUME IInv, NEW q \in DOMAIN session, NEW x \in Above(q), Nested(x)
  PROVE  /\ session[x].parent \in Above(q) \ {q}
         /\ x \notin Above(session[x].parent)
<1> DEFINE p == session[x].parent
<1>1. x \in DOMAIN session /\ p \in Above(q) /\ p \in DOMAIN session
  BY AboveItself, AboveRises
<1>2. session[x].level = session[p].level + 1
  BY <1>1, SessionIsSound DEF IInv, Placed, Nested
<1>3. session[x].level \in Int /\ session[p].level \in Int /\ session[q].level \in Int
  BY <1>1, SessionIsSound, BoundsAssumption DEF IInv, Levels
<1>4. session[x].level <= session[q].level
  BY AboveIsLower
<1>5. p # q
  BY <1>2, <1>3, <1>4
<1>6. x \notin Above(p)
  BY <1>1, <1>2, <1>3, AboveIsLower
<1>7. QED
  BY <1>1, <1>5, <1>6

LEMMA AboveStays ==
  ASSUME DOMAIN session' = DOMAIN session,
         \A x \in DOMAIN session : session'[x].parent = session[x].parent
  PROVE  \A t : Above(t)' = Above(t)
BY DEF Above, Rising, Nested

-----------------------------------------------------------------------------
(* What edits data contains.                                               *)

LEMMA EditIn ==
  ASSUME NEW c, NEW e
  PROVE  e \in EditsIn(c) <=> \E l \in DOMAIN c : e \in c[l]
BY DEF EditsIn

LEMMA NoEditInNoFile == EditsIn(NoFile) = {}
<1>1. DOMAIN NoFile = {}
  BY DEF NoFile
<1>2. QED
  BY <1>1, EditIn

LEMMA InnerEdits ==
  ASSUME NEW c, NEW l
  PROVE  EditsIn(Inner(c, l)) \subseteq EditsIn(c)
BY DEF EditsIn, Inner

LEMMA WithEditEdits ==
  ASSUME NEW c, NEW l, NEW e
  PROVE  /\ EditsIn(c) \subseteq EditsIn(WithEdit(c, l, e))
         /\ EditsIn(WithEdit(c, l, e)) \subseteq EditsIn(c) \cup {e}
         /\ l \in DOMAIN c => e \in EditsIn(WithEdit(c, l, e))
<1> DEFINE d == WithEdit(c, l, e)
<1>1. DOMAIN d = DOMAIN c
  BY DEF WithEdit
<1>2. \A k \in DOMAIN c : d[k] = IF k = l THEN c[k] \cup {e} ELSE c[k]
  BY DEF WithEdit
<1> HIDE DEF d
<1>3. QED
  BY <1>1, <1>2, EditIn DEF d

LEMMA WithInnerEdits ==
  ASSUME NEW c, NEW inner, NEW l, \A k \in DOMAIN inner : k \in Int /\ k >= l, l \in Int
  PROVE  /\ EditsIn(inner) \subseteq EditsIn(WithInner(c, inner, l))
         /\ EditsIn(WithInner(c, inner, l)) \subseteq EditsIn(c) \cup EditsIn(inner)
<1> DEFINE d == WithInner(c, inner, l)
<1>1. DOMAIN d = {k \in DOMAIN c : k < l} \cup DOMAIN inner
  BY DEF WithInner
<1>2. \A k \in DOMAIN d : d[k] = IF k < l THEN c[k] ELSE inner[k]
  BY DEF WithInner
<1>3. \A k \in DOMAIN inner : ~(k < l)
  OBVIOUS
<1> HIDE DEF d
<1>4. QED
  BY <1>1, <1>2, <1>3, EditIn DEF d

LEMMA WithoutInnerEdits ==
  ASSUME NEW c, NEW l, l \in DOMAIN c
  PROVE  EditsIn(WithoutInner(c, l)) \subseteq EditsIn(c)
BY DEF EditsIn, WithoutInner

-----------------------------------------------------------------------------
(* What a session is materialised from.                                    *)

LEMMA MadeHere ==
  ASSUME IInv, NEW e \in Made
  PROVE  via[e] \in DOMAIN session /\ e \in Edits
BY DEF IInv, CallsOK, Made

LEMMA FileInMaterial ==
  ASSUME NEW t
  PROVE  FileEdits(t) \subseteq EditsIn(Material(t))
BY NoEditInNoFile DEF FileEdits, Material

LEMMA MaterialMade ==
  ASSUME IInv, OnlyMade, NEW t \in DOMAIN session
  PROVE  EditsIn(Material(t)) \subseteq Made
<1> DEFINE p == session[t].parent
<1>1. CASE session[t].file # NoFile
  BY <1>1 DEF Material, OnlyMade, FileEdits
<1>2. CASE session[t].file = NoFile /\ session[t].buffered
  BY <1>2 DEF Material, OnlyMade, ViewEdits
<1>3. CASE session[t].file = NoFile /\ ~session[t].buffered /\ Nested(t)
  <2>1. p \in DOMAIN session
    BY <1>3, AboveNested
  <2>2. ViewEdits(p) \subseteq Made
    BY <2>1 DEF OnlyMade
  <2>3. EditsIn(Material(t)) \subseteq ViewEdits(p)
    BY <1>3, InnerEdits DEF Material, ViewEdits
  <2>4. QED
    BY <2>2, <2>3
<1>4. CASE session[t].file = NoFile /\ ~session[t].buffered /\ ~Nested(t)
  BY <1>4 DEF Material, OnlyMade
<1>5. QED
  BY <1>1, <1>2, <1>3, <1>4

\* An edit in there is in the files of the sessions that it went through and
\* that are not above this one.
LEMMA MaterialPassedOn ==
  ASSUME IInv, PassedOn, NEW t \in DOMAIN session, NEW e \in Made \ excused,
         e \in EditsIn(Material(t)), NEW s \in Above(via[e]), s \notin Above(t) \/ s = t
  PROVE  e \in FileEdits(s)
<1> DEFINE p == session[t].parent
<1>1. CASE session[t].file # NoFile
  BY <1>1 DEF Material, PassedOn, Beyond, FileEdits
<1>2. CASE session[t].file = NoFile /\ session[t].buffered
  BY <1>2 DEF Material, PassedOn, Beyond, ViewEdits
<1>3. CASE session[t].file = NoFile /\ ~session[t].buffered /\ Nested(t)
  <2>1. p \in DOMAIN session /\ s \notin Above(p)
    BY <1>3, AboveNested, AboveItself, ParentIsAbove
  <2>2. e \in ViewEdits(p)
    BY <1>3, InnerEdits DEF Material, ViewEdits
  <2>3. QED
    BY <2>1, <2>2 DEF PassedOn, Beyond
<1>4. CASE session[t].file = NoFile /\ ~session[t].buffered /\ ~Nested(t)
  BY <1>4 DEF Material, PassedOn, Beyond
<1>5. QED
  BY <1>1, <1>2, <1>3, <1>4

-----------------------------------------------------------------------------
(* A write to session p, for itself or to commit its child c: the edits in *)
(* its file were, when materialised, those of old, and are those of new    *)
(* when it did not fail.                                                   *)

Changed(p, new) == FileEdits(p)' = new /\ session'[p].dirty
Untouched(x) ==
  /\ session'[x].dirty = session[x].dirty
  /\ Raced(x)' <=> Raced(x)

Writes(p, c, old, new, fresh) ==
  /\ registered' = registered /\ disk' = disk /\ DOMAIN session' = DOMAIN session
  /\ \A x \in DOMAIN session :
       /\ session'[x].parent = session[x].parent
       /\ x # p => /\ FileEdits(x)' = FileEdits(x) /\ ViewEdits(x)' = ViewEdits(x)
                   /\ Untouched(x) \/ (x = c /\ Changed(p, new))
  /\ \/ FileEdits(p)' = old /\ session'[p].dirty = session[p].dirty
     \/ Changed(p, new)
  /\ \/ ViewEdits(p)' \subseteq ViewEdits(p) \cup old
     \/ ViewEdits(p)' = new /\ Changed(p, new)
  /\ Raced(p)' <=> Raced(p)

\* What a write takes from where, and what it excuses.
Keeps(p, c, old, new, fresh) ==
  /\ old = EditsIn(Material(p))
  /\ IF c = NoToken THEN new \subseteq old \cup fresh
     ELSE /\ c \in DOMAIN session /\ Nested(c) /\ session[c].parent = p
          /\ FileEdits(c) \subseteq new /\ new \subseteq old \cup FileEdits(c)
          /\ fresh = {}
  /\ excused \subseteq excused'
  /\ Raced(p) => new \ old \subseteq excused'
  /\ \A e \in (old \ new) \cap Made : e \notin excused' => c # NoToken /\ c \in Above(via[e])
  /\ fresh \cap Made = {} /\ Made' = Made \cup fresh
  /\ \A e \in Made : via'[e] = via[e]
  /\ \A e \in fresh : via'[e] = p
  /\ acked' \subseteq acked \cup {e \in fresh : e \in new /\ Changed(p, new)}

\* Nothing that was passed on is lost by the write.
LEMMA WriteLosesNothing ==
  ASSUME IInv, EditsInv, NEW p \in DOMAIN session,
         NEW c, NEW old, NEW new, NEW fresh, Keeps(p, c, old, new, fresh),
         NEW e \in Made, e \notin excused', e \in old
  PROVE  e \in new
<1>1. CASE e \notin new
  <2>1. c # NoToken /\ c \in Above(via[e]) /\ e \in EditsIn(Material(p)) /\ e \notin excused
    BY <1>1 DEF Keeps
  <2>2. c \in DOMAIN session /\ Nested(c) /\ session[c].parent = p /\ FileEdits(c) \subseteq new
    BY <2>1 DEF Keeps
  <2>3. c \notin Above(p)
    BY <2>2, AboveItself, ParentIsAbove
  <2>4. e \in FileEdits(c)
    BY <2>1, <2>3, MaterialPassedOn DEF EditsInv
  <2>5. QED
    BY <2>2, <2>4
<1>2. QED
  BY <1>1

\* Every session above one has the same sessions above it as before.
LEMMA WriteKeepsEdits ==
  ASSUME IInv, EditsInv, NEW p \in DOMAIN session,
         NEW c, NEW old, NEW new, NEW fresh,
         Writes(p, c, old, new, fresh), Keeps(p, c, old, new, fresh)
  PROVE  EditsInv'
<1>1. \A t : Above(t)' = Above(t)
  BY AboveStays DEF Writes
<1>2. /\ OnlyMade /\ PassedOn /\ CarriedUp /\ AckedHere
      /\ old \subseteq Made /\ FileEdits(p) \subseteq old
  BY MaterialMade, FileInMaterial DEF EditsInv, Keeps
<1>3. /\ new \subseteq Made \cup fresh
      /\ \A e \in new : e \in old \/ e \in fresh \/ (c \in DOMAIN session /\ e \in FileEdits(c))
  BY <1>2 DEF Keeps, OnlyMade
<1>4. ASSUME NEW e \in Made, e \notin excused'
      PROVE  /\ e \notin excused /\ via'[e] = via[e] /\ via[e] \in DOMAIN session
             /\ e \in old => e \in new
             /\ e \in FileEdits(p) => e \in FileEdits(p)'
  <2>1. e \in old => e \in new
    BY <1>4, WriteLosesNothing
  <2>2. e \in FileEdits(p) => e \in FileEdits(p)'
    BY <1>2, <2>1 DEF Writes, Changed
  <2>3. QED
    BY <1>4, <2>1, <2>2, MadeHere DEF Keeps
<1>5. OnlyMade'
  <2>1. FileEdits(p)' \cup ViewEdits(p)' \subseteq Made'
    BY <1>2, <1>3 DEF Writes, Changed, OnlyMade, Keeps
  <2>2. \A t \in DOMAIN session : FileEdits(t)' \cup ViewEdits(t)' \subseteq Made'
    BY <1>2, <2>1 DEF Writes, OnlyMade, Keeps
  <2>3. acked' \subseteq Made' /\ EditsIn(disk') \subseteq Made'
    BY <1>2 DEF Keeps, OnlyMade, Writes
  <2>4. QED
    BY <2>2, <2>3 DEF OnlyMade, Writes
<1>6. AckedHere'
  <2>1. ASSUME NEW e \in acked', e \notin excused'
        PROVE  \E v \in DOMAIN session : via'[e] = v /\ e \in FileEdits(v)'
    <3>1. CASE e \in acked
      <4>1. e \in Made /\ via'[e] = via[e] /\ via[e] \in DOMAIN session /\ e \in FileEdits(via[e])
        BY <1>2, <1>4, <2>1, <3>1 DEF OnlyMade, AckedHere
      <4>2. QED
        BY <1>4, <2>1, <4>1 DEF Writes
    <3>2. CASE e \notin acked
      BY <2>1, <3>2 DEF Keeps, Changed
    <3>3. QED
      BY <3>1, <3>2
  <2>2. QED
    BY <2>1 DEF AckedHere, FileEdits
<1>7. PassedOn'
  <2>1. ASSUME NEW e \in Made', e \notin excused', NEW t \in Above(via'[e]),
               Beyond(e, t)'
        PROVE  e \in FileEdits(t)'
    <3>1. t \in DOMAIN session
      BY <2>1 DEF Above
    <3>2. \/ e \in EditsIn(disk) \/ e \in ViewEdits(t)'
          \/ \E x \in DOMAIN session :
               t \notin Above(x) /\ e \in FileEdits(x)' \cup ViewEdits(x)'
      BY <1>1, <2>1 DEF Beyond, Writes
    <3>3. CASE e \in fresh
      <4>1. e \notin Made /\ via'[e] = p
        BY <3>3 DEF Keeps
      <4>2. /\ e \notin EditsIn(disk) /\ e \notin old
            /\ \A x \in DOMAIN session : e \notin FileEdits(x) /\ e \notin ViewEdits(x)
        BY <1>2, <4>1 DEF OnlyMade
      <4>3. t \in Above(p)
        BY <2>1, <4>1
      <4>4. t = p /\ e \in ViewEdits(p)'
        BY <3>1, <3>2, <4>2, <4>3 DEF Writes
      <4>5. QED
        BY <4>2, <4>4 DEF Writes, Changed
    <3>4. CASE e \notin fresh
      <4>1. e \in Made /\ via'[e] = via[e] /\ via[e] \in DOMAIN session /\ e \notin excused
        BY <1>4, <2>1, <3>4 DEF Keeps
      <4>2. t \in Above(via[e])
        BY <2>1, <4>1
      <4>3. e \in FileEdits(t) => e \in FileEdits(t)'
        BY <1>4, <2>1, <3>1, <4>1 DEF Writes
      <4>4. Beyond(e, t) => e \in FileEdits(t)
        BY <1>2, <4>1, <4>2 DEF PassedOn
      <4>5. ASSUME e \in old, t \notin Above(p) \/ t = p
            PROVE  e \in FileEdits(t)
        BY <1>2, <4>1, <4>2, <4>5, MaterialPassedOn DEF Keeps
      <4>6. ASSUME e \in new, t \notin Above(p), e \notin old
            PROVE  e \in FileEdits(t)
        <5>1. c \in DOMAIN session /\ e \in FileEdits(c) /\ Above(c) = {c} \cup Above(p)
          BY <1>3, <3>4, <4>6, AboveNested DEF Keeps
        <5>2. CASE t = c
          BY <5>1, <5>2
        <5>3. CASE t # c
          <6>1. Beyond(e, t)
            BY <4>6, <5>1, <5>3 DEF Beyond
          <6>2. QED
            BY <4>4, <6>1
        <5>4. QED
          BY <5>2, <5>3
      <4>7. CASE e \in EditsIn(disk)
        BY <4>3, <4>4, <4>7 DEF Beyond
      <4>8. CASE e \in ViewEdits(t)'
        <5>1. CASE t # p
          BY <3>1, <4>3, <4>4, <4>8, <5>1 DEF Beyond, Writes
        <5>2. CASE t = p
          <6>1. e \in ViewEdits(p) \/ e \in old \/ e \in FileEdits(p)'
            BY <4>8, <5>2 DEF Writes, Changed
          <6>2. QED
            BY <4>3, <4>4, <4>5, <5>2, <6>1 DEF Beyond
        <5>3. QED
          BY <5>1, <5>2
      <4>9. ASSUME NEW x \in DOMAIN session, t \notin Above(x), e \in FileEdits(x)' \cup ViewEdits(x)'
            PROVE  e \in FileEdits(t)'
        <5>1. CASE x # p
          <6>1. e \in FileEdits(x) \cup ViewEdits(x)
            BY <4>9, <5>1 DEF Writes
          <6>2. QED
            BY <4>3, <4>4, <4>9, <6>1 DEF Beyond
        <5>2. CASE x = p
          <6>1. e \in ViewEdits(p) \/ e \in old \/ e \in new
            BY <4>9, <5>2 DEF Writes, Changed
          <6>2. CASE e \in ViewEdits(p)
            BY <4>3, <4>4, <4>9, <5>2, <6>2 DEF Beyond
          <6>3. QED
            BY <4>3, <4>5, <4>6, <4>9, <5>2, <6>1, <6>2
        <5>3. QED
          BY <5>1, <5>2
      <4>10. QED
        BY <3>2, <4>7, <4>8, <4>9
    <3>5. QED
      BY <3>3, <3>4
  <2>2. QED
    BY <1>1, <2>1 DEF PassedOn
<1>8. CarriedUp'
  <2>1. ASSUME NEW e \in Made', e \notin excused', NEW q \in Above(via'[e]),
               ~session'[q].dirty \/ Raced(q)', e \in FileEdits(q)'
        PROVE  e \in EditsIn(disk) \/ \E x \in Above(q) \ {q} : Carrier(x, e)'
    <3> DEFINE Goal(r) == e \in EditsIn(disk) \/ \E x \in Above(r) \ {r} : Carrier(x, e)'
    <3>1. q \in DOMAIN session
      BY <2>1 DEF Above
    <3>2. CASE e \in fresh
      <4>1. e \notin Made /\ via'[e] = p
        BY <3>2 DEF Keeps
      <4>2. e \notin old /\ \A x \in DOMAIN session : e \notin FileEdits(x)
        BY <1>2, <4>1 DEF OnlyMade
      <4>3. q = p
        BY <2>1, <3>1, <4>2 DEF Writes
      <4>4. e \in new /\ Changed(p, new)
        BY <2>1, <4>2, <4>3 DEF Writes, Changed
      <4>5. Raced(p)
        BY <2>1, <4>3, <4>4 DEF Writes, Changed
      <4>6. QED
        BY <2>1, <4>2, <4>4, <4>5 DEF Keeps
    <3>3. CASE e \notin fresh
      <4>1. e \in Made /\ via'[e] = via[e] /\ via[e] \in DOMAIN session /\ e \notin excused
        BY <1>4, <2>1, <3>3 DEF Keeps
      <4>2. q \in Above(via[e])
        BY <2>1, <4>1
      <4>3. ASSUME NEW r \in Above(via[e]), ~session[r].dirty \/ Raced(r), e \in FileEdits(r)
            PROVE  e \in EditsIn(disk) \/ \E x \in Above(r) \ {r} : Carrier(x, e)
        BY <1>2, <4>1, <4>3 DEF CarriedUp, HandedOn
      <4>4. ASSUME Carrier(p, e) PROVE Carrier(p, e)'
        <5>1. /\ e \in FileEdits(p)' /\ (Raced(p)' <=> Raced(p))
              /\ session'[p].dirty
          BY <1>4, <2>1, <4>1, <4>4 DEF Writes, Changed, Carrier
        <5>2. QED
          BY <4>4, <5>1 DEF Carrier
      <4>5. ASSUME NEW x \in DOMAIN session, x # c, Carrier(x, e) PROVE Carrier(x, e)'
        <5>1. CASE x = p
          BY <4>4, <4>5, <5>1
        <5>2. CASE x # p
          BY <4>5, <5>2 DEF Writes, Untouched, Carrier
        <5>3. QED
          BY <5>1, <5>2
      <4>6. p \in Above(via[e]) /\ e \in old /\ (~session[p].dirty \/ Raced(p)) => Goal(p)
        <5>1. SUFFICES ASSUME p \in Above(via[e]), e \in old, ~session[p].dirty \/ Raced(p)
                       PROVE  Goal(p)
          OBVIOUS
        <5>2. e \in FileEdits(p)
          BY <1>2, <4>1, <5>1, MaterialPassedOn DEF Keeps
        <5>3. e \in EditsIn(disk) \/ \E x \in Above(p) \ {p} : Carrier(x, e)
          BY <4>3, <5>1, <5>2
        <5>4. c \notin Above(p)
          BY AboveItself, ParentIsAbove, SessionIsSound DEF Keeps, IInv
        <5>5. QED
          BY <4>5, <5>3, <5>4, AboveItself
      <4>7. ASSUME NEW r, r \in Above(via[e]), c \in DOMAIN session, c \in Above(r),
                   c # NoToken, e \in FileEdits(c), Changed(p, new)
            PROVE  Goal(r)
        <5>1. Nested(c) /\ session[c].parent = p /\ FileEdits(c) \subseteq new
          BY <4>7 DEF Keeps
        <5>2. r \in DOMAIN session /\ p \in Above(r) \ {r} /\ p \in Above(via[e])
          BY <4>7, <5>1, AboveAbove, ParentIsAbove, AboveItself, <4>1 DEF Above
        <5>3. CASE Raced(p)
          <6>1. e \in old
            BY <2>1, <4>7, <5>1, <5>3 DEF Keeps
          <6>2. Goal(p)
            BY <4>6, <5>2, <5>3, <6>1
          <6>3. Above(p) \subseteq Above(r) /\ r \notin Above(p)
            <7>1. c \notin Above(p)
              BY <4>7, <5>1, AboveItself, ParentIsAbove
            <7>2. QED
              BY <4>7, <5>2, <7>1, AboveAbove
          <6>4. QED
            BY <6>2, <6>3
        <5>4. CASE ~Raced(p)
          <6>1. Carrier(p, e)'
            BY <4>7, <5>1, <5>4 DEF Carrier, Writes, Changed
          <6>2. QED
            BY <5>2, <6>1
        <5>5. QED
          BY <5>3, <5>4
      <4>8. c \in DOMAIN session => c # NoToken
        BY SessionIsSound DEF IInv
      <4>9. CASE q = p
        <5>1. e \in old
          BY <2>1, <1>2, <3>3, <4>9 DEF Writes, Changed, Keeps
        <5>2. ~session[p].dirty \/ Raced(p)
          BY <2>1, <4>9 DEF Writes, Changed
        <5>3. QED
          BY <4>2, <4>6, <4>9, <5>1, <5>2
      <4>10. CASE q # p
        <5>1. e \in FileEdits(q) /\ (Untouched(q) \/ (q = c /\ Changed(p, new)))
          BY <2>1, <3>1, <4>10 DEF Writes
        <5>2. CASE q = c /\ Changed(p, new)
          BY <3>1, <4>2, <4>7, <4>8, <5>1, <5>2, AboveItself
        <5>3. CASE Untouched(q)
          <6>1. e \in EditsIn(disk) \/ \E x \in Above(q) \ {q} : Carrier(x, e)
            BY <2>1, <4>2, <4>3, <5>1, <5>3 DEF Untouched
          <6>2. ASSUME NEW x \in Above(q) \ {q}, Carrier(x, e)
                PROVE  Goal(q)
            <7>1. x \in DOMAIN session
              BY <3>1, AboveItself
            <7>2. CASE x # c
              BY <4>5, <6>2, <7>1, <7>2
            <7>3. CASE x = c /\ x # p
              <8>1. FileEdits(x)' = FileEdits(x) /\ (Untouched(x) \/ Changed(p, new))
                BY <7>1, <7>3 DEF Writes
              <8>2. CASE Untouched(x)
                BY <6>2, <8>1, <8>2 DEF Untouched, Carrier
              <8>3. CASE Changed(p, new)
                BY <4>2, <4>7, <4>8, <6>2, <7>1, <7>3, <8>3 DEF Carrier
              <8>4. QED
                BY <8>1, <8>2, <8>3
            <7>4. CASE x = p
              BY <4>4, <6>2, <7>4
            <7>5. QED
              BY <7>2, <7>3, <7>4
          <6>3. QED
            BY <6>1, <6>2
        <5>4. QED
          BY <5>1, <5>2, <5>3
      <4>11. QED
        BY <4>9, <4>10
    <3>4. QED
      BY <3>2, <3>3
  <2>2. QED
    BY <1>1, <2>1 DEF CarriedUp, HandedOn, Writes
<1>9. QED
  BY <1>5, <1>6, <1>7, <1>8 DEF EditsInv

-----------------------------------------------------------------------------
(* The operations.                                                         *)

\* The sessions and their data stay; a call moves on.
LEMMA CallKeepsEdits ==
  ASSUME EditsInv, UNCHANGED <<disk, session, history>>,
         \A x \in DOMAIN session : session[x].dirty => (Raced(x)' <=> Raced(x))
  PROVE  EditsInv'
<1>1. \A t : Above(t)' = Above(t)
  BY AboveStays
<1>2. \A e : \A x \in DOMAIN session : Carrier(x, e) => Carrier(x, e)'
  BY DEF Carrier, FileEdits
<1>3. \A e, t : /\ Beyond(e, t)' <=> Beyond(e, t)
                /\ FileEdits(t)' = FileEdits(t) /\ ViewEdits(t)' = ViewEdits(t)
  BY <1>1 DEF Beyond, FileEdits, ViewEdits
<1>4. \A e : \A p : HandedOn(e, p) => HandedOn(e, p)'
  BY <1>1, <1>2 DEF HandedOn, Above
<1>5. Made' = Made
  BY DEF Made, history
<1>6. OnlyMade' /\ AckedHere'
  BY <1>3, <1>5 DEF EditsInv, OnlyMade, AckedHere, history, FileEdits
<1>7. PassedOn'
  BY <1>1, <1>3, <1>5 DEF EditsInv, PassedOn, history
<1>8. CarriedUp'
  <2>1. ASSUME NEW e \in Made \ excused, NEW p \in Above(via[e]),
               ~session[p].dirty \/ Raced(p)', e \in FileEdits(p)
        PROVE  HandedOn(e, p)'
    <3>1. p \in DOMAIN session
      BY <2>1 DEF Above
    <3>2. ~session[p].dirty \/ Raced(p)
      BY <2>1, <3>1
    <3>3. QED
      BY <1>4, <2>1, <3>2 DEF EditsInv, CarriedUp
  <2>2. QED
    BY <1>1, <1>3, <1>5, <2>1 DEF CarriedUp, history
<1>9. QED
  BY <1>6, <1>7, <1>8 DEF EditsInv

\* A call that returns before it committed, or commits, races with no other
\* session than its own.
LEMMA RacedAfter ==
  ASSUME IInv, NEW w \in Threads, call[w].stage # "committed",
         NEW x, x \in registered' <=> x \in registered,
         Return(w) \/ (Committed(w) /\ x # call[w].token)
  PROVE  Raced(x)' <=> Raced(x)
<1>1. call \in [Threads -> CallType \cup {NoCall}]
  BY DEF IInv, CallsOK
<1>2. /\ \A v \in Threads \ {w} : call'[v] = call[v]
      /\ call'[w] = NoCall \/ call'[w].token # x
  BY <1>1 DEF Return, Committed, CallType, NoCall
<1>3. NoCall.op # "close"
  BY DEF NoCall
<1>4. QED
  BY <1>2, <1>3 DEF Raced

\* A new session has the data of its parent, or of the disk, and commits nothing.
LEMMA RegisterKeepsEdits ==
  ASSUME IInv, EditsInv, NEW w \in Threads, call[w].stage # "committed",
         NEW new, NEW parent, Register(w, new), UNCHANGED <<disk, history>>,
         new.parent = parent, ~new.dirty,
         \/ parent = NoToken /\ EditsIn(new.file) \cup EditsIn(new.view) \subseteq EditsIn(disk)
         \/ /\ parent \in DOMAIN session
            /\ EditsIn(new.file) \cup EditsIn(new.view) \subseteq ViewEdits(parent)
  PROVE  EditsInv'
<1>0. PICK n : n = Len(session) + 1
  OBVIOUS
<1>1. /\ n \notin DOMAIN session /\ DOMAIN session' = DOMAIN session \cup {n}
      /\ \A x \in DOMAIN session : session'[x] = session[x]
      /\ session'[n] = new
  BY <1>0 DEF IInv, SessionsSound, Register
<1>2. \A t \in DOMAIN session : Nested(t) => session[t].parent \in DOMAIN session
  BY AboveNested
<1>3. ASSUME NEW t \in DOMAIN session PROVE Above(t)' = Above(t)
  <2>1. ASSUME NEW S \in SUBSET DOMAIN session, Rising(S) PROVE Rising(S)'
    BY <1>1, <2>1 DEF Rising, Nested
  <2>2. ASSUME NEW S \in SUBSET DOMAIN session', Rising(S)'
        PROVE  Rising(S \cap DOMAIN session)
    BY <1>1, <1>2, <2>2 DEF Rising, Nested
  <2>3. Rising(DOMAIN session)
    BY <1>2 DEF Rising
  <2>4. Above(t)' = {x \in DOMAIN session' :
                       \A S \in SUBSET DOMAIN session' : t \in S /\ Rising(S)' => x \in S}
    BY DEF Above
  <2>5. ASSUME NEW x \in Above(t)' PROVE x \in Above(t)
    <3>1. x \in DOMAIN session
      BY <1>1, <2>1, <2>3, <2>4
    <3>2. QED
      BY <1>1, <2>1, <2>4, <3>1 DEF Above
  <2>6. ASSUME NEW x \in Above(t) PROVE x \in Above(t)'
    <3>1. ASSUME NEW S \in SUBSET DOMAIN session', Rising(S)', t \in S PROVE x \in S
      <4>1. S \cap DOMAIN session \in SUBSET DOMAIN session /\ t \in S \cap DOMAIN session
        BY <3>1
      <4>2. QED
        BY <2>2, <3>1, <4>1 DEF Above
    <3>2. x \in DOMAIN session'
      BY <1>1 DEF Above
    <3>3. QED
      BY <2>4, <3>1, <3>2
  <2>7. QED
    BY <2>5, <2>6
<1>4. \A x \in DOMAIN session : Raced(x)' <=> Raced(x)
  BY <1>0, <1>1, RacedAfter DEF Register
<1>5. /\ \A x \in DOMAIN session : /\ FileEdits(x)' = FileEdits(x)
                                   /\ ViewEdits(x)' = ViewEdits(x)
      /\ FileEdits(n)' = EditsIn(new.file) /\ ViewEdits(n)' = EditsIn(new.view)
  BY <1>1 DEF FileEdits, ViewEdits
<1>6. \A e \in Made : via[e] \in DOMAIN session
  BY MadeHere
<1>7. Made' = Made /\ acked' = acked /\ excused' = excused /\ via' = via /\ disk' = disk
  BY DEF Made, history
<1>8. OnlyMade /\ PassedOn /\ CarriedUp /\ AckedHere
  BY DEF EditsInv
<1>9. FileEdits(n)' \cup ViewEdits(n)' \subseteq Made
  BY <1>5, <1>8 DEF OnlyMade
<1>10. OnlyMade'
  BY <1>1, <1>5, <1>7, <1>8, <1>9 DEF OnlyMade
<1>11. AckedHere'
  <2>1. \A e \in acked \ excused : e \in EditsIn(session'[via[e]].file)
    BY <1>1, <1>6, <1>8 DEF OnlyMade, AckedHere, FileEdits
  <2>2. QED
    BY <1>7, <2>1 DEF AckedHere, FileEdits
<1>12. PassedOn'
  <2>1. ASSUME NEW e \in Made \ excused, NEW t \in Above(via[e]), Beyond(e, t)'
        PROVE  e \in FileEdits(t)'
    <3>1. t \in DOMAIN session
      BY <2>1 DEF Above
    <3>2. \/ e \in EditsIn(disk) \/ e \in ViewEdits(t)
          \/ \E x \in DOMAIN session' :
               t \notin Above(x)' /\ e \in FileEdits(x)' \cup ViewEdits(x)'
      BY <1>5, <1>7, <2>1, <3>1 DEF Beyond
    <3>3. ASSUME NEW x \in DOMAIN session, t \notin Above(x)',
                 e \in FileEdits(x)' \cup ViewEdits(x)'
          PROVE  Beyond(e, t)
      BY <1>3, <1>5, <3>3 DEF Beyond
    <3>4. ASSUME t \notin Above(n)', e \in FileEdits(n)' \cup ViewEdits(n)'
          PROVE  Beyond(e, t)
      <4>1. CASE parent = NoToken
        BY <1>5, <3>4, <4>1, SessionIsSound DEF Beyond, IInv
      <4>2. CASE parent # NoToken
        <5>1. parent \in DOMAIN session /\ e \in ViewEdits(parent)
          BY <1>5, <3>4, <4>2
        <5>2. Above(parent)' \subseteq Above(n)'
          <6>1. \A S \in SUBSET DOMAIN session' : n \in S /\ Rising(S)' => parent \in S
            BY <1>1, <4>2 DEF Rising, Nested
          <6>2. QED
            BY <6>1 DEF Above
        <5>3. t \notin Above(parent)
          BY <1>3, <3>4, <5>1, <5>2
        <5>4. QED
          BY <5>1, <5>3 DEF Beyond
      <4>3. QED
        BY <4>1, <4>2
    <3>5. Beyond(e, t)
      BY <1>1, <3>2, <3>3, <3>4 DEF Beyond
    <3>6. QED
      BY <1>5, <1>8, <2>1, <3>1, <3>5 DEF PassedOn
  <2>2. QED
    BY <1>3, <1>6, <1>7, <2>1 DEF PassedOn
<1>13. CarriedUp'
  <2>1. ASSUME NEW e \in Made \ excused, NEW p \in Above(via[e]),
               ~session'[p].dirty \/ Raced(p)', e \in FileEdits(p)'
        PROVE  e \in EditsIn(disk) \/ \E x \in Above(p) \ {p} : Carrier(x, e)'
    <3>1. p \in DOMAIN session
      BY <2>1 DEF Above
    <3>2. HandedOn(e, p)
      BY <1>1, <1>4, <1>5, <1>8, <2>1, <3>1 DEF CarriedUp
    <3>3. \A x \in DOMAIN session : Carrier(x, e) => Carrier(x, e)'
      BY <1>1, <1>4, <1>5 DEF Carrier
    <3>4. QED
      BY <3>2, <3>3 DEF HandedOn, Above
  <2>2. ASSUME NEW e \in Made \ excused, NEW p \in Above(via[e]),
               e \in EditsIn(disk) \/ \E x \in Above(p) \ {p} : Carrier(x, e)'
        PROVE  HandedOn(e, p)'
    BY <1>3, <1>7, <2>2 DEF HandedOn, Above
  <2>3. QED
    BY <1>3, <1>6, <1>7, <2>1, <2>2 DEF CarriedUp
<1>14. QED
  BY <1>10, <1>11, <1>12, <1>13 DEF EditsInv

\* Wherever a write ends, the edits it leaves in a session.
LEMMA WrittenEdits ==
  ASSUME NEW t, session[t] \in SessionType, NEW new, NEW outcome \in WriteOutcomes(t, new)
  PROVE  /\ \/ EditsIn(outcome.session.file) = EditsIn(Material(t))
               /\ outcome.session.dirty = session[t].dirty
            \/ EditsIn(outcome.session.file) = EditsIn(new) /\ outcome.session.dirty
         /\ \/ EditsIn(outcome.session.view) \subseteq ViewEdits(t) \cup EditsIn(Material(t))
            \/ /\ EditsIn(outcome.session.view) = EditsIn(new)
               /\ EditsIn(outcome.session.file) = EditsIn(new) /\ outcome.session.dirty
         /\ outcome.ok => EditsIn(outcome.session.file) = EditsIn(new) /\ outcome.session.dirty
         /\ outcome.session.parent = session[t].parent
<1> DEFINE fields(r) == DOMAIN r = {"level", "parent", "view", "file", "buffered", "dirty"}
<1>1. fields(session[t])
  BY DEF SessionType
<1>2. ASSUME NEW r, fields(r), NEW c
      PROVE  /\ fields(Reopened(r, c)) /\ Reopened(r, c).view = c /\ Reopened(r, c).file = c
             /\ Reopened(r, c).dirty = r.dirty /\ Reopened(r, c).parent = r.parent
  BY <1>2 DEF Reopened
<1>3. /\ fields(Materialized(t)) /\ Materialized(t).file = Material(t)
      /\ Materialized(t).dirty = session[t].dirty
      /\ Materialized(t).parent = session[t].parent
      /\ Materialized(t).view \in {session[t].view, Material(t)}
  BY <1>1, <1>2 DEF Materialized, Material
<1>4. LET r == Unrefreshed(t, new)
      IN fields(r) /\ r.file = new /\ r.dirty /\ r.parent = session[t].parent
         /\ r.view = Materialized(t).view
  BY <1>3 DEF Unrefreshed
<1>5. LET r == Reopened(Unrefreshed(t, new), new)
      IN r.file = new /\ r.view = new /\ r.dirty /\ r.parent = session[t].parent
  BY <1>2, <1>4
<1>6. outcome \in {[session |-> Materialized(t), ok |-> FALSE],
                   [session |-> Unrefreshed(t, new), ok |-> FALSE],
                   [session |-> Reopened(Unrefreshed(t, new), new), ok |-> TRUE]}
  BY DEF WriteOutcomes
<1>7. CASE outcome = [session |-> Materialized(t), ok |-> FALSE]
  BY <1>3, <1>7 DEF ViewEdits
<1>8. CASE outcome = [session |-> Unrefreshed(t, new), ok |-> FALSE]
  BY <1>3, <1>4, <1>8 DEF ViewEdits
<1>9. CASE outcome = [session |-> Reopened(Unrefreshed(t, new), new), ok |-> TRUE]
  BY <1>5, <1>9
<1>10. QED
  BY <1>6, <1>7, <1>8, <1>9

\* A change of a session's own data.
LEMMA ChangeKeepsEdits ==
  ASSUME IInv, EditsInv, NEW w \in Threads, call[w] # NoCall, call[w].stage = "found",
         NEW t \in DOMAIN session, NEW e \in Edits, NextEdit(e),
         NEW new, NEW outcome \in WriteOutcomes(t, new), Written(w, t, e, outcome),
         EditsIn(new) \subseteq EditsIn(Material(t)) \cup {e},
         excused \subseteq excused', EditsIn(Material(t)) \ EditsIn(new) \subseteq excused',
         Raced(t) => EditsIn(new) \ EditsIn(Material(t)) \subseteq excused',
         acked' \subseteq acked \cup {x \in {e} : x \in EditsIn(new) /\ outcome.ok}
  PROVE  EditsInv'
<1> DEFINE old == EditsIn(Material(t))
           N == EditsIn(new)
<1>1. /\ session \in Seq(SessionType) /\ session[t] \in SessionType
      /\ via \in [Edits -> DOMAIN session \cup {NoToken}]
      /\ t # NoToken /\ NoToken \notin DOMAIN session
  BY SessionIsSound DEF IInv, SessionsSound, CallsOK, Sound
<1>2. /\ session' = [session EXCEPT ![t] = outcome.session] /\ DOMAIN session' = DOMAIN session
      /\ via' = [via EXCEPT ![e] = t] /\ disk' = disk /\ registered' = registered /\ Return(w)
  BY <1>1 DEF Written
<1>3. \A x \in DOMAIN session : Raced(x)' <=> Raced(x)
  BY <1>2, RacedAfter
<1>4. Writes(t, NoToken, old, N, {e})
  BY <1>1, <1>2, <1>3, WrittenEdits DEF Writes, Changed, Untouched, FileEdits, ViewEdits
<1>5. Made' = Made \cup {e} /\ {e} \cap Made = {}
  BY <1>1, <1>2 DEF Made, NextEdit
<1>6. /\ \A x \in Made : via'[x] = via[x]
      /\ via'[e] = t
  BY <1>1, <1>2, <1>5 DEF Made
<1>7. acked' \subseteq acked \cup {x \in {e} : x \in N /\ Changed(t, N)}
  BY <1>1, <1>2, WrittenEdits DEF Changed, FileEdits
<1>8. Keeps(t, NoToken, old, N, {e})
  BY <1>5, <1>6, <1>7 DEF Keeps
<1>9. QED
  BY <1>4, <1>8, WriteKeepsEdits

\* The commit of a nested session is a write to its parent.
LEMMA CommitKeepsEdits ==
  ASSUME IInv, EditsInv, NEW w \in Threads, CommitToParent(w) PROVE EditsInv'
<1>1. PICK t, p : t = call[w].token /\ p = session[t].parent
  OBVIOUS
<1>2. PICK new : new = WithInner(Material(p), session[t].file, session[t].level)
  OBVIOUS
<1>3. PICK old, N : old = EditsIn(Material(p)) /\ N = EditsIn(new)
  OBVIOUS
<1>4. /\ call[w] # NoCall /\ call[w].stage = "found" /\ session[t].dirty /\ Nested(t)
  BY <1>1 DEF CommitToParent, Doing, NoCall
<1>5. t \in DOMAIN session /\ t # NoToken
  BY <1>1, <1>4, CallHasSession, SessionIsSound DEF IInv
<1>6. p \in DOMAIN session /\ t \notin Above(p) /\ t # p
  BY <1>1, <1>4, <1>5, AboveNested, AboveItself, ParentIsAbove
<1>7. /\ IsContent(session[t].file, session[t].level) /\ session[t].level \in Int
      /\ session[t] \in SessionType /\ session[p] \in SessionType
      /\ session \in Seq(SessionType)
  BY <1>4, <1>5, <1>6, SessionIsSound, BoundsAssumption
     DEF IInv, Sound, SessionsSound, Levels
<1>8. FileEdits(t) \subseteq N /\ N \subseteq old \cup FileEdits(t)
  <2>1. \A k \in DOMAIN session[t].file : k \in Int /\ k >= session[t].level
    BY <1>7, BoundsAssumption DEF IsContent, Levels
  <2>2. QED
    BY <1>2, <1>3, <1>7, <2>1, WithInnerEdits DEF FileEdits
<1>9. PICK outcome \in WriteOutcomes(p, new) :
        /\ session' = [session EXCEPT ![p] = outcome.session, ![t].dirty = ~outcome.ok]
        /\ IF outcome.ok THEN Committed(w) ELSE Return(w)
  BY <1>1, <1>2 DEF CommitToParent
<1>10. /\ excused' = excused \cup Siblings(t, Material(p), new) \cup RacedEdits(p, new)
       /\ UNCHANGED <<disk, registered, via, acked>>
  BY <1>1, <1>2 DEF CommitToParent
<1>11. /\ DOMAIN session' = DOMAIN session /\ session'[p] = outcome.session
       /\ \A x \in DOMAIN session \ {p, t} : session'[x] = session[x]
       /\ session'[t] = [session[t] EXCEPT !.dirty = ~outcome.ok]
  <2> DEFINE middle == [session EXCEPT ![p] = outcome.session]
  <2>1. session' = [middle EXCEPT ![t] = [middle[t] EXCEPT !.dirty = ~outcome.ok]]
    BY <1>9
  <2>2. DOMAIN middle = DOMAIN session /\ middle[t] = session[t] /\ middle[p] = outcome.session
        /\ \A x \in DOMAIN session \ {p} : middle[x] = session[x]
    BY <1>5, <1>6
  <2> HIDE DEF middle
  <2>3. QED
    BY <1>5, <1>6, <2>1, <2>2
<1>12. /\ session'[t].parent = p /\ session'[t].file = session[t].file
       /\ session'[t].view = session[t].view /\ session'[t].dirty = ~outcome.ok
  BY <1>1, <1>7, <1>11 DEF SessionType
<1>13. /\ \A x \in DOMAIN session \ {t} : Raced(x)' <=> Raced(x)
       /\ ~outcome.ok => (Raced(t)' <=> Raced(t))
  BY <1>1, <1>4, <1>9, <1>10, RacedAfter
<1>14. Writes(p, t, old, N, {})
  <2>1. /\ Changed(p, N) <=> EditsIn(outcome.session.file) = N /\ outcome.session.dirty
        /\ outcome.ok => EditsIn(outcome.session.file) = N /\ outcome.session.dirty
        /\ outcome.session.parent = session[p].parent
    BY <1>3, <1>7, <1>11, WrittenEdits DEF Changed, FileEdits
  <2>2. FileEdits(t)' = FileEdits(t) /\ ViewEdits(t)' = ViewEdits(t)
    BY <1>12 DEF FileEdits, ViewEdits
  <2>3. Untouched(t) \/ Changed(p, N)
    BY <1>4, <1>12, <1>13, <2>1 DEF Untouched
  <2>4. ASSUME NEW x \in DOMAIN session, x # p, x # t
        PROVE  FileEdits(x)' = FileEdits(x) /\ ViewEdits(x)' = ViewEdits(x) /\ Untouched(x)
    BY <1>11, <1>13, <2>4 DEF FileEdits, ViewEdits, Untouched
  <2>5. \A x \in DOMAIN session : session'[x].parent = session[x].parent
    BY <1>1, <1>11, <1>12, <2>1
  <2>6. /\ FileEdits(p)' = EditsIn(outcome.session.file)
        /\ ViewEdits(p)' = EditsIn(outcome.session.view)
        /\ session'[p].dirty = outcome.session.dirty
    BY <1>11 DEF FileEdits, ViewEdits
  <2>7. /\ (FileEdits(p)' = old /\ session'[p].dirty = session[p].dirty) \/ Changed(p, N)
        /\ ViewEdits(p)' \subseteq ViewEdits(p) \cup old \/ (ViewEdits(p)' = N /\ Changed(p, N))
    BY <1>3, <1>7, <2>1, <2>6, WrittenEdits
  <2>8. QED
    BY <1>1, <1>6, <1>10, <1>11, <1>13, <2>2, <2>3, <2>4, <2>5, <2>7 DEF Writes
<1>15. Keeps(p, t, old, N, {})
  <2>1. Made' = Made /\ acked' = acked /\ \A e \in Made : via'[e] = via[e]
    BY <1>10 DEF Made
  <2>2. \A e \in (old \ N) \cap Made : e \notin excused' => t \in Above(via[e])
    BY <1>3, <1>10 DEF Siblings, Made
  <2>3. Raced(p) => N \ old \subseteq excused'
    BY <1>3, <1>10 DEF RacedEdits
  <2>4. QED
    BY <1>1, <1>3, <1>4, <1>5, <1>8, <1>10, <2>1, <2>2, <2>3 DEF Keeps
<1>16. QED
  BY <1>6, <1>14, <1>15, WriteKeepsEdits

\* A root session's commit puts its file on the disk.
LEMMA RootCommitKeepsEdits ==
  ASSUME IInv, EditsInv, NEW w \in Threads, CommitToRoot(w) PROVE EditsInv'
<1>1. PICK t : t = call[w].token
  OBVIOUS
<1>2. /\ call[w] # NoCall /\ call[w].stage = "found" /\ session[t].dirty /\ ~Nested(t)
  BY <1>1 DEF CommitToRoot, Doing, NoCall
<1>3. /\ t \in DOMAIN session /\ session[t] \in SessionType /\ session \in Seq(SessionType)
  BY <1>1, <1>2, CallHasSession, SessionIsSound DEF IInv, Sound, SessionsSound
<1>4. /\ disk' = session[t].file /\ session' = [session EXCEPT ![t].dirty = FALSE]
      /\ Committed(w) /\ excused' = excused \cup Siblings(t, disk, session[t].file)
      /\ UNCHANGED <<registered, faults, via, acked>>
  BY <1>1 DEF CommitToRoot
<1>5. /\ DOMAIN session' = DOMAIN session /\ ~session'[t].dirty
      /\ \A x \in DOMAIN session \ {t} : session'[x] = session[x]
      /\ \A x \in DOMAIN session : /\ session'[x].parent = session[x].parent
                                   /\ session'[x].file = session[x].file
                                   /\ session'[x].view = session[x].view
  BY <1>3, <1>4 DEF SessionType
<1>6. \A s : Above(s)' = Above(s)
  BY <1>5, AboveStays
<1>7. \A x \in DOMAIN session : FileEdits(x)' = FileEdits(x) /\ ViewEdits(x)' = ViewEdits(x)
  BY <1>5 DEF FileEdits, ViewEdits
<1>8. \A x \in DOMAIN session \ {t} : Raced(x)' <=> Raced(x)
  BY <1>1, <1>2, <1>4, RacedAfter
<1>9. /\ OnlyMade /\ PassedOn /\ CarriedUp /\ AckedHere
      /\ Made' = Made /\ EditsIn(disk') = FileEdits(t)
  BY <1>4 DEF EditsInv, Made, FileEdits
<1>10. OnlyMade' /\ AckedHere'
  BY <1>3, <1>4, <1>5, <1>7, <1>9, MadeHere DEF OnlyMade, AckedHere, FileEdits
<1>11. ASSUME NEW e \in Made, e \notin excused', e \in EditsIn(disk)
       PROVE  e \in FileEdits(t)
  <2>1. e \in FileEdits(t) \/ t \in Above(via[e])
    BY <1>4, <1>11 DEF Siblings, Made, FileEdits
  <2>2. Beyond(e, t) /\ e \notin excused
    BY <1>4, <1>11 DEF Beyond
  <2>3. QED
    BY <1>9, <2>1, <2>2 DEF PassedOn
<1>12. \A e \in Made : Above(via[e]) \subseteq DOMAIN session
  BY MadeHere, AboveItself
<1>13. PassedOn'
  <2>1. ASSUME NEW e \in Made, e \notin excused', NEW s \in Above(via[e]), Beyond(e, s)'
        PROVE  e \in FileEdits(s)
    <3>1. s \in DOMAIN session /\ e \notin excused
      BY <1>4, <2>1 DEF Above
    <3>2. e \in FileEdits(t) \/ Beyond(e, s)
      BY <1>5, <1>6, <1>7, <1>9, <2>1, <3>1 DEF Beyond
    <3>3. s = t \/ s \notin Above(t)
      BY <1>2, <1>3, AboveRoot
    <3>4. QED
      BY <1>3, <1>9, <2>1, <3>1, <3>2, <3>3 DEF PassedOn, Beyond
  <2>2. QED
    BY <1>4, <1>6, <1>7, <1>9, <1>12, <2>1 DEF PassedOn
<1>14. CarriedUp'
  <2>1. ASSUME NEW e \in Made, e \notin excused', NEW q \in Above(via[e]),
               ~session'[q].dirty \/ Raced(q)', e \in FileEdits(q)
        PROVE  e \in FileEdits(t) \/ \E x \in Above(q) \ {q} : Carrier(x, e)'
    <3>1. q \in DOMAIN session /\ e \notin excused
      BY <1>4, <2>1 DEF Above
    <3>2. CASE q = t
      BY <2>1, <3>2
    <3>3. CASE q # t
      <4>1. HandedOn(e, q)
        BY <1>5, <1>8, <1>9, <2>1, <3>1, <3>3 DEF CarriedUp
      <4>2. \A x \in DOMAIN session : Carrier(x, e) => x = t \/ Carrier(x, e)'
        BY <1>5, <1>7, <1>8 DEF Carrier
      <4>3. QED
        BY <1>11, <2>1, <4>1, <4>2 DEF HandedOn, Carrier, Above
    <3>4. QED
      BY <3>2, <3>3
  <2>2. QED
    BY <1>4, <1>6, <1>7, <1>9, <1>12, <2>1 DEF CarriedUp, HandedOn
<1>15. QED
  BY <1>10, <1>13, <1>14 DEF EditsInv

\* Only a close commits.
OnlyCloses == \A w \in Threads : call[w].stage = "committed" => call[w].op = "close"

LEMMA StepOnlyCloses ==
  ASSUME IInv, OnlyCloses, [Next]_vars PROVE OnlyCloses'
<1>1. call \in [Threads -> CallType \cup {NoCall}] /\ NoCall.stage # "committed"
  BY DEF IInv, CallsOK, NoCall
<1>2. ASSUME NEW w \in Threads, Return(w) PROVE OnlyCloses'
  BY <1>1, <1>2 DEF Return, OnlyCloses
<1>3. ASSUME NEW w \in Threads, Committed(w), Doing(w, "close") PROVE OnlyCloses'
  BY <1>1, <1>3 DEF Committed, Doing, OnlyCloses
<1>4. ASSUME NEW w \in Threads, NEW op, NEW t, Begin(w, op, t) PROVE OnlyCloses'
  BY <1>1, <1>4 DEF Begin, Found, OnlyCloses
<1>5. ASSUME NEW w \in Threads, Works(w) \/ OpenRoot(w) PROVE OnlyCloses'
  <2>1. OpenRoot(w) \/ OpenNested(w) \/ Refuse(w) \/ Fail(w) \/ Erase(w) => Return(w)
    BY DEF OpenRoot, OpenNested, Refuse, Fail, Erase, Register
  <2>2. Add(w) \/ Drop(w) => Return(w)
    BY DEF Add, Drop, Written
  <2>3. CloseClean(w) \/ CommitToRoot(w) => Committed(w) /\ Doing(w, "close")
    BY DEF CloseClean, CommitToRoot
  <2>4. CommitToParent(w) => Doing(w, "close") /\ (Committed(w) \/ Return(w))
    BY DEF CommitToParent
  <2>5. QED
    BY <1>2, <1>3, <1>5, <2>1, <2>2, <2>3, <2>4 DEF Works
<1>6. CASE UNCHANGED vars
  BY <1>6 DEF vars, OnlyCloses
<1>7. QED
  BY <1>4, <1>5, <1>6 DEF Next, Begins

\* One step for each operation.
LEMMA WorkKeepsEdits ==
  ASSUME IInv, OnlyCloses, EditsInv, NEW w \in Threads, Works(w) PROVE EditsInv'
<1>1. PICK t : t = call[w].token
  OBVIOUS
<1>2. call[w] # NoCall => call[w] \in CallType /\ t \in DOMAIN session
  BY <1>1, CallHasSession DEF IInv
<1>3. NoCall.stage # "found" /\ NoCall.stage # "committed"
  BY DEF NoCall
<1>4. CASE OpenNested(w)
  <2>1. /\ call[w] # NoCall /\ call[w].stage = "found" /\ EntryFound(t)
        /\ UNCHANGED <<disk, faults, history>>
    BY <1>1, <1>3, <1>4 DEF OpenNested, Doing
  <2>2. PICK l, inner : l = session[t].level + 1 /\ inner = Inner(session[t].view, l)
    OBVIOUS
  <2>3. PICK file \in {NoFile, inner}, buffered \in BOOLEAN :
          Register(w, Opened(l, t, inner, file, buffered))
    BY <1>1, <1>4, <2>2 DEF OpenNested
  <2>4. PICK new : new = Opened(l, t, inner, file, buffered)
    OBVIOUS
  <2>5. new.parent = t /\ ~new.dirty /\ new.file \in {NoFile, inner} /\ new.view = inner
    BY <2>4 DEF Opened
  <2>6. EditsIn(new.file) \cup EditsIn(new.view) \subseteq ViewEdits(t)
    BY <2>2, <2>5, InnerEdits, NoEditInNoFile DEF ViewEdits
  <2>7. QED
    BY <1>2, <2>1, <2>3, <2>4, <2>5, <2>6, RegisterKeepsEdits
<1>5. CASE Refuse(w) \/ Fail(w)
  <2>1. /\ call[w].stage = "found" /\ Return(w)
        /\ UNCHANGED <<disk, session, registered, history>>
    BY <1>5 DEF Refuse, Fail
  <2>2. \A x : Raced(x)' <=> Raced(x)
    BY <2>1, RacedAfter
  <2>3. QED
    BY <2>1, <2>2, CallKeepsEdits
<1>6. CASE Add(w)
  <2>1. call[w] # NoCall /\ call[w].stage = "found" /\ CanMaterialize(t)
    BY <1>1, <1>3, <1>6 DEF Add, Doing, Servable
  <2>2. PICK e \in Edits :
          /\ NextEdit(e)
          /\ LET new == WithEdit(Material(t), session[t].level, e)
             IN /\ \E outcome \in WriteOutcomes(t, new) :
                     /\ Written(w, t, e, outcome)
                     /\ acked' = IF outcome.ok THEN acked \cup {e} ELSE acked
                /\ excused' = excused \cup RacedEdits(t, new)
    BY <1>1, <1>6 DEF Add
  <2>3. PICK new : new = WithEdit(Material(t), session[t].level, e)
    OBVIOUS
  <2>4. PICK outcome \in WriteOutcomes(t, new) :
          /\ Written(w, t, e, outcome)
          /\ acked' = IF outcome.ok THEN acked \cup {e} ELSE acked
    BY <2>2, <2>3
  <2>5. IsContent(Material(t), session[t].level)
    BY <1>2, <2>1, MaterialContent DEF IInv
  <2>6. /\ EditsIn(Material(t)) \subseteq EditsIn(new)
        /\ EditsIn(new) \subseteq EditsIn(Material(t)) \cup {e} /\ e \in EditsIn(new)
    BY <2>3, <2>5, ContentIsTyped, WithEditEdits
  <2>7. /\ excused \subseteq excused'
        /\ Raced(t) => EditsIn(new) \ EditsIn(Material(t)) \subseteq excused'
    BY <2>2, <2>3 DEF RacedEdits
  <2>8. acked' \subseteq acked \cup {x \in {e} : x \in EditsIn(new) /\ outcome.ok}
    BY <2>4, <2>6
  <2>9. QED
    BY <1>2, <2>1, <2>2, <2>4, <2>6, <2>7, <2>8, ChangeKeepsEdits
<1>7. CASE Drop(w)
  <2>1. call[w] # NoCall /\ call[w].stage = "found" /\ CanMaterialize(t)
    BY <1>1, <1>3, <1>7 DEF Drop, Doing, Servable
  <2>2. PICK new : new = WithoutInner(Material(t), session[t].level)
    OBVIOUS
  <2>3. PICK e \in Edits, outcome \in WriteOutcomes(t, new) :
          NextEdit(e) /\ Written(w, t, e, outcome)
    BY <1>1, <1>7, <2>2 DEF Drop
  <2>4. /\ excused' = excused \cup (EditsIn(Material(t)) \ EditsIn(new))
        /\ acked' = acked
    BY <1>1, <1>7, <2>2 DEF Drop
  <2>5. EditsIn(new) \subseteq EditsIn(Material(t))
    <3>1. IsContent(Material(t), session[t].level)
      BY <1>2, <2>1, MaterialContent DEF IInv
    <3>2. QED
      BY <2>2, <3>1, ContentIsTyped, WithoutInnerEdits
  <2>6. QED
    BY <1>2, <2>1, <2>3, <2>4, <2>5, ChangeKeepsEdits
<1>8. CASE CloseClean(w)
  <2>1. /\ call[w].stage = "found" /\ ~session[t].dirty /\ Committed(w)
        /\ UNCHANGED <<disk, session, registered, history>>
    BY <1>1, <1>8 DEF CloseClean, Doing
  <2>2. \A x \in DOMAIN session : session[x].dirty => (Raced(x)' <=> Raced(x))
    BY <1>1, <2>1, RacedAfter
  <2>3. QED
    BY <2>1, <2>2, CallKeepsEdits
<1>9. CASE CommitToParent(w) \/ CommitToRoot(w)
  BY <1>9, CommitKeepsEdits, RootCommitKeepsEdits
<1>10. CASE Erase(w)
  <2>1. /\ call[w].stage = "committed" /\ registered' = registered \ {t} /\ Return(w)
        /\ UNCHANGED <<disk, session, history>> /\ call[w].op = "close"
    BY <1>1, <1>10 DEF Erase, OnlyCloses
  <2>2. /\ call' = [call EXCEPT ![w] = NoCall] /\ call \in [Threads -> CallType \cup {NoCall}]
        /\ NoCall.op # "close"
    BY <2>1 DEF Return, NoCall, IInv, CallsOK
  <2>3. \A v \in Threads : call'[v] = IF v = w THEN NoCall ELSE call[v]
    BY <2>2
  <2>4. \A x : Raced(x)' <=> Raced(x)
    BY <1>1, <2>1, <2>2, <2>3 DEF Raced
  <2>5. QED
    BY <2>1, <2>4, CallKeepsEdits
<1>11. QED
  BY <1>4, <1>5, <1>6, <1>7, <1>8, <1>9, <1>10 DEF Works

LEMMA InitHasEdits ==
  ASSUME Init PROVE EditsInv
<1>1. Made = {} /\ DOMAIN session = {} /\ acked = {}
  BY DEF Init, Made
<1>2. EditsIn(disk) = {}
  BY EditIn DEF Init, NoEdits
<1>3. QED
  BY <1>1, <1>2 DEF EditsInv, OnlyMade, PassedOn, CarriedUp, AckedHere

LEMMA StepKeepsEdits ==
  ASSUME IInv, OnlyCloses, EditsInv, [Next]_vars PROVE EditsInv'
<1>1. ASSUME NEW w \in Threads, OpenRoot(w) PROVE EditsInv'
  <2>1. PICK new : new = Opened(0, NoToken, disk, NoFile, FALSE)
    OBVIOUS
  <2>2. /\ call[w].stage # "committed" /\ Register(w, new) /\ UNCHANGED <<disk, history>>
    <3>1. call[w] = NoCall /\ NoCall.stage # "committed"
      BY <1>1 DEF OpenRoot, Idle, NoCall
    <3>2. Register(w, Opened(0, NoToken, disk, NoFile, FALSE)) /\ UNCHANGED <<disk, faults, history>>
      BY <1>1 DEF OpenRoot
    <3>3. QED
      BY <2>1, <3>1, <3>2
  <2>3. new.parent = NoToken /\ ~new.dirty /\ new.file = NoFile /\ new.view = disk
    BY <2>1 DEF Opened
  <2>4. QED
    BY <2>2, <2>3, NoEditInNoFile, RegisterKeepsEdits
<1>2. ASSUME NEW w \in Threads, Begins(w) PROVE EditsInv'
  <2>1. PICK op, t : Begin(w, op, t)
    BY <1>2 DEF Begins
  <2>2. /\ call[w] = NoCall /\ call' = [call EXCEPT ![w] = Found(op, t)] /\ registered' = registered
        /\ call \in [Threads -> CallType \cup {NoCall}]
    BY <2>1 DEF Begin, Idle, IInv, CallsOK
  <2>3. NoCall.stage # "committed" /\ Found(op, t).stage # "committed"
    BY DEF NoCall, Found
  <2>4. \A v \in Threads : call'[v] = call[v] \/ (call[v].stage # "committed" /\ call'[v].stage # "committed")
    BY <2>2, <2>3
  <2>5. \A x : Raced(x)' <=> Raced(x)
    BY <2>2, <2>4 DEF Raced
  <2>6. QED
    BY <2>1, <2>5, CallKeepsEdits DEF Begin
<1>3. CASE UNCHANGED vars
  <2>1. \A x : Raced(x)' <=> Raced(x)
    BY <1>3 DEF vars, Raced
  <2>2. UNCHANGED <<disk, session, history>>
    BY <1>3 DEF vars, history
  <2>3. QED
    BY <2>1, <2>2, CallKeepsEdits
<1>4. QED
  BY <1>1, <1>2, <1>3, WorkKeepsEdits DEF Next

LEMMA EditsInvariant == Spec => []EditsInv
<1>1. Init => EditsInv /\ OnlyCloses
  BY InitHasEdits DEF Init, OnlyCloses, NoCall
<1>2. IInv /\ (EditsInv /\ OnlyCloses) /\ [Next]_vars => (EditsInv /\ OnlyCloses)'
  BY StepKeepsEdits, StepOnlyCloses
<1>3. QED
  BY <1>1, <1>2, Invariant, PTL DEF Spec

\* No edit that was reported as made is lost: it is on the disk, or in a session
\* that is open and will commit it (session_registry.cpp, writeback.cpp).
THEOREM EditsAreKept == Spec => []EditsKept
<1>1. ASSUME IInv, EditsInv PROVE EditsKept
  <2>1. ASSUME NEW e \in acked \ excused
        PROVE  \/ e \in EditsIn(disk)
               \/ \E t \in registered : session[t].dirty /\ e \in EditsIn(session[t].file)
    <3>1. PICK v : v = via[e]
      OBVIOUS
    <3>2. e \in Made /\ v \in DOMAIN session /\ v \in Above(v) /\ e \in FileEdits(v)
      BY <1>1, <2>1, <3>1, MadeHere, AboveItself DEF EditsInv, OnlyMade, AckedHere
    <3>3. Carrier(v, e) \/ HandedOn(e, v)
      BY <1>1, <2>1, <3>1, <3>2 DEF EditsInv, CarriedUp, Carrier
    <3>4. \A x : Carrier(x, e) => x \in registered /\ session[x].dirty /\ e \in EditsIn(session[x].file)
      BY DEF Carrier, Raced, FileEdits
    <3>5. QED
      BY <3>3, <3>4 DEF HandedOn
  <2>2. QED
    BY <2>1 DEF EditsKept
<1>2. QED
  BY <1>1, Invariant, EditsInvariant, PTL

-----------------------------------------------------------------------------
(* The panels.                                                             *)

LEMMA CallStarts ==
  ASSUME IInv, NEW w \in Threads, NEW op \in {"open", "add", "drop", "close"}, NEW t,
         Begin(w, op, t)
  PROVE  Next
<1>1. t \in DOMAIN session
  BY DEF Begin, IInv, CallsOK
<1>2. QED
  BY <1>1 DEF Next, Begins

\* One step for each action of the panels and of the closer.
LEMMA PanelsActOnRegistry ==
  ASSUME IInv, [PanelsNext]_allVars PROVE [Next]_vars
<1>1. worker \in Threads /\ closer \in Threads
  BY ThreadsAssumption
<1>2. ASSUME UNCHANGED registry PROVE [Next]_vars
  BY <1>2 DEF registry, vars, history
<1>3. ASSUME NEW w \in Threads, Works(w) PROVE [Next]_vars
  BY <1>3 DEF Next
<1>4. ASSUME NEW p \in Panels, Starts(p) PROVE [Next]_vars
  BY <1>2, <1>4 DEF Starts, Leave, Enter, Nest, Up, Bind, AddTo, Start
<1>5. CASE StartClose
  BY <1>1, <1>2, <1>5, CallStarts DEF StartClose
<1>6. CASE StepClose
  BY <1>1, <1>3, <1>6 DEF StepClose, Works
<1>7. CASE Closed \/ Loaded \/ NotLoaded \/ Shutdown
  BY <1>2, <1>7 DEF Closed, Loaded, NotLoaded, Shutdown
<1>8. CASE OpenRootOf
  BY <1>1, <1>2, <1>8 DEF OpenRootOf, Next
<1>9. CASE OpenNestedOf
  BY <1>1, <1>2, <1>3, <1>9, CallStarts DEF OpenNestedOf, Works
<1>10. CASE Change
  BY <1>1, <1>2, <1>3, <1>10, CallStarts DEF Change, Works
<1>11. CASE CloserStep
  BY <1>1, <1>2, <1>3, <1>11, CallStarts DEF CloserStep, Works
<1>12. CASE UNCHANGED allVars
  BY <1>2, <1>12 DEF allVars
<1>13. QED
  BY <1>4, <1>5, <1>6, <1>7, <1>8, <1>9, <1>10, <1>11, <1>12 DEF PanelsNext

LEMMA PanelsInvariant == PanelsSpec => []IInv
<1>1. PanelsInit => IInv
  BY InitHasInvariant DEF PanelsInit
<1>2. IInv /\ [PanelsNext]_allVars => IInv'
  BY PanelsActOnRegistry, StepKeepsInvariant
<1>3. QED
  BY <1>1, <1>2, PTL DEF PanelsSpec

\* The file manager with its two panels and the closer implements the registry's
\* specification: it calls the backend as threads may that call it in any order.
THEOREM PanelsUseRegistry == PanelsSpec => Spec
<1>1. PanelsInit => Init
  BY DEF PanelsInit
<1>2. IInv /\ [PanelsNext]_allVars => [Next]_vars
  BY PanelsActOnRegistry
<1>3. QED
  BY <1>1, <1>2, PanelsInvariant, PTL DEF PanelsSpec, Spec

\* So no close of a panel, and none of the window's closer, meets a dirty
\* session without a file.
THEOREM PanelsKeepFiles == PanelsSpec => []DirtyHasFile
BY PanelsUseRegistry, DirtySessionsHaveFiles, PTL

\* Nor is an edit lost that a panel reported as made, whatever the panels and
\* the closer do next.
THEOREM PanelsKeepEdits == PanelsSpec => []EditsKept
BY PanelsUseRegistry, EditsAreKept, PTL


-----------------------------------------------------------------------------
(* What the panels hold.                                                   *)
(*                                                                         *)
(* A task takes views apart while it runs, and puts them back if it fails. *)
(* The invariant speaks of rest, the views that the panels had when the    *)
(* task started: between tasks these are what the panels show, and every   *)
(* other set of sessions it needs (those that the task takes out, the one  *)
(* it has opened, those it still has to close) is a part of them.          *)

\* Views of sessions that were opened, and the sessions of a view.
Views == [in : BOOLEAN, current : DOMAIN session \cup {NoToken}, stack : Seq(DOMAIN session)]
HeldIn(v) == ({v.current} \cup ToSet(v.stack)) \ {NoToken}

\* A view between two tasks: its frames are of the levels that are their places, and
\* the session shown is one further in.
Regular(v) ==
  /\ v \in Views
  /\ ~v.in => v = Outside
  /\ v.current = NoToken => v.stack = <<>>
  /\ v.current # NoToken => session[v.current].level = Len(v.stack)
  /\ \A i \in 1..Len(v.stack) : session[v.stack[i]].level = i - 1

\* Each frame is the parent of the next, as long as no reload put another session there.
Chained(v) ==
  /\ v.stack # <<>> => session[v.current].parent = v.stack[Len(v.stack)]
  /\ \A i \in 2..Len(v.stack) : session[v.stack[i]].parent = v.stack[i - 1]

\* The tasks that give the view of their panel up, and the other panel.
Giving == {"leave", "root", "prefix", "bind"}
Others == Panels \ {task.panel}

\* What the panels show of the views that they had between the tasks: going up has
\* taken the last frame off, and nesting has pushed the session shown.
Shows(rest) ==
  /\ DOMAIN rest = Panels /\ panel \in [Panels -> Views]
  /\ \A q \in Panels :
       IF task.panel = q /\ task.kind = "up"
       THEN /\ panel[q].in = rest[q].in /\ panel[q].current = rest[q].current
            /\ rest[q].stack = Append(panel[q].stack, task.view.current)
       ELSE IF task.panel = q /\ task.kind = "nest" /\ task.stage = "loading"
       THEN /\ panel[q].in = rest[q].in /\ panel[q].current = rest[q].current
            /\ panel[q].stack = Append(rest[q].stack, rest[q].current)
       ELSE panel[q] = rest[q]

Rests(rest) ==
  \A q \in Panels : Regular(rest[q]) /\ (displaced = {} => Chained(rest[q]))

\* What a task is, by its kind and its stage, and what its view is one of.
TaskShape ==
  [kind : {"none", "root", "nest", "up", "leave", "prefix", "bind", "add", "discard"},
   panel : Panels, stage : {"closing", "opening", "loading"},
   todo : SUBSET DOMAIN session, view : Views]

Shaped(rest) ==
  LET mine == rest[task.panel]
      v == task.view
  IN /\ task \in TaskShape
     /\ task.kind = "none" => task = NoTask
     /\ task.kind \in Giving /\ task.stage # "closing" => mine = Outside
     /\ task.kind = "leave" => task.stage = "closing"
     /\ task.kind \in {"root", "prefix"} =>
          /\ v.in /\ v.stack = <<>>
          /\ ~(task.kind = "root" /\ task.stage = "loading") => v.current = NoToken
     /\ task.kind = "bind" =>
          /\ Regular(v) /\ (displaced = {} => Chained(v)) /\ v.in /\ v.current # NoToken
          /\ \A q \in Others : HeldIn(v) \subseteq HeldIn(rest[q])
     /\ task.kind \in {"nest", "add", "up"} => mine.in /\ mine.current # NoToken
     /\ task.kind = "nest" => task.stage \in {"opening", "loading"}
     /\ task.kind \in {"nest", "add"} /\ task.stage = "opening" => v = mine
     /\ task.kind = "add" => task.stage = "opening"
     /\ task.kind = "up" => v.current # NoToken
     /\ task.kind = "discard" => task.stage = "closing"
     /\ task.kind \in {"none", "nest", "add"} \/ task.stage # "closing" => task.todo = {}
     /\ task.stage = "opening" => task.kind \in {"root", "nest", "add"}

\* What the task takes out of its panel, and the session it has opened.
Leaving(rest) ==
  CASE task.kind \in Giving -> HeldIn(rest[task.panel])
    [] task.kind = "up" -> {rest[task.panel].current}
    [] OTHER -> {}
New ==
  CASE task.kind \in {"root", "nest"} /\ task.stage = "loading" -> {task.view.current}
    [] task.kind = "discard" -> task.todo
    [] OTHER -> {}

\* It closes what it takes out and the other panel has not, and that only.
Owned(rest) ==
  /\ task.todo \subseteq Leaving(rest) \cup New
  /\ \A t \in task.todo, q \in Others : t \notin HeldIn(rest[q])
  /\ \A t \in Leaving(rest) \cap registered :
       t \in task.todo \/ \E q \in Others : t \in HeldIn(rest[q])

\* What it has opened is in no panel yet, and has no changes.
Unseen(rest) ==
  /\ \A t, u \in New : t = u
  /\ \A t \in New :
       /\ t \in DOMAIN session /\ ~session[t].dirty
       /\ \A q \in Panels : t \notin HeldIn(rest[q])
       /\ task.kind = "root" => session[t].parent = NoToken
       /\ task.kind = "nest" => session[t].parent = rest[task.panel].current

\* A panel holds open sessions, unless one of its tasks failed halfway.
Kept(rest) ==
  \A q \in Panels \ torn :
    HeldIn(rest[q]) \ (IF q = task.panel THEN Leaving(rest) ELSE {}) \subseteq registered

\* HeldSessions and ParentsStayOpen, while a task runs.
Covered(rest) ==
  displaced = {} => \A t \in registered : t \in New \/ \E q \in Panels : t \in HeldIn(rest[q])

Parents ==
  displaced = {} =>
    \A t \in registered : session[t].parent = NoToken \/ session[t].parent \in registered

\* The calls of the task.
Working ==
  /\ closing = <<>> /\ call[closer] = NoCall
  /\ call[worker] # NoCall =>
       /\ call[worker].op \in {"open", "add", "close"}
       /\ call[worker].op = "close" =>
            /\ task.kind \in Giving \cup {"up", "discard"} /\ task.stage = "closing"
            /\ call[worker].token \in Innermost(task.todo)
       /\ call[worker].op # "close" =>
            /\ call[worker].stage = "found" /\ task.stage = "opening"
            /\ task.kind = IF call[worker].op = "open" THEN "nest" ELSE "add"
            /\ call[worker].token = task.view.current /\ call[worker].token \in registered

Holding(rest) ==
  /\ Shows(rest) /\ Rests(rest) /\ Shaped(rest) /\ Owned(rest) /\ Unseen(rest)
  /\ Kept(rest) /\ Covered(rest) /\ Parents /\ Working

\* The closer has all there was.
Ending ==
  /\ task = [NoTask EXCEPT !.kind = "shutdown"] /\ call[worker] = NoCall
  /\ panel = [p \in Panels |-> Outside]

PanelsInv == Ending \/ \E rest : Holding(rest)

-----------------------------------------------------------------------------
(* What the invariant says of views.                                       *)

\* Steps add sessions, and leave those there are at their places.
SessionsStay ==
  /\ DOMAIN session \subseteq DOMAIN session'
  /\ \A t \in DOMAIN session :
       session'[t].level = session[t].level /\ session'[t].parent = session[t].parent

LEMMA OutsideIsRegular == Regular(Outside) /\ Chained(Outside) /\ HeldIn(Outside) = {}
BY DEF Regular, Chained, HeldIn, Outside, Views, ToSet

LEMMA ViewsGrow ==
  ASSUME SessionsStay, NEW v \in Views
  PROVE  v \in Views'
<1>1. v.stack \in Seq(DOMAIN session')
  <2>1. v.stack \in Seq(DOMAIN session) /\ DOMAIN session \subseteq DOMAIN session'
    BY DEF SessionsStay, Views
  <2>2. QED
    BY <2>1
<1>2. QED
  BY <1>1 DEF SessionsStay, Views

LEMMA RegularStays ==
  ASSUME SessionsStay, NEW v, Regular(v)
  PROVE  Regular(v)' /\ (Chained(v) => Chained(v)')
<1>1. /\ v \in Views' /\ v.stack \in Seq(DOMAIN session)
      /\ v.current \in DOMAIN session \cup {NoToken}
  BY ViewsGrow DEF Regular, Views
<1>2. \A i \in 1..Len(v.stack) : v.stack[i] \in DOMAIN session
  BY <1>1
<1>3. v.stack # <<>> => v.current \in DOMAIN session
  BY <1>1 DEF Regular
<1>4. \A t \in DOMAIN session :
        session'[t].level = session[t].level /\ session'[t].parent = session[t].parent
  BY DEF SessionsStay
<1>5. Regular(v)'
  <2>1. (~v.in => v = Outside) /\ (v.current = NoToken => v.stack = <<>>)
    BY DEF Regular
  <2>2. v.current # NoToken => session'[v.current].level = Len(v.stack)
    <3>1. v.current # NoToken => v.current \in DOMAIN session
      BY <1>1
    <3>2. v.current # NoToken => session[v.current].level = Len(v.stack)
      BY DEF Regular
    <3>3. QED
      BY <1>4, <3>1, <3>2
  <2>3. \A i \in 1..Len(v.stack) : session'[v.stack[i]].level = i - 1
    <3>1. \A i \in 1..Len(v.stack) : session[v.stack[i]].level = i - 1
      BY DEF Regular
    <3>2. QED
      BY <1>2, <1>4, <3>1
  <2>4. QED
    BY <1>1, <2>1, <2>2, <2>3 DEF Regular
<1>6. ASSUME Chained(v)
      PROVE  Chained(v)'
  <2>1. v.stack # <<>> => session'[v.current].parent = v.stack[Len(v.stack)]
    BY <1>3, <1>4, <1>6 DEF Chained
  <2>2. \A i \in 2..Len(v.stack) : session'[v.stack[i]].parent = v.stack[i - 1]
    <3>1. \A i \in 2..Len(v.stack) : session[v.stack[i]].parent = v.stack[i - 1]
      BY <1>6 DEF Chained
    <3>2. \A i \in 2..Len(v.stack) : i \in 1..Len(v.stack)
      BY <1>1
    <3>3. QED
      BY <1>2, <1>4, <3>1, <3>2
  <2>3. QED
    BY <2>1, <2>2 DEF Chained
<1>7. QED
  BY <1>5, <1>6

\* A session of a view is opened, and no deeper than its frames.
LEMMA HeldInViews ==
  ASSUME SessionsSound, NEW v, Regular(v), NEW t \in HeldIn(v)
  PROVE  /\ t \in DOMAIN session /\ t # NoToken
         /\ t = v.current \/ (\E i \in 1..Len(v.stack) : t = v.stack[i])
         /\ session[t].level <= Len(v.stack)
<1>1. /\ v.stack \in Seq(DOMAIN session) /\ Len(v.stack) \in Nat
      /\ v.current \in DOMAIN session \cup {NoToken}
  BY DEF Regular, Views
<1>2. t = v.current \/ (\E i \in 1..Len(v.stack) : t = v.stack[i])
  BY <1>1 DEF HeldIn, ToSet
<1>3. QED
  BY <1>1, <1>2 DEF HeldIn, Regular

LEMMA RootsAreOutermost ==
  ASSUME SessionsSound, NEW t \in DOMAIN session
  PROVE  /\ session[t].parent = NoToken <=> session[t].level = 0
         /\ session[t].parent # NoToken =>
              /\ session[t].parent \in DOMAIN session
              /\ session[t].level = session[session[t].parent].level + 1
<1>1. Placed(session, t) /\ session[t].level \in Levels
  BY SessionIsSound
<1>2. CASE session[t].parent = NoToken
  BY <1>1, <1>2 DEF Placed
<1>3. CASE session[t].parent # NoToken
  <2>1. PICK p : p = session[t].parent
    OBVIOUS
  <2>2. p \in DOMAIN session /\ session[t].level = session[p].level + 1
    BY <1>1, <1>3, <2>1 DEF Placed
  <2>3. session[p].level \in Levels
    BY <2>2, SessionIsSound
  <2>4. session[p].level \in Nat
    BY <2>3, BoundsAssumption DEF Levels
  <2>5. session[t].level # 0
    BY <2>2, <2>4
  <2>6. QED
    BY <1>3, <2>1, <2>2, <2>5
<1>4. QED
  BY <1>2, <1>3

\* With a session a view has the one it is nested in.
LEMMA ChainHasParents ==
  ASSUME SessionsSound, NEW v, Regular(v), Chained(v), NEW t \in HeldIn(v)
  PROVE  session[t].parent = NoToken \/ session[t].parent \in HeldIn(v)
<1>1. /\ v.stack \in Seq(DOMAIN session) /\ Len(v.stack) \in Nat
      /\ v.current \in DOMAIN session \cup {NoToken}
      /\ t \in DOMAIN session
  BY HeldInViews DEF Regular, Views
<1>2. \A i \in 1..Len(v.stack) : v.stack[i] \in HeldIn(v)
  <2>1. \A x \in DOMAIN session : x # NoToken
    BY SessionIsSound
  <2>2. QED
    BY <1>1, <2>1 DEF HeldIn, ToSet
<1>3. session[t].level = 0 => session[t].parent = NoToken
  <2>1. session[t].parent = NoToken <=> session[t].level = 0
    BY <1>1, RootsAreOutermost
  <2>2. QED
    BY <2>1
<1>4. CASE t = v.current
  <2>1. CASE v.stack = <<>>
    <3>1. v.current # NoToken /\ Len(v.stack) = 0
      BY <1>4, <2>1, HeldInViews
    <3>2. QED
      BY <1>3, <1>4, <3>1 DEF Regular
  <2>2. CASE v.stack # <<>>
    <3>1. Len(v.stack) \in 1..Len(v.stack)
      BY <1>1, <2>2
    <3>2. QED
      BY <1>2, <1>4, <2>2, <3>1 DEF Chained
  <2>3. QED
    BY <2>1, <2>2
<1>5. ASSUME NEW i \in 1..Len(v.stack), t = v.stack[i]
      PROVE  session[t].parent = NoToken \/ session[t].parent \in HeldIn(v)
  <2>1. CASE i = 1
    BY <1>3, <1>5, <2>1 DEF Regular
  <2>2. CASE i # 1
    <3>1. i \in 2..Len(v.stack) /\ i - 1 \in 1..Len(v.stack)
      BY <1>1, <1>5, <2>2
    <3>2. QED
      BY <1>2, <1>5, <3>1 DEF Chained
  <2>3. QED
    BY <2>1, <2>2
<1>6. QED
  BY <1>4, <1>5, HeldInViews

-----------------------------------------------------------------------------
(* What the calls of the tasks do to the registry.                         *)

\* A call that returns is under way no more, and no other call is touched.
Returned(w) == call' = [call EXCEPT ![w] = NoCall]

\* Writing a session changes what is in it, not where it is.
LEMMA OutcomeInPlace ==
  ASSUME SessionsSound, NEW t \in DOMAIN session, NEW new, NEW outcome \in WriteOutcomes(t, new)
  PROVE  outcome.session.level = session[t].level /\ outcome.session.parent = session[t].parent
<1>1. session[t] \in SessionType
  BY SessionIsSound DEF Sound
<1>2. PICK s : s = session[t]
  OBVIOUS
<1>3. \A c : /\ Reopened(s, c).level = s.level /\ Reopened(s, c).parent = s.parent
             /\ Reopened(s, c) \in [level : Levels, parent : Tokens \cup {NoToken}, view : {c},
                                    file : {c}, buffered : BOOLEAN, dirty : BOOLEAN]
  BY <1>1, <1>2 DEF Reopened, SessionType
<1>4. PICK m : m = Materialized(t)
  OBVIOUS
<1>5. m = s \/ (\E c : m = Reopened(s, c))
  BY <1>2, <1>4 DEF Materialized
<1>6. m.level = s.level /\ m.parent = s.parent
  BY <1>3, <1>5
<1>7. DOMAIN m = {"level", "parent", "view", "file", "buffered", "dirty"}
  BY <1>1, <1>2, <1>3, <1>5 DEF SessionType
<1>8. PICK u : u = Unrefreshed(t, new)
  OBVIOUS
<1>9. u = [m EXCEPT !.file = new, !.dirty = TRUE]
  BY <1>4, <1>8 DEF Unrefreshed
<1>10. u.level = m.level /\ u.parent = m.parent /\ DOMAIN u = DOMAIN m
  BY <1>7, <1>9
<1>11. Reopened(u, new).level = u.level /\ Reopened(u, new).parent = u.parent
  BY <1>7, <1>10 DEF Reopened
<1>12. outcome.session \in {m, u, Reopened(u, new)}
  BY <1>4, <1>8 DEF WriteOutcomes
<1>13. QED
  BY <1>2, <1>6, <1>10, <1>11, <1>12

\* The session that a call opens is new, clean, and nested in that of the call.
LEMMA OpenedHere ==
  ASSUME IInv, NEW w \in Threads, OpenRoot(w) \/ OpenNested(w), NEW n, n = Len(session) + 1
  PROVE  /\ DOMAIN session' = DOMAIN session \cup {n} /\ n \notin DOMAIN session /\ n # NoToken
         /\ \A t \in DOMAIN session : session'[t] = session[t]
         /\ registered' = registered \cup {n} /\ Returned(w) /\ ~session'[n].dirty
         /\ OpenRoot(w) => session'[n].parent = NoToken
         /\ OpenNested(w) => session'[n].parent = call[w].token
<1>1. session \in Seq(SessionType)
  BY DEF IInv, SessionsSound
<1>2. PICK new : Register(w, new) /\ ~new.dirty
                 /\ (OpenRoot(w) => new.parent = NoToken)
                 /\ (OpenNested(w) => new.parent = call[w].token)
  <2>1. CASE OpenRoot(w)
    <3>1. Idle(w) /\ Register(w, Opened(0, NoToken, disk, NoFile, FALSE))
      BY <2>1 DEF OpenRoot
    <3>2. ~OpenNested(w)
      BY <3>1 DEF OpenNested, Doing, Idle, NoCall
    <3>3. QED
      BY <3>1, <3>2 DEF Opened
  <2>2. CASE OpenNested(w)
    <3>1. ~OpenRoot(w)
      <4>1. Doing(w, "open")
        BY <2>2 DEF OpenNested
      <4>2. ~Idle(w)
        BY <4>1 DEF Doing, Idle, NoCall
      <4>3. QED
        BY <4>2 DEF OpenRoot
    <3>2. PICK level, view, file, buffered :
            Register(w, Opened(level, call[w].token, view, file, buffered))
      BY <2>2 DEF OpenNested
    <3>3. PICK new : new = Opened(level, call[w].token, view, file, buffered)
      OBVIOUS
    <3>4. new.parent = call[w].token /\ ~new.dirty
      BY <3>3 DEF Opened
    <3>5. QED
      BY <3>1, <3>2, <3>3, <3>4
  <2>3. QED
    BY <2>1, <2>2
<1>3. session' = Append(session, new) /\ registered' = registered \cup {n} /\ Returned(w)
  BY <1>2 DEF Register, Return, Returned
<1>4. Len(session) \in Nat /\ DOMAIN session = 1..Len(session) /\ DOMAIN session' = 1..n
  BY <1>1, <1>3
<1>5. \A t \in DOMAIN session : session'[t] = session[t]
  BY <1>1, <1>3
<1>6. session'[n] = new
  BY <1>1, <1>3
<1>7. n # NoToken
  BY <1>4 DEF NoToken
<1>8. QED
  BY <1>2, <1>3, <1>4, <1>5, <1>6, <1>7

\* Changes and commits neither open nor close a session.
LEMMA WrittenHere ==
  ASSUME IInv, NEW w \in Threads, Add(w) \/ CommitToParent(w) \/ CommitToRoot(w)
  PROVE  SessionsStay /\ DOMAIN session' = DOMAIN session /\ registered' = registered
<1> DEFINE t == call[w].token
<1>1. SessionsSound /\ session \in Seq(SessionType)
  BY DEF IInv, SessionsSound
<1>2. t \in DOMAIN session
  <2>1. Doing(w, "add") \/ Doing(w, "close")
    BY DEF Add, CommitToParent, CommitToRoot
  <2>2. call[w] # NoCall
    BY <2>1 DEF Doing, NoCall
  <2>3. QED
    BY <2>2, CallHasSession
<1>3. ASSUME NEW s, s.level = session[t].level, s.parent = session[t].parent,
             session' = [session EXCEPT ![t] = s]
      PROVE  SessionsStay /\ DOMAIN session' = DOMAIN session
  BY <1>3 DEF SessionsStay
<1>4. CASE Add(w)
  <2>0. PICK new : \E outcome \in WriteOutcomes(t, new), e \in Edits : Written(w, t, e, outcome)
    BY <1>4 DEF Add
  <2>1. PICK outcome \in WriteOutcomes(t, new) : \E e \in Edits : Written(w, t, e, outcome)
    BY <2>0
  <2>2. session' = [session EXCEPT ![t] = outcome.session] /\ registered' = registered
    BY <2>1 DEF Written
  <2>3. outcome.session.level = session[t].level /\ outcome.session.parent = session[t].parent
    BY <1>1, <1>2, OutcomeInPlace
  <2>4. QED
    BY <1>3, <2>2, <2>3
<1>5. CASE CommitToParent(w)
  <2>1. PICK p : p = session[t].parent
    OBVIOUS
  <2>0. PICK new :
          \E outcome \in WriteOutcomes(p, new) :
            session' = [session EXCEPT ![p] = outcome.session, ![t].dirty = ~outcome.ok]
    BY <1>5, <2>1 DEF CommitToParent
  <2>2. PICK outcome \in WriteOutcomes(p, new) :
          session' = [session EXCEPT ![p] = outcome.session, ![t].dirty = ~outcome.ok]
    BY <2>0
  <2>3. registered' = registered /\ p # NoToken
    BY <1>5, <2>1 DEF CommitToParent, Nested
  <2>4. p \in DOMAIN session
    BY <1>1, <1>2, <2>1, <2>3, RootsAreOutermost
  <2>5. outcome.session.level = session[p].level /\ outcome.session.parent = session[p].parent
    BY <1>1, <2>4, OutcomeInPlace
  <2>6. PICK middle : middle = [session EXCEPT ![p] = outcome.session]
    OBVIOUS
  <2>7. /\ DOMAIN middle = DOMAIN session
        /\ \A x \in DOMAIN session :
             middle[x].level = session[x].level /\ middle[x].parent = session[x].parent
    BY <2>4, <2>5, <2>6
  <2>8. session' = [middle EXCEPT ![t].dirty = ~outcome.ok]
    BY <2>2, <2>6
  <2>9. PICK m : m = middle[t]
    OBVIOUS
  <2>10. /\ [m EXCEPT !.dirty = ~outcome.ok].level = m.level
         /\ [m EXCEPT !.dirty = ~outcome.ok].parent = m.parent
    OBVIOUS
  <2>11. session' = [middle EXCEPT ![t] = [m EXCEPT !.dirty = ~outcome.ok]]
    BY <2>8, <2>9
  <2>12. DOMAIN session' = DOMAIN session
    BY <2>7, <2>11
  <2>13. \A x \in DOMAIN session :
           session'[x].level = middle[x].level /\ session'[x].parent = middle[x].parent
    BY <2>7, <2>9, <2>10, <2>11
  <2>14. QED
    BY <2>3, <2>7, <2>12, <2>13 DEF SessionsStay
<1>6. CASE CommitToRoot(w)
  <2>1. session' = [session EXCEPT ![t].dirty = FALSE] /\ registered' = registered
    BY <1>6 DEF CommitToRoot
  <2>2. PICK m : m = session[t]
    OBVIOUS
  <2>3. [m EXCEPT !.dirty = FALSE].level = m.level /\ [m EXCEPT !.dirty = FALSE].parent = m.parent
    OBVIOUS
  <2>4. session' = [session EXCEPT ![t] = [m EXCEPT !.dirty = FALSE]]
    BY <2>1, <2>2
  <2>5. QED
    BY <1>3, <2>1, <2>2, <2>3, <2>4
<1>7. QED
  BY <1>4, <1>5, <1>6

-----------------------------------------------------------------------------
(* What a step leaves alone.                                               *)

\* No step that leaves the sessions at their places can disturb the views.
LEMMA RestsStay ==
  ASSUME SessionsStay, displaced' = {} => displaced = {}, NEW rest, Rests(rest)
  PROVE  Rests(rest)'
<1>1. ASSUME NEW q \in Panels
      PROVE  Regular(rest[q])' /\ (displaced' = {} => Chained(rest[q])')
  <2>1. Regular(rest[q]) /\ (displaced = {} => Chained(rest[q]))
    BY DEF Rests
  <2>2. QED
    BY <2>1, RegularStays
<1>2. QED
  BY <1>1 DEF Rests

LEMMA ParentsStay ==
  ASSUME IInv, SessionsStay, displaced' = {} => displaced = {}, registered' = registered, Parents
  PROVE  Parents'
<1>1. \A t \in registered : session'[t].parent = session[t].parent
  BY DEF IInv, CallsOK, SessionsStay
<1>2. QED
  BY <1>1 DEF Parents

LEMMA ShowsStay ==
  ASSUME SessionsStay, NEW rest, Shows(rest), panel' = panel,
         task'.panel = task.panel, task'.kind = task.kind, task'.stage = task.stage,
         task'.view = task.view
  PROVE  Shows(rest)'
<1>1. panel' \in [Panels -> Views']
  <2>1. panel \in [Panels -> Views]
    BY DEF Shows
  <2>2. \A v \in Views : v \in Views'
    BY ViewsGrow
  <2>3. QED
    BY <2>1, <2>2
<1>2. QED
  BY <1>1 DEF Shows

\* When the task is over, the panels are as they should be between the tasks.
LEMMA Settles ==
  ASSUME NEW rest, DOMAIN rest = Panels, task' = NoTask, \A q \in Panels : panel'[q] = rest[q],
         panel' \in [Panels -> Views'], Rests(rest)',
         \A q \in Panels \ torn' : HeldIn(rest[q]) \subseteq registered',
         displaced' = {} => \A t \in registered' : \E q \in Panels : t \in HeldIn(rest[q]),
         Parents', closing' = <<>>, call'[closer] = NoCall, call'[worker] = NoCall
  PROVE  Holding(rest)'
<1>1. /\ task'.kind = "none" /\ task'.panel = 1 /\ task'.stage = "closing" /\ task'.todo = {}
      /\ task'.view = Outside
  BY DEF NoTask
<1>2. Shows(rest)'
  BY <1>1 DEF Shows
<1>3. Shaped(rest)'
  <2>1. Outside \in Views'
    BY DEF Views, Outside
  <2>2. task' \in TaskShape'
    BY <2>1 DEF TaskShape, NoTask, Panels
  <2>3. QED
    BY <1>1, <2>2 DEF Shaped, Giving
<1>4. Leaving(rest)' = {} /\ New' = {}
  BY <1>1 DEF Leaving, New, Giving
<1>5. Owned(rest)' /\ Unseen(rest)'
  BY <1>1, <1>4 DEF Owned, Unseen
<1>6. Kept(rest)' /\ Covered(rest)'
  BY <1>4 DEF Kept, Covered
<1>7. Working'
  BY DEF Working
<1>8. QED
  BY <1>2, <1>3, <1>5, <1>6, <1>7 DEF Holding

-----------------------------------------------------------------------------
(* Starting a task.                                                        *)

\* Between the tasks the panels show the views, with all that is open.
LEMMA QuietPanels ==
  ASSUME NEW rest, Holding(rest), task = NoTask
  PROVE  /\ \A q \in Panels : panel[q] = rest[q]
         /\ \A q \in Panels \ torn : HeldIn(rest[q]) \subseteq registered
         /\ displaced = {} => \A t \in registered : \E q \in Panels : t \in HeldIn(rest[q])
         /\ call[worker] = NoCall
<1>1. task.kind = "none" /\ task.todo = {} /\ task.stage = "closing"
  BY DEF NoTask
<1>2. Leaving(rest) = {} /\ New = {}
  BY <1>1 DEF Leaving, New, Giving
<1>3. \A q \in Panels : panel[q] = rest[q]
  BY <1>1 DEF Holding, Shows
<1>4. /\ \A q \in Panels \ torn : HeldIn(rest[q]) \subseteq registered
      /\ displaced = {} => \A t \in registered : \E q \in Panels : t \in HeldIn(rest[q])
  BY <1>2 DEF Holding, Kept, Covered
<1>5. call[worker] = NoCall
  BY <1>1 DEF Holding, Working, Giving
<1>6. QED
  BY <1>3, <1>4, <1>5

\* The sessions to close are those that the other panel does not reference.
LEMMA ClosesItsOwn ==
  ASSUME NEW rest, Rests(rest), \A q \in Panels : panel[q] = rest[q], NEW p \in Panels
  PROVE  /\ Held(p) = HeldIn(rest[p])
         /\ \A t : Referenced(p, t) <=> \E q \in Panels \ {p} : t \in HeldIn(rest[q])
<1>1. \A q \in Panels : Held(q) = HeldIn(rest[q])
  BY DEF Held, HeldIn
<1>2. \A q \in Panels : ~rest[q].in => HeldIn(rest[q]) = {}
  BY OutsideIsRegular DEF Rests, Regular
<1>3. QED
  BY <1>1, <1>2 DEF Referenced

\* A task that leaves the panels as they are for now.
Fresh(kind, p, stage, todo, view, rest) ==
  /\ kind \in Giving \cup {"nest", "add"}
  /\ kind \in Giving => stage = "closing" /\ todo = ToClose(p)
  /\ kind = "leave" => view = Outside
  /\ kind \in {"root", "prefix"} => view = [Outside EXCEPT !.in = TRUE]
  /\ kind = "bind" =>
       /\ Regular(view) /\ (displaced = {} => Chained(view)) /\ view.in /\ view.current # NoToken
       /\ \A q \in Panels \ {p} : HeldIn(view) \subseteq HeldIn(rest[q])
  /\ kind \in {"nest", "add"} =>
       /\ stage = "opening" /\ todo = {} /\ view = panel[p]
       /\ panel[p].in /\ panel[p].current # NoToken

\* Starting such a task keeps the invariant.
LEMMA TaskStarts ==
  ASSUME IInv, NEW rest, Holding(rest), NEW kind, NEW p \in Panels, NEW stage, NEW todo, NEW view,
         Start(kind, p, stage, todo, view), panel' = panel, Fresh(kind, p, stage, todo, view, rest)
  PROVE  Holding(rest)'
<1>1. /\ task = NoTask
      /\ task' = [kind |-> kind, panel |-> p, stage |-> stage, todo |-> todo, view |-> view]
      /\ session' = session /\ registered' = registered /\ call' = call
      /\ closing' = closing /\ torn' = torn /\ displaced' = displaced
  BY DEF Start, registry
<1>2. /\ task'.kind = kind /\ task'.panel = p /\ task'.stage = stage /\ task'.todo = todo
      /\ task'.view = view
  BY <1>1
<1>3. /\ \A q \in Panels : panel[q] = rest[q]
      /\ \A q \in Panels \ torn : HeldIn(rest[q]) \subseteq registered
      /\ displaced = {} => \A t \in registered : \E q \in Panels : t \in HeldIn(rest[q])
      /\ call[worker] = NoCall
  BY <1>1, QuietPanels
<1>4. SessionsSound /\ SessionsStay
  BY <1>1 DEF IInv, SessionsStay
<1>5. /\ Held(p) = HeldIn(rest[p])
      /\ \A t : Referenced(p, t) <=> \E q \in Panels \ {p} : t \in HeldIn(rest[q])
  BY <1>3, ClosesItsOwn DEF Holding
<1>6. kind \in Giving \cup {"nest", "add"} /\ kind # "up" /\ kind # "none" /\ kind # "discard"
      /\ ~(kind = "nest" /\ stage = "loading") /\ ~(kind = "root" /\ stage = "loading")
  BY DEF Fresh, Giving
<1>7. todo \subseteq HeldIn(rest[p]) /\ todo \subseteq DOMAIN session
  <2>1. todo \subseteq HeldIn(rest[p])
    BY <1>5 DEF Fresh, ToClose
  <2>2. \A t \in HeldIn(rest[p]) : t \in DOMAIN session
    BY <1>4, HeldInViews DEF Holding, Rests
  <2>3. QED
    BY <2>1, <2>2
<1>8. Shows(rest)'
  BY <1>1, <1>2, <1>3, <1>6 DEF Holding, Shows, Views
<1>9. Rests(rest)'
  BY <1>1, <1>4, RestsStay DEF Holding
<1>10. Shaped(rest)'
  <2>1. view \in Views
    <3>1. panel[p] \in Views
      BY DEF Holding, Shows
    <3>2. Outside \in Views /\ [Outside EXCEPT !.in = TRUE] \in Views
      <4>1. Outside \in Views
        BY DEF Views, Outside
      <4>2. QED
        BY <4>1 DEF Views
    <3>3. kind = "bind" => view \in Views
      BY DEF Fresh, Regular
    <3>4. QED
      BY <3>1, <3>2, <3>3 DEF Fresh, Giving
  <2>2. kind \in {"root", "prefix"} => view.in /\ view.stack = <<>> /\ view.current = NoToken
    BY DEF Fresh, Outside
  <2>3. task' \in TaskShape'
    <3>1. DOMAIN session' = DOMAIN session /\ Views' = Views
      BY <1>1 DEF Views
    <3>2. stage \in {"closing", "opening", "loading"}
      BY DEF Fresh
    <3>3. QED
      BY <1>1, <1>6, <1>7, <2>1, <3>1, <3>2 DEF TaskShape, Giving
  <2>4. kind = "bind" => Regular(view)' /\ (displaced' = {} => Chained(view)')
    BY <1>1, <1>4, RegularStays DEF Fresh
  <2>5. /\ kind \in Giving => stage = "closing"
        /\ kind \in {"nest", "add"} => stage = "opening" /\ todo = {} /\ view = rest[p]
             /\ rest[p].in /\ rest[p].current # NoToken
        /\ kind = "bind" =>
             /\ view.in /\ view.current # NoToken
             /\ \A q \in Panels \ {p} : HeldIn(view) \subseteq HeldIn(rest[q])
    BY <1>3 DEF Fresh
  <2>6. QED
    BY <1>2, <1>6, <2>2, <2>3, <2>4, <2>5 DEF Shaped, Giving, Others
<1>11. /\ Leaving(rest)' = IF kind \in Giving THEN HeldIn(rest[p]) ELSE {}
       /\ New' = {}
  BY <1>2, <1>6 DEF Leaving, New, Giving
<1>12. Owned(rest)'
  <2>1. CASE kind \in Giving
    <3>1. todo = ToClose(p)
      BY <2>1 DEF Fresh
    <3>2. QED
      BY <1>1, <1>2, <1>5, <1>11, <2>1, <3>1 DEF Owned, ToClose, Others
  <2>2. CASE kind \notin Giving
    <3>1. todo = {}
      BY <2>2 DEF Fresh
    <3>2. QED
      BY <1>2, <1>11, <2>2, <3>1 DEF Owned
  <2>3. QED
    BY <2>1, <2>2
<1>13. Unseen(rest)'
  BY <1>11 DEF Unseen
<1>14. Kept(rest)' /\ Covered(rest)'
  BY <1>1, <1>3 DEF Kept, Covered
<1>15. Parents' /\ Working'
  BY <1>1, <1>3 DEF Holding, Parents, Working
<1>16. QED
  BY <1>8, <1>9, <1>10, <1>12, <1>13, <1>14, <1>15 DEF Holding

\* The view of the archive that a view is nested in.
LEMMA OuterView ==
  ASSUME SessionsSound, NEW v, Regular(v), v.stack # <<>>, NEW o,
         o = [in |-> TRUE, current |-> Last(v.stack), stack |-> Front(v.stack)]
  PROVE  /\ v.in /\ v.current # NoToken /\ o.current # NoToken
         /\ v.stack = Append(o.stack, o.current)
         /\ Regular(o) /\ (Chained(v) => Chained(o))
         /\ HeldIn(v) = HeldIn(o) \cup {v.current} /\ v.current \notin HeldIn(o)
<1>1. /\ v.stack \in Seq(DOMAIN session) /\ Len(v.stack) \in Nat \ {0}
      /\ v.current \in DOMAIN session \cup {NoToken}
  BY DEF Regular, Views
<1>2. v.in /\ v.current # NoToken
  BY DEF Regular, Outside
<1>3. PICK n \in Nat : n + 1 = Len(v.stack)
  <2>1. Len(v.stack) - 1 \in Nat /\ (Len(v.stack) - 1) + 1 = Len(v.stack)
    BY <1>1
  <2>2. QED
    BY <2>1
<1>4. /\ o.current = v.stack[n + 1] /\ o.stack \in Seq(DOMAIN session) /\ Len(o.stack) = n
      /\ \A i \in 1..n : o.stack[i] = v.stack[i]
  BY <1>1, <1>3 DEF Last, Front
<1>5. v.stack = Append(o.stack, o.current)
  BY <1>1, <1>3, <1>4
<1>6. n + 1 \in 1..Len(v.stack) /\ \A i \in 1..n : i \in 1..Len(v.stack)
  BY <1>3
<1>7. o.current \in DOMAIN session /\ \A i \in 1..n : o.stack[i] \in DOMAIN session
  BY <1>1, <1>4, <1>6
<1>8. \A x \in DOMAIN session : x # NoToken
  BY SessionIsSound
<1>9. /\ session[o.current].level = n /\ session[v.current].level = n + 1
      /\ \A i \in 1..n : session[o.stack[i]].level = i - 1
  <2>1. \A i \in 1..Len(v.stack) : session[v.stack[i]].level = i - 1
    BY DEF Regular
  <2>2. session[v.stack[n + 1]].level = (n + 1) - 1
    BY <1>6, <2>1
  <2>3. session[v.current].level = n + 1
    BY <1>2, <1>3 DEF Regular
  <2>4. (n + 1) - 1 = n
    OBVIOUS
  <2>5. ASSUME NEW i \in 1..n PROVE session[o.stack[i]].level = i - 1
    BY <1>4, <1>6, <2>1
  <2>6. QED
    BY <1>4, <2>2, <2>3, <2>4, <2>5
<1>10. Regular(o)
  <2>1. o \in Views
    BY <1>4, <1>7 DEF Views
  <2>2. o.in
    OBVIOUS
  <2>3. QED
    BY <1>4, <1>7, <1>8, <1>9, <2>1, <2>2 DEF Regular
<1>11. ASSUME Chained(v) PROVE Chained(o)
  <2>1. ASSUME o.stack # <<>> PROVE session[o.current].parent = o.stack[Len(o.stack)]
    <3>1. n + 1 \in 2..Len(v.stack) /\ n \in 1..n
      BY <1>3, <1>4, <2>1
    <3>2. session[v.stack[n + 1]].parent = v.stack[(n + 1) - 1]
      BY <1>11, <3>1 DEF Chained
    <3>3. QED
      BY <1>3, <1>4, <3>1, <3>2
  <2>2. ASSUME NEW i \in 2..Len(o.stack) PROVE session[o.stack[i]].parent = o.stack[i - 1]
    <3>1. i \in 2..Len(v.stack) /\ i \in 1..n /\ i - 1 \in 1..n
      BY <1>3, <1>4
    <3>2. QED
      BY <1>4, <1>11, <3>1 DEF Chained
  <2>3. QED
    BY <2>1, <2>2 DEF Chained
<1>12. HeldIn(v) = HeldIn(o) \cup {v.current}
  <2>1. ToSet(v.stack) = ToSet(o.stack) \cup {o.current}
    <3>1. DOMAIN v.stack = 1..n + 1 /\ DOMAIN o.stack = 1..n
      BY <1>1, <1>3, <1>4
    <3>2. 1..n + 1 = (1..n) \cup {n + 1}
      BY <1>3
    <3>3. QED
      BY <1>4, <3>1, <3>2 DEF ToSet
  <2>2. QED
    BY <1>2, <1>7, <1>8, <2>1 DEF HeldIn
<1>13. v.current \notin HeldIn(o)
  <2>1. SUFFICES ASSUME v.current \in HeldIn(o) PROVE FALSE
    OBVIOUS
  <2>2. session[v.current].level <= Len(o.stack)
    BY <1>10, <2>1, HeldInViews
  <2>3. QED
    BY <1>3, <1>4, <1>9, <2>2
<1>14. QED
  BY <1>2, <1>5, <1>7, <1>8, <1>10, <1>11, <1>12, <1>13

LEMMA ParentViewIsOuter ==
  ASSUME NEW q \in Panels, Regular(panel[q]), panel[q].stack # <<>>
  PROVE  ParentView(q) = [in |-> TRUE, current |-> Last(panel[q].stack), stack |-> Front(panel[q].stack)]
<1>1. PICK v : v = panel[q]
  OBVIOUS
<1>2. v \in Views /\ v.in
  BY <1>1 DEF Regular, Outside
<1>3. PICK a, b : a = Last(v.stack) /\ b = Front(v.stack)
  OBVIOUS
<1>4. ParentView(q) = [v EXCEPT !.current = a, !.stack = b]
  BY <1>1, <1>3 DEF ParentView
<1>5. PICK Currents, Stacks : v \in [in : {TRUE}, current : Currents, stack : Stacks]
  BY <1>2 DEF Views
<1>6. PICK w \in [in : {TRUE}, current : {a}, stack : {b}] :
        w = [v EXCEPT !.current = a, !.stack = b]
  BY <1>5
<1>7. w = [in |-> TRUE, current |-> a, stack |-> b]
  BY <1>6
<1>8. QED
  BY <1>1, <1>3, <1>4, <1>6, <1>7

LEMMA MostStartsHold ==
  ASSUME IInv, NEW rest, Holding(rest), NEW p \in Panels,
         Leave(p) \/ Enter(p) \/ Nest(p) \/ Bind(p) \/ AddTo(p)
  PROVE  Holding(rest)'
<1>1. CASE Leave(p)
  <2>1. Start("leave", p, "closing", ToClose(p), Outside) /\ panel' = panel
    BY <1>1 DEF Leave
  <2>2. Fresh("leave", p, "closing", ToClose(p), Outside, rest)
    BY DEF Fresh, Giving
  <2>3. QED
    BY <2>1, <2>2, TaskStarts
<1>2. CASE Enter(p)
  <2>1. PICK kind \in {"root", "prefix"} :
          Start(kind, p, "closing", ToClose(p), [Outside EXCEPT !.in = TRUE]) /\ panel' = panel
    BY <1>2 DEF Enter
  <2>2. Fresh(kind, p, "closing", ToClose(p), [Outside EXCEPT !.in = TRUE], rest)
    BY <2>1 DEF Fresh, Giving
  <2>3. QED
    BY <2>1, <2>2, TaskStarts
<1>3. CASE Nest(p)
  <2>1. /\ Start("nest", p, "opening", {}, panel[p]) /\ panel' = panel
        /\ panel[p].in /\ panel[p].current # NoToken
    BY <1>3 DEF Nest
  <2>2. Fresh("nest", p, "opening", {}, panel[p], rest)
    BY <2>1 DEF Fresh, Giving
  <2>3. QED
    BY <2>1, <2>2, TaskStarts
<1>4. CASE AddTo(p)
  <2>1. /\ Start("add", p, "opening", {}, panel[p]) /\ panel' = panel
        /\ panel[p].in /\ panel[p].current # NoToken
    BY <1>4 DEF AddTo
  <2>2. Fresh("add", p, "opening", {}, panel[p], rest)
    BY <2>1 DEF Fresh, Giving
  <2>3. QED
    BY <2>1, <2>2, TaskStarts
<1>5. CASE Bind(p)
  <2>1. PICK q \in Panels \ {p} :
          /\ panel[q].in
          /\ \E view \in BindViews(q) :
               view.current # NoToken /\ Start("bind", p, "closing", ToClose(p), view)
    BY <1>5 DEF Bind
  <2>2. PICK view \in BindViews(q) :
          view.current # NoToken /\ Start("bind", p, "closing", ToClose(p), view)
    BY <2>1
  <2>3. panel' = panel /\ task = NoTask /\ SessionsSound
    BY <1>5, <2>2 DEF Bind, Start, IInv
  <2>4. \A r \in Panels : panel[r] = rest[r]
    BY <2>3, QuietPanels
  <2>5. PICK v : v = panel[q]
    OBVIOUS
  <2>6. v = rest[q] /\ Regular(v) /\ (displaced = {} => Chained(v)) /\ v.in
    BY <2>1, <2>4, <2>5 DEF Holding, Rests
  <2>7. Regular(view) /\ (displaced = {} => Chained(view)) /\ view.in /\ HeldIn(view) \subseteq HeldIn(v)
    <3>1. CASE view = v
      BY <2>6, <3>1
    <3>2. CASE view # v
      <4>1. v.stack # <<>> /\ view = ParentView(q)
        BY <2>2, <2>5, <3>2 DEF BindViews
      <4>2. view = [in |-> TRUE, current |-> Last(v.stack), stack |-> Front(v.stack)]
        BY <2>5, <2>6, <4>1, ParentViewIsOuter
      <4>3. Regular(view) /\ (Chained(v) => Chained(view)) /\ HeldIn(v) = HeldIn(view) \cup {v.current}
        BY <2>3, <2>6, <4>1, <4>2, OuterView
      <4>4. view.in
        BY <4>2
      <4>5. QED
        BY <2>6, <4>3, <4>4
    <3>3. QED
      BY <3>1, <3>2
  <2>8. \A r \in Panels \ {p} : r = q
    BY DEF Panels
  <2>9. Fresh("bind", p, "closing", ToClose(p), view, rest)
    BY <2>2, <2>6, <2>7, <2>8 DEF Fresh, Giving
  <2>10. QED
    BY <2>2, <2>3, <2>9, TaskStarts
<1>6. QED
  BY <1>1, <1>2, <1>3, <1>4, <1>5

\* Going up takes the last frame off at once; the view it came from rests.
LEMMA UpHolds ==
  ASSUME IInv, NEW rest, Holding(rest), NEW p \in Panels, Up(p)
  PROVE  Holding(rest)'
<1>1. PICK v, l, todo :
        /\ v = panel[p] /\ v.stack # <<>>
        /\ l = v.current
        /\ todo = IF l \in {NoToken, Last(v.stack)} \/ Referenced(p, l) THEN {} ELSE {l}
        /\ Start("up", p, "closing", todo, ParentView(p))
  BY DEF Up
<1>2. panel' = [panel EXCEPT ![p].stack = Front(v.stack)]
  BY <1>1 DEF Up
<1>3. SessionsSound /\ task = NoTask
  BY <1>1 DEF IInv, Start
<1>4. /\ \A q \in Panels : panel[q] = rest[q]
      /\ \A q \in Panels \ torn : HeldIn(rest[q]) \subseteq registered
      /\ displaced = {} => \A t \in registered : \E q \in Panels : t \in HeldIn(rest[q])
      /\ call[worker] = NoCall
  BY <1>3, QuietPanels
<1>5. Regular(v) /\ rest[p] = v
  BY <1>1, <1>4 DEF Holding, Rests
<1>6. PICK o : o = [in |-> TRUE, current |-> Last(v.stack), stack |-> Front(v.stack)]
  OBVIOUS
<1>7. ParentView(p) = o
  BY <1>1, <1>5, <1>6, ParentViewIsOuter
<1>8. /\ v.in /\ v.current # NoToken /\ o.current # NoToken
      /\ v.stack = Append(o.stack, o.current)
      /\ Regular(o)
      /\ HeldIn(v) = HeldIn(o) \cup {v.current} /\ v.current \notin HeldIn(o)
  BY <1>1, <1>3, <1>5, <1>6, OuterView
<1>9. /\ task' = [kind |-> "up", panel |-> p, stage |-> "closing", todo |-> todo, view |-> o]
      /\ session' = session /\ registered' = registered /\ call' = call
      /\ closing' = closing /\ torn' = torn /\ displaced' = displaced
  BY <1>1, <1>7 DEF Start, registry
<1>10. /\ task'.kind = "up" /\ task'.panel = p /\ task'.stage = "closing" /\ task'.todo = todo
       /\ task'.view = o
  BY <1>9
<1>11. SessionsStay
  BY <1>9 DEF SessionsStay
<1>12. /\ Held(p) = HeldIn(v)
       /\ \A t : Referenced(p, t) <=> \E q \in Panels \ {p} : t \in HeldIn(rest[q])
  BY <1>4, <1>5, ClosesItsOwn DEF Holding
<1>13. l # Last(v.stack)
  <2>1. o.current \in HeldIn(o)
    BY <1>8 DEF HeldIn
  <2>2. QED
    BY <1>1, <1>6, <1>8, <2>1
<1>14. IF \E q \in Panels \ {p} : l \in HeldIn(rest[q]) THEN todo = {} ELSE todo = {l}
  BY <1>1, <1>8, <1>12, <1>13
<1>15. v.current \in DOMAIN session /\ o \in Views
  BY <1>8, <1>5 DEF Regular, Views
<1>16. Shows(rest)'
  <2>1. PICK w : w = [v EXCEPT !.stack = o.stack]
    OBVIOUS
  <2>2. panel' = [panel EXCEPT ![p] = w]
    BY <1>1, <1>2, <1>6, <2>1
  <2>3. panel \in [Panels -> Views]
    BY DEF Holding, Shows
  <2>4. w \in Views /\ w.in = v.in /\ w.current = v.current /\ w.stack = o.stack
    BY <1>1, <1>15, <2>1, <2>3 DEF Views
  <2>5. panel' \in [Panels -> Views] /\ panel'[p] = w /\ \A q \in Panels \ {p} : panel'[q] = panel[q]
    BY <2>2, <2>3, <2>4
  <2>6. Views' = Views
    BY <1>9 DEF Views
  <2>7. DOMAIN rest = Panels
    BY DEF Holding, Shows
  <2> HIDE DEF Views
  <2>8. /\ panel'[p].in = rest[p].in /\ panel'[p].current = rest[p].current
        /\ rest[p].stack = Append(panel'[p].stack, task'.view.current)
    BY <1>5, <1>8, <1>10, <2>4, <2>5
  <2>9. \A q \in Panels \ {p} : panel'[q] = rest[q] /\ task'.panel # q
    BY <1>4, <1>10, <2>5
  <2>10. QED
    BY <1>10, <2>5, <2>6, <2>7, <2>8, <2>9 DEF Shows
<1>17. Rests(rest)'
  BY <1>9, <1>11, RestsStay DEF Holding
<1>18. Shaped(rest)'
  <2>1. DOMAIN session' = DOMAIN session /\ Views' = Views
    BY <1>9 DEF Views
  <2>2. todo \subseteq DOMAIN session
    BY <1>1, <1>14, <1>15
  <2>3. task' \in TaskShape'
    BY <1>9, <1>15, <2>1, <2>2 DEF TaskShape
  <2>4. QED
    BY <1>5, <1>8, <1>10, <2>3 DEF Shaped, Giving
<1>19. Leaving(rest)' = {l} /\ New' = {}
  BY <1>1, <1>5, <1>10 DEF Leaving, New, Giving
<1>20. Owned(rest)'
  BY <1>9, <1>10, <1>14, <1>19 DEF Owned, Others
<1>21. Unseen(rest)' /\ Kept(rest)' /\ Covered(rest)'
  BY <1>4, <1>9, <1>19 DEF Unseen, Kept, Covered
<1>22. Parents' /\ Working'
  BY <1>4, <1>9 DEF Holding, Parents, Working
<1>23. QED
  BY <1>16, <1>17, <1>18, <1>20, <1>21, <1>22 DEF Holding

-----------------------------------------------------------------------------
(* Closing.                                                                *)

\* The task goes on with the same sessions to close.
LEMMA SameWork ==
  ASSUME IInv, SessionsStay, NEW rest, Holding(rest), registered' = registered,
         panel' = panel, task' = task, closing' = closing, torn' = torn, displaced' = displaced,
         \A t \in New : ~session'[t].dirty, Working'
  PROVE  Holding(rest)'
<1>1. Shows(rest)' /\ Rests(rest)'
  BY ShowsStay, RestsStay DEF Holding
<1>2. Parents'
  BY ParentsStay DEF Holding
<1>3. Shaped(rest)'
  <2>1. task \in TaskShape
    BY DEF Holding, Shaped
  <2>2. task' \in TaskShape'
    <3>1. task.view \in Views'
      BY <2>1, ViewsGrow DEF TaskShape
    <3>2. task.todo \subseteq DOMAIN session'
      BY <2>1 DEF TaskShape, SessionsStay
    <3>3. QED
      BY <2>1, <3>1, <3>2 DEF TaskShape
  <2>3. task.kind = "bind" => Regular(task.view)' /\ (displaced' = {} => Chained(task.view)')
    BY RegularStays DEF Holding, Shaped
  <2>4. QED
    BY <2>2, <2>3 DEF Holding, Shaped, Others
<1>4. Leaving(rest)' = Leaving(rest) /\ New' = New
  BY DEF Leaving, New
<1>5. Owned(rest)'
  BY <1>4 DEF Holding, Owned, Others
<1>6. Unseen(rest)'
  BY <1>4 DEF Holding, Unseen, SessionsStay
<1>7. Kept(rest)' /\ Covered(rest)'
  BY <1>4 DEF Holding, Kept, Covered
<1>8. QED
  BY <1>1, <1>2, <1>3, <1>5, <1>6, <1>7 DEF Holding

\* Views are equal by their fields.
LEMMA SameView ==
  ASSUME NEW v \in Views, NEW w \in Views, v.in = w.in, v.current = w.current, v.stack = w.stack
  PROVE  v = w
BY DEF Views

\* What the task opened and nobody shows is closed by now.
LEMMA FailedSettles ==
  ASSUME IInv, SessionsStay, NEW rest, Holding(rest), Failed,
         task.kind \in Giving \cup {"up", "discard"}, New \cap registered = {},
         registered' = registered, closing' = closing, displaced' = displaced,
         call'[closer] = NoCall, call'[worker] = NoCall
  PROVE  Holding(rest)'
<1>1. PICK p : p = task.panel
  OBVIOUS
<1>2. p \in Panels /\ task.kind # "nest"
  BY <1>1 DEF Holding, Shaped, TaskShape, Giving
<1>3. panel \in [Panels -> Views] /\ \A q \in Panels : rest[q] \in Views
  BY DEF Holding, Shows, Rests, Regular
<1>4. RolledBack \in [Panels -> Views] /\ \A q \in Panels : RolledBack[q] = rest[q]
  <2>1. CASE task.kind = "up"
    <3>1. PICK v, w : /\ v = panel[p] /\ w = [v EXCEPT !.stack = rest[p].stack]
      OBVIOUS
    <3>2. /\ v.in = rest[p].in /\ v.current = rest[p].current
          /\ rest[p].stack = Append(v.stack, task.view.current)
      BY <1>1, <1>2, <2>1, <3>1 DEF Holding, Shows
    <3>3. RolledBack = [panel EXCEPT ![p] = w]
      BY <1>1, <2>1, <3>1, <3>2 DEF RolledBack
    <3>4. w \in Views /\ w.in = v.in /\ w.current = v.current /\ w.stack = rest[p].stack
      BY <1>2, <1>3, <3>1 DEF Views
    <3>5. w = rest[p]
      BY <1>2, <1>3, <3>2, <3>4, SameView
    <3>6. \A q \in Panels \ {p} : panel[q] = rest[q]
      BY <1>1, <1>2 DEF Holding, Shows
    <3> HIDE DEF Views
    <3>7. QED
      BY <1>2, <1>3, <3>3, <3>4, <3>5, <3>6
  <2>2. CASE task.kind # "up"
    <3>1. RolledBack = panel
      BY <2>2 DEF RolledBack
    <3>2. QED
      BY <1>2, <1>3, <2>2, <3>1 DEF Holding, Shows
  <2>3. QED
    BY <2>1, <2>2
<1>5. /\ panel' = RolledBack /\ task' = NoTask
      /\ torn' = IF HeldIn(RolledBack[p]) \subseteq registered THEN torn ELSE torn \cup {p}
  BY <1>1 DEF Failed, HeldIn
<1>6. panel' \in [Panels -> Views'] /\ \A q \in Panels : panel'[q] = rest[q]
  <2>1. \A v \in Views : v \in Views'
    BY ViewsGrow
  <2>2. QED
    BY <1>4, <1>5, <2>1
<1>7. Rests(rest)' /\ Parents'
  BY RestsStay, ParentsStay DEF Holding
<1>8. ASSUME NEW q \in Panels \ torn' PROVE HeldIn(rest[q]) \subseteq registered'
  <2>1. CASE q = p
    <3>1. HeldIn(RolledBack[p]) \subseteq registered
      BY <1>5, <1>8, <2>1
    <3>2. QED
      BY <1>2, <1>4, <2>1, <3>1
  <2>2. CASE q # p
    <3>1. q \notin torn
      BY <1>5, <1>8
    <3>2. QED
      BY <1>1, <2>2, <3>1 DEF Holding, Kept
  <2>3. QED
    BY <2>1, <2>2
<1>9. displaced' = {} => \A t \in registered' : \E q \in Panels : t \in HeldIn(rest[q])
  BY DEF Holding, Covered
<1>10. DOMAIN rest = Panels /\ closing' = <<>>
  BY DEF Holding, Shows, Working
<1>11. QED
  BY <1>5, <1>6, <1>7, <1>8, <1>9, <1>10, Settles

\* A task that closes opened no session but the one it discards, which is clean.
LEMMA NewWhileClosing ==
  ASSUME IInv, NEW rest, Holding(rest), task.stage = "closing"
  PROVE  IF task.kind = "discard" THEN New = task.todo ELSE New = {}
BY DEF New

\* Only a task that closes has sessions to close.
LEMMA ClosersHaveWork ==
  ASSUME NEW rest, Holding(rest), task.stage = "closing", NEW t \in task.todo
  PROVE  task.kind \in Giving \cup {"up", "discard"} /\ t \in DOMAIN session
BY DEF Holding, Shaped, TaskShape, Giving

LEMMA StartCloseHolds ==
  ASSUME IInv, NEW rest, Holding(rest), StartClose
  PROVE  Holding(rest)'
<1>1. PICK t \in Innermost(task.todo) :
        /\ \/ Begin(worker, "close", t) /\ UNCHANGED <<panel, task, torn>>
           \/ t \notin registered /\ Failed /\ UNCHANGED registry
        /\ closing' = closing /\ displaced' = displaced
  BY DEF StartClose
<1>2. task.stage = "closing" /\ call[worker] = NoCall /\ t \in task.todo
  BY <1>1 DEF StartClose, Idle, Innermost
<1>3. /\ task.kind \in Giving \cup {"up", "discard"}
      /\ IF task.kind = "discard" THEN New = task.todo ELSE New = {}
  BY <1>2, ClosersHaveWork, NewWhileClosing
<1>4. worker \in Threads /\ closer \in Threads /\ worker # closer
  BY ThreadsAssumption
<1>5. CASE Begin(worker, "close", t) /\ UNCHANGED <<panel, task, torn>>
  <2>1. /\ call' = [call EXCEPT ![worker] = Found("close", t)] /\ session' = session
        /\ registered' = registered /\ panel' = panel /\ task' = task /\ torn' = torn
    BY <1>5 DEF Begin
  <2>2. SessionsStay /\ \A x \in New : ~session'[x].dirty
    BY <2>1 DEF SessionsStay, Holding, Unseen
  <2>3. call \in [Threads -> CallType \cup {NoCall}]
    BY DEF IInv, CallsOK
  <2>4. call'[closer] = call[closer] /\ call'[worker] = Found("close", t)
    BY <1>4, <2>1, <2>3
  <2>5. Working'
    <3>1. call'[worker].op = "close" /\ call'[worker].token = t
      BY <2>4 DEF Found
    <3>2. t \in Innermost(task.todo)'
      BY <1>1, <2>1 DEF Innermost
    <3>3. QED
      BY <1>1, <1>2, <1>3, <2>1, <2>4, <3>1, <3>2 DEF Holding, Working, Giving
  <2>6. QED
    BY <1>1, <2>1, <2>2, <2>5, SameWork
<1>6. CASE t \notin registered /\ Failed /\ UNCHANGED registry
  <2>1. session' = session /\ registered' = registered /\ call' = call
    BY <1>6 DEF registry
  <2>2. SessionsStay
    BY <2>1 DEF SessionsStay
  <2>3. New \cap registered = {}
    <3>1. \A x, y \in New : x = y
      BY DEF Holding, Unseen
    <3>2. QED
      BY <1>2, <1>3, <1>6, <3>1
  <2>4. call'[closer] = NoCall /\ call'[worker] = NoCall
    BY <1>2, <2>1 DEF Holding, Working
  <2>5. QED
    BY <1>1, <1>3, <1>6, <2>1, <2>2, <2>3, <2>4, FailedSettles
<1>7. QED
  BY <1>1, <1>5, <1>6

\* What the closing of a session of a task does until the session is erased.
LEMMA CommitHolds ==
  ASSUME IInv, NEW rest, Holding(rest), task.stage = "closing", call[worker].op = "close",
         CloseClean(worker) \/ CommitToParent(worker) \/ CommitToRoot(worker),
         IF call'[worker] = NoCall THEN Failed ELSE UNCHANGED <<panel, task, torn>>,
         closing' = closing, displaced' = displaced
  PROVE  Holding(rest)'
<1>1. worker \in Threads /\ closer \in Threads /\ worker # closer
  BY ThreadsAssumption
<1>2. call[worker] # NoCall
  BY DEF NoCall
<1>3. PICK c : c = call[worker]
  OBVIOUS
<1>4. /\ c.token \in Innermost(task.todo) /\ c.op = "close"
      /\ call \in [Threads -> CallType \cup {NoCall}] /\ c \in CallType
  BY <1>1, <1>2, <1>3, CallHasSession DEF Holding, Working, IInv, CallsOK
<1>5. c.token \in task.todo
  BY <1>4 DEF Innermost
<1>6. /\ task.kind \in Giving \cup {"up", "discard"} /\ c.token \in DOMAIN session
      /\ IF task.kind = "discard" THEN New = task.todo ELSE New = {}
  BY <1>5, ClosersHaveWork, NewWhileClosing
<1>7. SessionsStay /\ registered' = registered
  <2>1. CASE CloseClean(worker)
    BY <2>1 DEF CloseClean, SessionsStay
  <2>2. CASE CommitToParent(worker) \/ CommitToRoot(worker)
    BY <1>1, <2>2, WrittenHere
  <2>3. QED
    BY <2>1, <2>2
<1>8. ASSUME task.kind = "discard"
      PROVE  /\ CloseClean(worker) /\ session' = session
             /\ \A t \in New : ~session'[t].dirty
  <2>1. ~session[c.token].dirty /\ \A t \in New : ~session[t].dirty
    BY <1>5, <1>6, <1>8 DEF Holding, Unseen
  <2>2. CloseClean(worker)
    BY <1>3, <2>1 DEF CommitToParent, CommitToRoot
  <2>3. session' = session
    BY <2>2 DEF CloseClean
  <2>4. QED
    BY <2>1, <2>2, <2>3
<1>9. call'[closer] = NoCall
  <2>1. call[closer] = NoCall
    BY DEF Holding, Working
  <2>2. \/ call' = [call EXCEPT ![worker].stage = "committed"]
        \/ call' = [call EXCEPT ![worker] = NoCall]
    BY DEF CloseClean, CommitToParent, CommitToRoot, Committed, Return
  <2>3. QED
    BY <1>1, <1>4, <2>1, <2>2
<1>10. CASE call'[worker] = NoCall
  <2>1. task.kind # "discard"
    <3>1. SUFFICES ASSUME CloseClean(worker) PROVE call'[worker] # NoCall
      BY <1>8, <1>10
    <3>2. call' = [call EXCEPT ![worker].stage = "committed"]
      BY <3>1 DEF CloseClean, Committed
    <3>3. call'[worker] = [c EXCEPT !.stage = "committed"]
      BY <1>1, <1>3, <1>4, <3>2
    <3>4. call'[worker].stage = "committed"
      BY <1>4, <3>3 DEF CallType
    <3>5. QED
      BY <3>4 DEF NoCall
  <2>2. New = {} /\ Failed
    BY <1>6, <1>10, <2>1
  <2>3. QED
    BY <1>6, <1>7, <1>9, <1>10, <2>2, FailedSettles
<1>11. CASE call'[worker] # NoCall
  <2>1. panel' = panel /\ task' = task /\ torn' = torn
    BY <1>11
  <2>2. call' = [call EXCEPT ![worker].stage = "committed"]
    <3>1. \/ call' = [call EXCEPT ![worker].stage = "committed"]
          \/ call' = [call EXCEPT ![worker] = NoCall]
      BY DEF CloseClean, CommitToParent, CommitToRoot, Committed, Return
    <3>2. QED
      BY <1>1, <1>4, <1>11, <3>1
  <2>3. call'[worker] = [c EXCEPT !.stage = "committed"]
    BY <1>1, <1>3, <1>4, <2>2
  <2>4. call'[worker].op = "close" /\ call'[worker].token = c.token
    BY <1>4, <2>3 DEF CallType
  <2>5. c.token \in Innermost(task.todo)'
    <3>1. \A t \in task.todo : t \in DOMAIN session
      BY ClosersHaveWork
    <3>2. \A t \in task.todo : session'[t].level = session[t].level
      BY <1>7, <3>1 DEF SessionsStay
    <3>3. QED
      BY <1>4, <2>1, <3>2 DEF Innermost
  <2>6. Working'
    BY <1>6, <1>9, <2>1, <2>4, <2>5 DEF Holding, Working
  <2>7. \A t \in New : ~session'[t].dirty
    BY <1>6, <1>8
  <2>8. QED
    BY <1>7, <2>1, <2>6, <2>7, SameWork
<1>12. QED
  BY <1>10, <1>11

\* A close that is refused or fails is of a changed session: the task is not a discard.
LEMMA RefusedHolds ==
  ASSUME IInv, NEW rest, Holding(rest), task.stage = "closing", call[worker].op = "close",
         Refuse(worker) \/ Fail(worker), Failed, closing' = closing, displaced' = displaced
  PROVE  Holding(rest)'
<1>1. worker \in Threads /\ closer \in Threads /\ worker # closer
  BY ThreadsAssumption
<1>2. call[worker] # NoCall
  BY DEF NoCall
<1>3. PICK t : t = call[worker].token
  OBVIOUS
<1>4. t \in task.todo
  BY <1>2, <1>3 DEF Holding, Working, Innermost
<1>5. /\ task.kind \in Giving \cup {"up", "discard"}
      /\ IF task.kind = "discard" THEN New = task.todo ELSE New = {}
  BY <1>4, ClosersHaveWork, NewWhileClosing
<1>6. session[t].dirty
  <2>1. CASE Refuse(worker)
    <3>1. ~Servable(worker)
      BY <2>1 DEF Refuse
    <3>2. QED
      BY <1>3, <3>1 DEF Servable
  <2>2. CASE Fail(worker)
    BY <1>3, <2>2 DEF Fail
  <2>3. QED
    BY <2>1, <2>2
<1>7. New = {}
  <2>1. task.kind # "discard"
    BY <1>4, <1>5, <1>6 DEF Holding, Unseen
  <2>2. QED
    BY <1>5, <2>1
<1>8. /\ call' = [call EXCEPT ![worker] = NoCall]
      /\ session' = session /\ registered' = registered
  BY DEF Refuse, Fail, Return
<1>9. call'[worker] = NoCall /\ call'[closer] = NoCall
  BY <1>1, <1>8 DEF IInv, CallsOK, Holding, Working
<1>10. SessionsStay
  BY <1>8 DEF SessionsStay
<1>11. QED
  BY <1>5, <1>7, <1>8, <1>9, <1>10, FailedSettles

\* Of the sessions that are open, none is nested in the one that is erased: it would
\* be of the same task, and closed before.
LEMMA NothingInside ==
  ASSUME IInv, NEW rest, Holding(rest), task.stage = "closing", displaced = {},
         NEW t \in Innermost(task.todo), NEW u \in registered, session[u].parent = t
  PROVE  FALSE
<1>1. t \in task.todo
  BY DEF Innermost
<1>2. /\ task.kind \in Giving \cup {"up", "discard"} /\ t \in DOMAIN session
      /\ IF task.kind = "discard" THEN New = task.todo ELSE New = {}
  BY <1>1, ClosersHaveWork, NewWhileClosing
<1>3. SessionsSound /\ u \in DOMAIN session /\ t # NoToken
  BY <1>2, SessionIsSound DEF IInv, CallsOK
<1>4. session[u].level = session[t].level + 1 /\ session[u].level \in Nat /\ session[t].level \in Nat
  <2>1. session[u].level = session[t].level + 1
    BY <1>3, RootsAreOutermost
  <2>2. session[u].level \in Levels /\ session[t].level \in Levels
    BY <1>2, <1>3, SessionIsSound
  <2>3. QED
    BY <2>1, <2>2, BoundsAssumption DEF Levels
<1>5. u \notin task.todo
  <2>1. SUFFICES ASSUME u \in task.todo PROVE FALSE
    OBVIOUS
  <2>2. session[u].level <= session[t].level
    BY <2>1 DEF Innermost
  <2>3. QED
    BY <1>4, <2>2
<1>6. u \notin New
  BY <1>2, <1>5
<1>7. PICK q \in Panels : u \in HeldIn(rest[q])
  BY <1>6 DEF Holding, Covered
<1>8. ASSUME NEW r \in Panels, u \in HeldIn(rest[r]) PROVE t \in HeldIn(rest[r])
  <2>1. Regular(rest[r]) /\ Chained(rest[r])
    BY DEF Holding, Rests
  <2>2. QED
    BY <1>3, <1>8, <2>1, ChainHasParents
<1>9. PICK p : p = task.panel
  OBVIOUS
<1>10. /\ p \in Panels /\ \A r \in Panels \ {p} : t \notin HeldIn(rest[r])
       /\ t \in Leaving(rest) \cup New
       /\ \A x \in Leaving(rest) \cap registered :
            x \in task.todo \/ \E r \in Panels \ {p} : x \in HeldIn(rest[r])
  BY <1>1, <1>9 DEF Holding, Owned, Others, Shaped, TaskShape
<1>11. q = p /\ u \in HeldIn(rest[p]) /\ t \in HeldIn(rest[p])
  BY <1>7, <1>8, <1>10
<1>12. t \in Leaving(rest)
  BY <1>10, <1>11 DEF Holding, Unseen
<1>13. u \notin Leaving(rest)
  BY <1>5, <1>8, <1>10
<1>14. task.kind = "up" /\ t = rest[p].current
  BY <1>2, <1>9, <1>11, <1>12, <1>13 DEF Leaving
<1>15. Regular(rest[p])
  BY <1>10 DEF Holding, Rests
<1>16. session[u].level <= Len(rest[p].stack) /\ session[t].level = Len(rest[p].stack)
  BY <1>3, <1>11, <1>14, <1>15, HeldInViews DEF Regular
<1>17. QED
  BY <1>4, <1>16

\* A session is erased when nothing open is nested in it.
LEMMA EraseHolds ==
  ASSUME IInv, NEW rest, Holding(rest), task.stage = "closing", call[worker].op = "close",
         Erase(worker), task' = [task EXCEPT !.todo = @ \ {call[worker].token}],
         panel' = panel, torn' = torn, closing' = closing, displaced' = displaced
  PROVE  Holding(rest)'
<1>1. worker \in Threads /\ closer \in Threads /\ worker # closer
  BY ThreadsAssumption
<1>2. PICK t : t = call[worker].token
  OBVIOUS
<1>3. call[worker] # NoCall
  BY DEF NoCall
<1>4. t \in Innermost(task.todo) /\ t \in task.todo
  BY <1>2, <1>3 DEF Holding, Working, Innermost
<1>5. /\ task.kind \in Giving \cup {"up", "discard"}
      /\ IF task.kind = "discard" THEN New = task.todo ELSE New = {}
  BY <1>4, ClosersHaveWork, NewWhileClosing
<1>6. /\ registered' = registered \ {t} /\ call' = [call EXCEPT ![worker] = NoCall]
      /\ session' = session
  BY <1>2 DEF Erase, Return
<1>7. call'[worker] = NoCall /\ call'[closer] = NoCall
  BY <1>1, <1>6 DEF IInv, CallsOK, Holding, Working
<1>8. SessionsStay
  BY <1>6 DEF SessionsStay
<1>9. task \in TaskShape
  BY DEF Holding, Shaped
<1>10. /\ task'.kind = task.kind /\ task'.panel = task.panel /\ task'.stage = task.stage
       /\ task'.view = task.view /\ task'.todo = task.todo \ {t}
       /\ task' \in TaskShape
  BY <1>2, <1>9 DEF TaskShape
<1>11. Shows(rest)' /\ Rests(rest)'
  BY <1>8, <1>10, ShowsStay, RestsStay DEF Holding
<1>12. Shaped(rest)'
  <2>1. task' \in TaskShape'
    BY <1>6, <1>10 DEF TaskShape, Views
  <2>2. task.kind = "bind" => Regular(task.view)' /\ (displaced' = {} => Chained(task.view)')
    BY <1>8, RegularStays DEF Holding, Shaped
  <2>3. task.kind # "none" /\ task.stage = "closing"
    BY <1>5 DEF Giving
  <2>4. QED
    BY <1>10, <2>1, <2>2, <2>3 DEF Holding, Shaped, Others
<1>13. /\ Leaving(rest)' = Leaving(rest)
       /\ New' = IF task.kind = "discard" THEN New \ {t} ELSE {}
  BY <1>5, <1>10 DEF Leaving, New
<1>14. /\ \A q \in Panels \ {task.panel} : t \notin HeldIn(rest[q])
       /\ t \in Leaving(rest) \cup New
       /\ t \in New => t \notin HeldIn(rest[task.panel])
  BY <1>4, <1>9 DEF Holding, Owned, Unseen, Others, TaskShape
<1>15. Owned(rest)'
  BY <1>5, <1>6, <1>10, <1>13 DEF Holding, Owned, Others
<1>16. Unseen(rest)'
  BY <1>5, <1>6, <1>10, <1>13, <1>14 DEF Holding, Unseen
<1>17. Kept(rest)'
  BY <1>6, <1>10, <1>13, <1>14 DEF Holding, Kept
<1>18. Covered(rest)'
  <2>1. \A u \in New : u \in registered' => u \in New'
    BY <1>5, <1>6, <1>13
  <2>2. QED
    BY <1>6, <2>1 DEF Holding, Covered
<1>19. Parents'
  <2>1. ASSUME displaced = {}, NEW u \in registered'
        PROVE  session[u].parent = NoToken \/ session[u].parent \in registered'
    <3>1. u \in registered
      BY <1>6
    <3>2. session[u].parent # t
      BY <1>4, <2>1, <3>1, NothingInside
    <3>3. QED
      BY <1>6, <2>1, <3>1, <3>2 DEF Holding, Parents
  <2>2. QED
    BY <1>6, <2>1 DEF Parents
<1>20. Working'
  BY <1>7 DEF Holding, Working
<1>21. QED
  BY <1>11, <1>12, <1>15, <1>16, <1>17, <1>18, <1>19, <1>20 DEF Holding

LEMMA StepCloseHolds ==
  ASSUME IInv, NEW rest, Holding(rest), StepClose
  PROVE  Holding(rest)'
<1>1. /\ task.stage = "closing" /\ call[worker].op = "close"
      /\ closing' = closing /\ displaced' = displaced
  BY DEF StepClose
<1>2. CASE /\ CloseClean(worker) \/ CommitToParent(worker) \/ CommitToRoot(worker)
           /\ IF call'[worker] = NoCall THEN Failed ELSE UNCHANGED <<panel, task, torn>>
  BY <1>1, <1>2, CommitHolds
<1>3. CASE (Refuse(worker) \/ Fail(worker)) /\ Failed
  BY <1>1, <1>3, RefusedHolds
<1>4. CASE /\ Erase(worker)
           /\ task' = [task EXCEPT !.todo = @ \ {call[worker].token}]
           /\ UNCHANGED <<panel, torn>>
  BY <1>1, <1>4, EraseHolds
<1>5. QED
  BY <1>2, <1>3, <1>4 DEF StepClose

\* What the panel held is closed, or held by the other panel.
LEMMA GivenUp ==
  ASSUME NEW rest, Holding(rest), task.todo = {}, New \cap registered = {}, displaced = {},
         NEW t \in registered
  PROVE  \/ \E q \in Others : t \in HeldIn(rest[q])
         \/ task.panel \in Panels /\ t \in HeldIn(rest[task.panel]) \ Leaving(rest)
<1>1. PICK q \in Panels : t \in HeldIn(rest[q])
  BY DEF Holding, Covered
<1>2. t \in Leaving(rest) => \E r \in Others : t \in HeldIn(rest[r])
  BY DEF Holding, Owned
<1>3. task.panel \in Panels
  BY DEF Holding, Shaped, TaskShape
<1>4. QED
  BY <1>1, <1>2, <1>3 DEF Others

\* With everything closed a panel that gives its view up is outside.
LEMMA ClosedHolds ==
  ASSUME IInv, NEW rest, Holding(rest), Closed
  PROVE  \E r : Holding(r)'
<1>1. /\ task.kind \notin {"none", "shutdown"} /\ task.stage = "closing" /\ task.todo = {}
      /\ call[worker] = NoCall
      /\ session' = session /\ registered' = registered /\ call' = call
      /\ closing' = closing /\ displaced' = displaced
  BY DEF Closed, Idle, registry
<1>2. task.kind \in Giving \cup {"up", "discard"} /\ New = {} /\ task \in TaskShape
  <2>1. task.kind \in Giving \cup {"up", "discard"} /\ task \in TaskShape
    BY <1>1 DEF Holding, Shaped, TaskShape, Giving
  <2>2. New = {}
    BY <1>1, NewWhileClosing
  <2>3. QED
    BY <2>1, <2>2
<1>3. PICK p : p = task.panel
  OBVIOUS
<1>4. p \in Panels /\ SessionsStay /\ closing = <<>> /\ call[closer] = NoCall
  BY <1>1, <1>2, <1>3 DEF TaskShape, SessionsStay, Holding, Working
<1>5. Rests(rest)' /\ Parents'
  BY <1>1, <1>4, RestsStay, ParentsStay DEF Holding
<1>6. panel \in [Panels -> Views] /\ DOMAIN rest = Panels /\ Views' = Views
  BY <1>1 DEF Holding, Shows, Views
<1>7. ASSUME NEW t \in registered, displaced = {}
      PROVE  \/ \E q \in Panels \ {p} : t \in HeldIn(rest[q])
             \/ t \in HeldIn(rest[p]) \ Leaving(rest)
  BY <1>1, <1>2, <1>3, <1>7, GivenUp DEF Others
<1>8. CASE task.kind \in Giving
  <2>1. PICK r : r = [q \in Panels |-> IF q = p THEN Outside ELSE rest[q]]
    OBVIOUS
  <2>2. /\ panel' = [panel EXCEPT ![p] = Outside] /\ torn' = torn \ {p}
    BY <1>3, <1>8 DEF Closed, Giving
  <2>3. \A q \in Panels : panel[q] = rest[q]
    BY <1>8 DEF Holding, Shows, Giving
  <2>4. Outside \in Views
    BY DEF Outside, Views
  <2>5. panel' \in [Panels -> Views'] /\ \A q \in Panels : panel'[q] = r[q]
    <3> HIDE DEF Views
    <3>1. QED
      BY <1>4, <1>6, <2>1, <2>2, <2>3, <2>4
  <2>6. DOMAIN r = Panels /\ r[p] = Outside /\ \A q \in Panels \ {p} : r[q] = rest[q]
    BY <1>4, <2>1
  <2>7. Rests(r)'
    <3>1. Regular(Outside) /\ Chained(Outside)
      BY OutsideIsRegular
    <3>2. Regular(Outside)' /\ Chained(Outside)'
      BY <1>4, <3>1, RegularStays
    <3>3. QED
      BY <1>5, <2>6, <3>2 DEF Rests
  <2>8. \A q \in Panels \ torn' : HeldIn(r[q]) \subseteq registered
    <3>1. \A q \in Panels \ {p} : q \notin torn => HeldIn(rest[q]) \subseteq registered
      BY <1>3 DEF Holding, Kept
    <3>2. QED
      BY <2>2, <2>6, <3>1, OutsideIsRegular
  <2>9. displaced = {} => \A t \in registered : \E q \in Panels : t \in HeldIn(r[q])
    <3>1. Leaving(rest) = HeldIn(rest[p])
      BY <1>3, <1>8 DEF Leaving, Giving
    <3>2. QED
      BY <1>7, <2>6, <3>1
  <2>10. CASE task.kind = "leave"
    <3>1. task' = NoTask
      BY <1>1, <2>10 DEF Closed
    <3>2. Holding(r)'
      BY <1>1, <1>4, <1>5, <2>5, <2>6, <2>7, <2>8, <2>9, <3>1, Settles
    <3>3. QED
      BY <3>2
  <2>11. CASE task.kind # "leave"
    <3>1. PICK s \in {"opening", "loading"} :
            task' = [task EXCEPT !.stage = s] /\ (task.kind = "root" <=> s = "opening")
      BY <1>1, <1>8, <2>11 DEF Closed, Giving
    <3>2. /\ task'.kind = task.kind /\ task'.panel = p /\ task'.stage = s
          /\ task'.view = task.view /\ task'.todo = {} /\ task' \in TaskShape
      BY <1>1, <1>2, <1>3, <3>1 DEF TaskShape
    <3>3. Shows(r)'
      BY <1>8, <2>5, <2>6, <3>2 DEF Shows, Giving
    <3>4. Shaped(r)'
      <4>1. task' \in TaskShape'
        BY <1>1, <3>2 DEF TaskShape, Views
      <4>2. task.kind = "bind" => Regular(task.view)' /\ (displaced' = {} => Chained(task.view)')
        <5>1. PICK v : v = task.view
          OBVIOUS
        <5>2. task.kind = "bind" => Regular(v) /\ (displaced = {} => Chained(v))
          BY <5>1 DEF Holding, Shaped
        <5>3. task.kind = "bind" => Regular(v)' /\ (displaced' = {} => Chained(v)')
          BY <1>1, <1>4, <5>2, RegularStays
        <5>4. QED
          BY <3>2, <5>1, <5>3
      <4>3. /\ task.kind \in {"root", "prefix"} =>
                 task.view.in /\ task.view.stack = <<>> /\ task.view.current = NoToken
            /\ task.kind = "bind" =>
                 /\ task.view.in /\ task.view.current # NoToken
                 /\ \A q \in Panels \ {p} : HeldIn(task.view) \subseteq HeldIn(rest[q])
        BY <1>1, <1>3 DEF Holding, Shaped, Others
      <4>4. task.kind \in {"root", "prefix", "bind"}
        BY <1>8, <2>11 DEF Giving
      <4>5. QED
        BY <2>6, <3>1, <3>2, <4>1, <4>2, <4>3, <4>4 DEF Shaped, Giving, Others
    <3>5. Leaving(r)' = {} /\ New' = {}
      BY <1>8, <2>6, <3>1, <3>2, OutsideIsRegular DEF Leaving, New, Giving
    <3>6. Owned(r)' /\ Unseen(r)' /\ Kept(r)' /\ Covered(r)'
      BY <1>1, <2>8, <2>9, <3>2, <3>5 DEF Owned, Unseen, Kept, Covered
    <3>7. Working'
      BY <1>1, <1>4 DEF Working
    <3>8. Holding(r)'
      BY <1>5, <2>7, <3>3, <3>4, <3>6, <3>7 DEF Holding
    <3>9. QED
      BY <3>8
  <2>12. QED
    BY <2>10, <2>11
<1>9. CASE task.kind = "up"
  <2>1. task' = [task EXCEPT !.stage = "loading"] /\ panel' = panel /\ torn' = torn
    BY <1>1, <1>9 DEF Closed
  <2>2. /\ task'.kind = "up" /\ task'.panel = p /\ task'.stage = "loading"
        /\ task'.view = task.view /\ task'.todo = {} /\ task' \in TaskShape
    BY <1>1, <1>2, <1>3, <1>9, <2>1 DEF TaskShape
  <2>3. Shows(rest)'
    BY <1>3, <1>6, <1>9, <2>1, <2>2 DEF Holding, Shows
  <2>4. Shaped(rest)'
    <3>1. task' \in TaskShape'
      BY <1>1, <2>2 DEF TaskShape, Views
    <3>2. rest[p].in /\ rest[p].current # NoToken /\ task.view.current # NoToken
      BY <1>3, <1>9 DEF Holding, Shaped
    <3>3. QED
      BY <2>2, <3>1, <3>2 DEF Shaped, Giving
  <2>5. Leaving(rest)' = Leaving(rest) /\ New' = {}
    BY <1>3, <1>9, <2>2 DEF Leaving, New, Giving
  <2>6. Owned(rest)' /\ Unseen(rest)' /\ Kept(rest)' /\ Covered(rest)'
    BY <1>1, <1>2, <1>3, <2>1, <2>2, <2>5 DEF Holding, Owned, Unseen, Kept, Covered, Others
  <2>7. Working'
    BY <1>1, <1>4 DEF Working
  <2>8. QED
    BY <1>5, <2>3, <2>4, <2>6, <2>7 DEF Holding
<1>10. CASE task.kind = "discard"
  <2>1. task' = NoTask /\ panel' = panel /\ torn' = torn
    BY <1>1, <1>10 DEF Closed
  <2>2. \A q \in Panels : panel[q] = rest[q]
    BY <1>10 DEF Holding, Shows
  <2>3. Leaving(rest) = {}
    BY <1>10 DEF Leaving, Giving
  <2>4. \A q \in Panels \ torn : HeldIn(rest[q]) \subseteq registered
    BY <2>3 DEF Holding, Kept
  <2>5. displaced = {} => \A t \in registered : \E q \in Panels : t \in HeldIn(rest[q])
    BY <1>2 DEF Holding, Covered
  <2> HIDE DEF Views
  <2>6. Holding(rest)'
    BY <1>1, <1>4, <1>5, <1>6, <2>1, <2>2, <2>4, <2>5, Settles
  <2>7. QED
    BY <2>6
<1>11. QED
  BY <1>2, <1>8, <1>9, <1>10

-----------------------------------------------------------------------------
(* Opening.                                                                *)

\* The new session n is that of the task; nothing else changed.
LEMMA OpenedHolds ==
  ASSUME IInv, NEW rest, Holding(rest), task.stage = "opening", task.kind \in {"root", "nest"},
         NEW n, DOMAIN session' = DOMAIN session \cup {n}, n \notin DOMAIN session, n # NoToken,
         \A t \in DOMAIN session : session'[t] = session[t],
         registered' = registered \cup {n}, Returned(worker), ~session'[n].dirty,
         task' = [task EXCEPT !.stage = "loading",
                              !.view = [in |-> TRUE, current |-> n, stack |-> @.stack]],
         IF task.kind = "root" THEN session'[n].parent = NoToken
         ELSE session'[n].parent = rest[task.panel].current /\ session'[n].parent \in registered,
         Shows(rest)', closing' = closing, torn' = torn, displaced' = displaced
  PROVE  Holding(rest)'
<1>1. worker \in Threads /\ closer \in Threads /\ worker # closer
  BY ThreadsAssumption
<1>2. SessionsStay
  BY DEF SessionsStay
<1>3. PICK p, v : p = task.panel /\ v = [in |-> TRUE, current |-> n, stack |-> task.view.stack]
  OBVIOUS
<1>4. task \in TaskShape /\ task.todo = {}
  BY DEF Holding, Shaped
<1>5. task.view.stack \in Seq(DOMAIN session')
  <2>1. task.view \in Views'
    BY <1>2, <1>4, ViewsGrow DEF TaskShape
  <2>2. QED
    BY <2>1 DEF Views
<1>6. v \in Views'
  BY <1>3, <1>5 DEF Views
<1>7. /\ task'.kind = task.kind /\ task'.panel = p /\ task'.stage = "loading"
      /\ task'.todo = {} /\ task'.view = v
  BY <1>3, <1>4 DEF TaskShape
<1>8. task' \in TaskShape'
  <2>1. task' = [task EXCEPT !.stage = "loading", !.view = v]
    BY <1>3
  <2>2. task' \in [kind : {"root", "nest"}, panel : Panels, stage : {"loading"}, todo : {{}}, view : {v}]
    BY <1>4, <2>1 DEF TaskShape
  <2>3. {} \in SUBSET DOMAIN session'
    OBVIOUS
  <2>4. QED
    BY <1>6, <2>2, <2>3 DEF TaskShape
<1>9. p \in Panels
  BY <1>3, <1>4 DEF TaskShape
<1>10. Rests(rest)'
  BY <1>2, RestsStay DEF Holding
<1>11. Shaped(rest)'
  <2>1. task.kind = "root" => rest[p] = Outside /\ v.in /\ v.stack = <<>>
    BY <1>3 DEF Holding, Shaped, Giving
  <2>2. task.kind = "nest" => rest[p].in /\ rest[p].current # NoToken
    BY <1>3 DEF Holding, Shaped
  <2>3. QED
    BY <1>7, <1>8, <2>1, <2>2 DEF Shaped, Giving
<1>12. Leaving(rest)' = Leaving(rest) /\ Leaving(rest) = {}
  <2>1. task.kind = "root" => Leaving(rest) = HeldIn(rest[p]) /\ rest[p] = Outside
    BY <1>3 DEF Holding, Shaped, Leaving, Giving
  <2>2. task.kind = "nest" => Leaving(rest) = {}
    BY DEF Leaving, Giving
  <2>3. Leaving(rest)' = Leaving(rest)
    BY <1>3, <1>7 DEF Leaving
  <2>4. QED
    BY <2>1, <2>2, <2>3, OutsideIsRegular
<1>13. New' = {n} /\ New = {}
  BY <1>3, <1>7 DEF New
<1>14. \A q \in Panels : n \notin HeldIn(rest[q])
  <2>1. SessionsSound /\ \A q \in Panels : Regular(rest[q])
    BY DEF IInv, Holding, Rests
  <2>2. QED
    BY <2>1, HeldInViews
<1>15. Owned(rest)'
  BY <1>7, <1>12 DEF Owned
<1>16. Unseen(rest)'
  BY <1>3, <1>7, <1>13, <1>14 DEF Unseen
<1>17. Kept(rest)'
  BY <1>3, <1>7, <1>12 DEF Holding, Kept
<1>18. Covered(rest)'
  BY <1>13 DEF Holding, Covered
<1>19. Parents'
  <2>1. \A t \in registered : session'[t].parent = session[t].parent
    BY DEF IInv, CallsOK
  <2>2. session'[n].parent = NoToken \/ session'[n].parent \in registered
    OBVIOUS
  <2>3. QED
    BY <2>1, <2>2 DEF Holding, Parents
<1>20. Working'
  <2>1. call'[worker] = NoCall /\ call'[closer] = NoCall
    BY <1>1 DEF Returned, IInv, CallsOK, Holding, Working
  <2>2. QED
    BY <2>1 DEF Holding, Working
<1>21. QED
  BY <1>8, <1>10, <1>11, <1>15, <1>16, <1>17, <1>18, <1>19, <1>20 DEF Holding

\* A task that opens or changes something in a panel ends, with nothing to show.
LEMMA EndsOpening ==
  ASSUME IInv, SessionsStay, NEW rest, Holding(rest), task.stage = "opening",
         task' = NoTask, panel' = panel, registered' = registered,
         closing' = closing, torn' = torn, displaced' = displaced,
         call'[worker] = NoCall, call'[closer] = NoCall
  PROVE  Holding(rest)'
<1>1. task.kind \in {"root", "nest", "add"}
  BY DEF Holding, Shaped
<1>2. panel \in [Panels -> Views] /\ \A q \in Panels : panel[q] = rest[q]
  BY <1>1 DEF Holding, Shows
<1>3. panel' \in [Panels -> Views']
  <2>1. \A v \in Views : v \in Views'
    BY ViewsGrow
  <2>2. QED
    BY <1>2, <2>1
<1>4. Leaving(rest) = {} /\ New = {}
  <2>1. task.kind = "root" => rest[task.panel] = Outside
    BY DEF Holding, Shaped, Giving
  <2>2. QED
    BY <1>1, <2>1, OutsideIsRegular DEF Leaving, New, Giving
<1>5. /\ \A q \in Panels \ torn : HeldIn(rest[q]) \subseteq registered
      /\ displaced = {} => \A t \in registered : \E q \in Panels : t \in HeldIn(rest[q])
  BY <1>4 DEF Holding, Kept, Covered
<1>6. Rests(rest)' /\ Parents' /\ DOMAIN rest = Panels /\ closing = <<>>
  BY RestsStay, ParentsStay DEF Holding, Shows, Working
<1>7. QED
  BY <1>2, <1>3, <1>5, <1>6, Settles

\* The calls of a task that are refused, or fail: nothing else changes.
LEMMA Withdrawn ==
  ASSUME IInv, NEW rest, Holding(rest), Refuse(worker) \/ Fail(worker)
  PROVE  /\ SessionsStay /\ registered' = registered
         /\ call'[worker] = NoCall /\ call'[closer] = NoCall
<1>1. worker \in Threads /\ closer \in Threads /\ worker # closer
  BY ThreadsAssumption
<1>2. /\ call' = [call EXCEPT ![worker] = NoCall]
      /\ session' = session /\ registered' = registered
  BY DEF Refuse, Fail, Return
<1>3. QED
  BY <1>1, <1>2 DEF IInv, CallsOK, Holding, Working, SessionsStay

\* A task calls the backend for what its panel shows.
LEMMA CallBegins ==
  ASSUME IInv, NEW rest, Holding(rest), task.stage = "opening", NEW op \in {"open", "add"},
         task.kind = IF op = "open" THEN "nest" ELSE "add", Begin(worker, op, task.view.current),
         panel' = panel, task' = task, closing' = closing, torn' = torn, displaced' = displaced
  PROVE  Holding(rest)'
<1>1. worker \in Threads /\ closer \in Threads /\ worker # closer
  BY ThreadsAssumption
<1>2. PICK t : t = task.view.current
  OBVIOUS
<1>3. /\ call' = [call EXCEPT ![worker] = Found(op, t)] /\ session' = session
      /\ registered' = registered /\ t \in registered
  BY <1>2 DEF Begin
<1>4. SessionsStay /\ \A x \in New : ~session'[x].dirty
  BY <1>3 DEF SessionsStay, Holding, Unseen
<1>5. call'[worker] = Found(op, t) /\ call'[closer] = call[closer]
  BY <1>1, <1>3 DEF IInv, CallsOK
<1>6. call'[worker].op = op /\ call'[worker].token = t /\ call'[worker].stage = "found"
  BY <1>5 DEF Found
<1>7. Working'
  BY <1>2, <1>3, <1>5, <1>6 DEF Holding, Working
<1>8. QED
  BY <1>3, <1>4, <1>7, SameWork

LEMMA OpenRootHolds ==
  ASSUME IInv, NEW rest, Holding(rest), OpenRootOf
  PROVE  Holding(rest)'
<1>1. /\ task.kind = "root" /\ task.stage = "opening"
      /\ panel' = panel /\ closing' = closing /\ torn' = torn /\ displaced' = displaced
  BY DEF OpenRootOf, At
<1>2. worker \in Threads
  BY ThreadsAssumption
<1>3. CASE OpenRoot(worker) /\ task' = OpenedView(Len(session) + 1)
  <2>1. PICK n : n = Len(session) + 1
    OBVIOUS
  <2>2. /\ DOMAIN session' = DOMAIN session \cup {n} /\ n \notin DOMAIN session /\ n # NoToken
        /\ \A t \in DOMAIN session : session'[t] = session[t]
        /\ registered' = registered \cup {n} /\ Returned(worker) /\ ~session'[n].dirty
        /\ session'[n].parent = NoToken
    BY <1>2, <1>3, <2>1, OpenedHere
  <2>3. SessionsStay
    BY <2>2 DEF SessionsStay
  <2>4. task' = [task EXCEPT !.stage = "loading",
                             !.view = [in |-> TRUE, current |-> n, stack |-> @.stack]]
    BY <1>3, <2>1 DEF OpenedView
  <2>5. task \in TaskShape
    BY DEF Holding, Shaped
  <2>6. task'.kind = "root" /\ task'.panel = task.panel
    BY <1>1, <2>4, <2>5 DEF TaskShape
  <2>7. Shows(rest)'
    <3>1. panel \in [Panels -> Views] /\ \A q \in Panels : panel[q] = rest[q]
      BY <1>1 DEF Holding, Shows
    <3>2. \A v \in Views : v \in Views'
      BY <2>3, ViewsGrow
    <3>3. panel' \in [Panels -> Views']
      BY <1>1, <3>1, <3>2
    <3>4. QED
      BY <1>1, <2>6, <3>1, <3>3 DEF Holding, Shows
  <2>8. QED
    BY <1>1, <2>2, <2>4, <2>7, OpenedHolds
<1>4. CASE task' = NoTask /\ UNCHANGED registry
  <2>1. session' = session /\ registered' = registered /\ call' = call
    BY <1>4 DEF registry
  <2>2. SessionsStay /\ call[worker] = NoCall /\ call[closer] = NoCall
    BY <1>1, <2>1 DEF SessionsStay, Holding, Working
  <2>3. QED
    BY <1>1, <1>4, <2>1, <2>2, EndsOpening
<1>5. QED
  BY <1>3, <1>4 DEF OpenRootOf

\* A task that finds its session gone has no call under way.
LEMMA GoneIsIdle ==
  ASSUME NEW rest, Holding(rest), task.stage = "opening", task.view.current \notin registered
  PROVE  call[worker] = NoCall
<1>1. call[worker] # NoCall => call[worker].op = "close" /\ task.stage = "closing"
  BY DEF Holding, Working
<1>2. QED
  BY <1>1

\* A session nested in the one shown is opened, and the one shown pushed.
LEMMA OpenNestedHolds ==
  ASSUME IInv, NEW rest, Holding(rest), OpenNestedOf
  PROVE  Holding(rest)'
<1>1. /\ task.kind = "nest" /\ task.stage = "opening"
      /\ closing' = closing /\ torn' = torn /\ displaced' = displaced
  BY DEF OpenNestedOf, At
<1>2. worker \in Threads
  BY ThreadsAssumption
<1>3. PICK p, v : p = task.panel /\ v = panel[p]
  OBVIOUS
<1>4. /\ p \in Panels /\ task \in TaskShape /\ rest[p] = v /\ task.view = v
      /\ panel \in [Panels -> Views] /\ \A q \in Panels : panel[q] = rest[q]
      /\ v.in /\ v.current # NoToken
  <2>1. p \in Panels /\ task \in TaskShape
    BY <1>3 DEF Holding, Shaped, TaskShape
  <2>2. panel \in [Panels -> Views] /\ \A q \in Panels : panel[q] = rest[q]
    BY <1>1 DEF Holding, Shows
  <2>3. task.view = rest[p] /\ rest[p].in /\ rest[p].current # NoToken
    BY <1>1, <1>3 DEF Holding, Shaped
  <2>4. QED
    BY <1>3, <2>1, <2>2, <2>3
<1>5. CASE Idle(worker) /\ Begin(worker, "open", task.view.current) /\ UNCHANGED <<panel, task>>
  BY <1>1, <1>5, CallBegins
<1>6. CASE /\ OpenNested(worker) /\ task' = OpenedView(Len(session) + 1)
           /\ panel' = [panel EXCEPT ![task.panel].stack = Append(@, panel[task.panel].current)]
  <2>1. PICK n : n = Len(session) + 1
    OBVIOUS
  <2>2. /\ DOMAIN session' = DOMAIN session \cup {n} /\ n \notin DOMAIN session /\ n # NoToken
        /\ \A t \in DOMAIN session : session'[t] = session[t]
        /\ registered' = registered \cup {n} /\ Returned(worker) /\ ~session'[n].dirty
        /\ session'[n].parent = call[worker].token
    BY <1>2, <1>6, <2>1, OpenedHere
  <2>3. SessionsStay
    BY <2>2 DEF SessionsStay
  <2>4. task' = [task EXCEPT !.stage = "loading",
                             !.view = [in |-> TRUE, current |-> n, stack |-> @.stack]]
    BY <1>6, <2>1 DEF OpenedView
  <2>5. task'.kind = "nest" /\ task'.panel = p /\ task'.stage = "loading"
    BY <1>1, <1>3, <1>4, <2>4 DEF TaskShape
  <2>6. call[worker].token = v.current /\ v.current \in registered
    <3>1. call[worker] # NoCall
      BY <1>6 DEF OpenNested, Doing, NoCall
    <3>2. call[worker].op = "open"
      BY <1>6 DEF OpenNested, Doing
    <3>3. QED
      BY <1>4, <3>1, <3>2 DEF Holding, Working
  <2>7. Shows(rest)'
    <3>1. PICK w : w = [v EXCEPT !.stack = Append(v.stack, v.current)]
      OBVIOUS
    <3>2. panel' = [panel EXCEPT ![p] = w]
      BY <1>3, <1>6, <3>1
    <3>3. w \in Views /\ w.in = v.in /\ w.current = v.current /\ w.stack = Append(v.stack, v.current)
      <4>1. v \in Views
        BY <1>3, <1>4
      <4>2. v.stack \in Seq(DOMAIN session) /\ v.current \in DOMAIN session
        BY <1>4, <4>1 DEF Views
      <4>3. Append(v.stack, v.current) \in Seq(DOMAIN session)
        BY <4>2
      <4>4. QED
        BY <3>1, <4>1, <4>3 DEF Views
    <3>4. \A x \in Views : x \in Views'
      BY <2>3, ViewsGrow
    <3> HIDE DEF Views
    <3>5. /\ panel' \in [Panels -> Views'] /\ panel'[p] = w
          /\ \A q \in Panels \ {p} : panel'[q] = rest[q]
      BY <1>4, <3>2, <3>3, <3>4
    <3>6. DOMAIN rest = Panels
      BY DEF Holding, Shows
    <3>7. /\ panel'[p].in = rest[p].in /\ panel'[p].current = rest[p].current
          /\ panel'[p].stack = Append(rest[p].stack, rest[p].current)
      BY <1>4, <3>3, <3>5
    <3>8. \A q \in Panels \ {p} : panel'[q] = rest[q] /\ task'.panel # q
      BY <2>5, <3>5
    <3>9. QED
      BY <2>5, <3>5, <3>6, <3>7, <3>8 DEF Shows
  <2>8. session'[n].parent = rest[task.panel].current /\ session'[n].parent \in registered
    BY <1>3, <1>4, <2>2, <2>6
  <2>9. QED
    BY <1>1, <2>2, <2>4, <2>7, <2>8, OpenedHolds
<1>7. CASE (Refuse(worker) \/ Fail(worker)) /\ task' = NoTask /\ UNCHANGED panel
  <2>1. /\ SessionsStay /\ registered' = registered
        /\ call'[worker] = NoCall /\ call'[closer] = NoCall
    BY <1>7, Withdrawn
  <2>2. QED
    BY <1>1, <1>7, <2>1, EndsOpening
<1>8. CASE task.view.current \notin registered /\ task' = NoTask /\ UNCHANGED <<registry, panel>>
  <2>1. session' = session /\ registered' = registered /\ call' = call /\ panel' = panel
    BY <1>8 DEF registry
  <2>2. SessionsStay /\ call[worker] = NoCall /\ call[closer] = NoCall
    BY <1>1, <1>8, <2>1, GoneIsIdle DEF SessionsStay, Holding, Working
  <2>3. QED
    BY <1>1, <1>8, <2>1, <2>2, EndsOpening
<1>9. QED
  BY <1>5, <1>6, <1>7, <1>8 DEF OpenNestedOf

\* A view that is loaded again, from a session of the same level.
LEMMA ReloadedView ==
  ASSUME SessionsSound, NEW v, Regular(v), v.in, NEW t \in DOMAIN session,
         session[t].level = Len(v.stack), NEW w, w = [v EXCEPT !.current = t]
  PROVE  /\ Regular(w) /\ HeldIn(w) \subseteq HeldIn(v) \cup {t}
         /\ v.current \in {t, NoToken} =>
              HeldIn(v) \subseteq HeldIn(w) /\ (Chained(v) => Chained(w))
<1>1. v \in Views /\ t # NoToken
  BY SessionIsSound DEF Regular
<1>2. w \in Views /\ w.in /\ w.current = t /\ w.stack = v.stack
  BY <1>1 DEF Views
<1>3. Regular(w)
  BY <1>1, <1>2 DEF Regular
<1>4. HeldIn(w) \subseteq HeldIn(v) \cup {t}
  BY <1>2 DEF HeldIn
<1>5. CASE v.current = t
  BY <1>2, <1>3, <1>4, <1>5 DEF HeldIn, Chained
<1>6. CASE v.current = NoToken
  <2>1. v.stack = <<>>
    BY <1>6 DEF Regular
  <2>2. Chained(w)
    BY <1>2, <2>1 DEF Chained
  <2>3. QED
    BY <1>2, <1>3, <1>4, <1>6, <2>2 DEF HeldIn
<1>7. QED
  BY <1>3, <1>4, <1>5, <1>6

\* After a change the panels that match it are loaded again.
LEMMA ReloadHolds ==
  ASSUME IInv, SessionsStay, NEW rest, Holding(rest), task.kind = "add", task.stage = "opening",
         NEW t \in registered, Reload(t), task' = NoTask, registered' = registered,
         closing' = closing, torn' = torn, call'[worker] = NoCall, call'[closer] = NoCall
  PROVE  \E r : Holding(r)'
<1>1. PICK shown \in SUBSET Matching(t) :
        /\ panel' = [q \in Panels |->
                       IF q \in shown THEN [panel[q] EXCEPT !.current = t] ELSE panel[q]]
        /\ displaced' = displaced \cup ({panel[q].current : q \in shown} \ {t, NoToken})
  BY DEF Reload
<1>2. panel \in [Panels -> Views] /\ \A q \in Panels : panel[q] = rest[q]
  BY DEF Holding, Shows
<1>3. PICK r : r = [q \in Panels |->
                      IF q \in shown THEN [rest[q] EXCEPT !.current = t] ELSE rest[q]]
  OBVIOUS
<1>4. DOMAIN r = Panels /\ \A q \in Panels : panel'[q] = r[q]
  BY <1>1, <1>2, <1>3
<1>5. SessionsSound /\ t \in DOMAIN session
  BY DEF IInv, CallsOK
<1>6. ASSUME NEW q \in Panels
      PROVE  /\ Regular(r[q]) /\ HeldIn(r[q]) \subseteq HeldIn(rest[q]) \cup {t}
             /\ displaced' = {} => HeldIn(rest[q]) \subseteq HeldIn(r[q]) /\ Chained(r[q])
  <2>1. PICK v, w : v = rest[q] /\ w = r[q]
    OBVIOUS
  <2>2. Regular(v) /\ (displaced = {} => Chained(v))
    BY <2>1 DEF Holding, Rests
  <2>3. CASE q \in shown
    <3>1. q \in Matching(t) /\ w = [v EXCEPT !.current = t]
      BY <1>1, <1>3, <2>1, <2>3
    <3>2. v.in /\ session[t].level = Len(v.stack)
      BY <1>2, <2>1, <3>1 DEF Matching
    <3>3. displaced' = {} => v.current \in {t, NoToken} /\ displaced = {}
      BY <1>1, <1>2, <2>1, <2>3
    <3>4. /\ Regular(w) /\ HeldIn(w) \subseteq HeldIn(v) \cup {t}
          /\ v.current \in {t, NoToken} =>
               HeldIn(v) \subseteq HeldIn(w) /\ (Chained(v) => Chained(w))
      BY <1>5, <2>2, <3>1, <3>2, ReloadedView
    <3>5. QED
      BY <2>1, <2>2, <3>3, <3>4
  <2>4. CASE q \notin shown
    <3>1. w = v /\ (displaced' = {} => displaced = {})
      BY <1>1, <1>3, <2>1, <2>4
    <3>2. QED
      BY <2>1, <2>2, <3>1
  <2>5. QED
    BY <2>3, <2>4
<1>7. Rests(r)'
  <2>1. ASSUME NEW q \in Panels PROVE Regular(r[q])' /\ (displaced' = {} => Chained(r[q])')
    BY <1>6, RegularStays
  <2>2. QED
    BY <2>1 DEF Rests
<1>8. panel' \in [Panels -> Views']
  <2>1. \A q \in Panels : r[q] \in Views'
    BY <1>7 DEF Rests, Regular
  <2>2. DOMAIN panel' = Panels /\ panel' = [q \in Panels |-> panel'[q]]
    BY <1>1
  <2> HIDE DEF Views
  <2>3. QED
    BY <1>4, <2>1, <2>2
<1>9. Leaving(rest) = {} /\ New = {}
  BY DEF Leaving, New, Giving
<1>10. \A q \in Panels \ torn' : HeldIn(r[q]) \subseteq registered'
  <2>1. \A q \in Panels \ torn : HeldIn(rest[q]) \subseteq registered
    BY <1>9 DEF Holding, Kept
  <2>2. QED
    BY <1>6, <2>1
<1>11. displaced' = {} => displaced = {}
  BY <1>1
<1>12. displaced' = {} => \A x \in registered' : \E q \in Panels : x \in HeldIn(r[q])
  <2>1. displaced = {} => \A x \in registered : \E q \in Panels : x \in HeldIn(rest[q])
    BY <1>9 DEF Holding, Covered
  <2>2. QED
    BY <1>6, <1>11, <2>1
<1>13. Parents' /\ closing' = <<>>
  BY <1>11, ParentsStay DEF Holding, Working
<1>14. Holding(r)'
  BY <1>4, <1>7, <1>8, <1>10, <1>12, <1>13, Settles
<1>15. QED
  BY <1>14

LEMMA ChangeHolds ==
  ASSUME IInv, NEW rest, Holding(rest), Change
  PROVE  \E r : Holding(r)'
<1>1. /\ task.kind = "add" /\ task.stage = "opening"
      /\ closing' = closing /\ torn' = torn
  BY DEF Change, At
<1>2. worker \in Threads /\ closer \in Threads /\ worker # closer
  BY ThreadsAssumption
<1>3. CASE Idle(worker) /\ Begin(worker, "add", task.view.current)
           /\ UNCHANGED <<panel, task, displaced>>
  <2>1. Holding(rest)'
    BY <1>1, <1>3, CallBegins
  <2>2. QED
    BY <2>1
<1>4. CASE /\ Add(worker) /\ task' = NoTask
           /\ IF acked' = acked THEN UNCHANGED <<panel, displaced>> ELSE Reload(task.view.current)
  <2>1. SessionsStay /\ registered' = registered
    BY <1>2, <1>4, WrittenHere
  <2>2. call' = [call EXCEPT ![worker] = NoCall]
    BY <1>4 DEF Add, Written, Return
  <2>3. call'[worker] = NoCall /\ call'[closer] = NoCall
    BY <1>2, <2>2 DEF IInv, CallsOK, Holding, Working
  <2>4. task.view.current \in registered
    <3>1. call[worker] # NoCall
      BY <1>4 DEF Add, Doing, NoCall
    <3>2. call[worker].op = "add"
      BY <1>4 DEF Add, Doing
    <3>3. QED
      BY <3>1, <3>2 DEF Holding, Working
  <2>5. CASE acked' = acked
    <3>1. Holding(rest)'
      BY <1>1, <1>4, <2>1, <2>3, <2>5, EndsOpening
    <3>2. QED
      BY <3>1
  <2>6. CASE acked' # acked
    BY <1>1, <1>4, <2>1, <2>3, <2>4, <2>6, ReloadHolds
  <2>7. QED
    BY <2>5, <2>6
<1>5. CASE (Refuse(worker) \/ Fail(worker)) /\ task' = NoTask /\ UNCHANGED <<panel, displaced>>
  <2>1. /\ SessionsStay /\ registered' = registered
        /\ call'[worker] = NoCall /\ call'[closer] = NoCall
    BY <1>5, Withdrawn
  <2>2. Holding(rest)'
    BY <1>1, <1>5, <2>1, EndsOpening
  <2>3. QED
    BY <2>2
<1>6. CASE /\ task.view.current \notin registered /\ task' = NoTask
           /\ UNCHANGED <<registry, panel, displaced>>
  <2>1. /\ session' = session /\ registered' = registered /\ call' = call
        /\ panel' = panel /\ displaced' = displaced
    BY <1>6 DEF registry
  <2>2. SessionsStay /\ call[worker] = NoCall /\ call[closer] = NoCall
    BY <1>1, <1>6, <2>1, GoneIsIdle DEF SessionsStay, Holding, Working
  <2>3. Holding(rest)'
    BY <1>1, <1>6, <2>1, <2>2, EndsOpening
  <2>4. QED
    BY <2>3
<1>7. QED
  BY <1>3, <1>4, <1>5, <1>6 DEF Change

-----------------------------------------------------------------------------
(* Loading.                                                                *)

LEMMA FrontIsBack ==
  ASSUME NEW S, NEW s \in Seq(S), NEW e \in S
  PROVE  Front(Append(s, e)) = s
<1>1. PICK a : a = Append(s, e)
  OBVIOUS
<1>2. PICK n \in Nat : n = Len(s)
  OBVIOUS
<1>3. a \in Seq(S) /\ Len(a) = n + 1 /\ (n + 1) - 1 = n
  BY <1>1, <1>2
<1>4. Front(a) = SubSeq(a, 1, n)
  BY <1>3 DEF Front
<1>5. Front(a) \in Seq(S) /\ Len(Front(a)) = n /\ \A i \in 1..n : Front(a)[i] = a[i]
  BY <1>2, <1>3, <1>4
<1>6. \A i \in 1..n : a[i] = s[i]
  BY <1>1, <1>2
<1>7. QED
  BY <1>1, <1>2, <1>5, <1>6

\* While a view is loaded no call is under way and nothing is left to close.
LEMMA LoadingIsIdle ==
  ASSUME NEW rest, Holding(rest), task.stage = "loading"
  PROVE  /\ call[worker] = NoCall /\ call[closer] = NoCall /\ closing = <<>> /\ task.todo = {}
         /\ task.kind \in {"root", "nest", "prefix", "bind", "up"}
<1>1. call[worker] = NoCall /\ call[closer] = NoCall /\ closing = <<>>
  BY DEF Holding, Working
<1>2. task \in TaskShape /\ task.todo = {}
  BY DEF Holding, Shaped
<1>3. task.kind \notin {"none", "leave", "add", "discard"}
  BY DEF Holding, Shaped, NoTask
<1>4. QED
  BY <1>1, <1>2, <1>3 DEF TaskShape

\* What was opened and could not be shown is closed by a task that nobody waits for.
LEMMA DiscardHolds ==
  ASSUME IInv, NEW rest, Holding(rest), task.stage = "loading", task.kind \in {"root", "nest"},
         task' = Discard(task.view.current), \A q \in Panels : panel'[q] = rest[q],
         panel' \in [Panels -> Views], UNCHANGED registry,
         closing' = closing, torn' = torn, displaced' = displaced
  PROVE  Holding(rest)'
<1>1. /\ session' = session /\ registered' = registered /\ call' = call
      /\ DOMAIN session' = DOMAIN session /\ Views' = Views
  BY DEF registry, Views
<1>2. PICK n, p : n = task.view.current /\ p = task.panel
  OBVIOUS
<1>3. New = {n} /\ n \in DOMAIN session /\ task \in TaskShape /\ p \in Panels
  BY <1>2 DEF New, Holding, Unseen, Shaped, TaskShape
<1>4. Outside \in Views
  BY DEF Outside, Views
<1>5. /\ task'.kind = "discard" /\ task'.panel = p /\ task'.stage = "closing" /\ task'.todo = {n}
      /\ task'.view = Outside /\ task' \in TaskShape
  <2>1. task' = [kind |-> "discard", panel |-> p, stage |-> "closing", todo |-> {n}, view |-> Outside]
    BY <1>2 DEF Discard, NoTask
  <2>2. QED
    BY <1>3, <1>4, <2>1 DEF TaskShape
<1>6. SessionsStay
  BY <1>1 DEF SessionsStay
<1>7. Shows(rest)'
  BY <1>1, <1>5 DEF Holding, Shows
<1>8. Rests(rest)'
  BY <1>6, RestsStay DEF Holding
<1>9. Shaped(rest)'
  <2>1. task' \in TaskShape'
    BY <1>1, <1>5 DEF TaskShape
  <2>2. QED
    BY <1>5, <2>1 DEF Shaped, Giving
<1>10. Leaving(rest) = {} /\ Leaving(rest)' = {} /\ New' = {n}
  <2>1. task.kind = "root" => rest[task.panel] = Outside
    BY DEF Holding, Shaped, Giving
  <2>2. Leaving(rest) = {}
    BY <2>1, OutsideIsRegular DEF Leaving, Giving
  <2>3. QED
    BY <1>5, <2>2 DEF Leaving, New, Giving
<1>11. ~session[n].dirty /\ \A q \in Panels : n \notin HeldIn(rest[q])
  BY <1>3 DEF Holding, Unseen
<1>12. Owned(rest)'
  BY <1>5, <1>10, <1>11 DEF Owned, Others
<1>13. Unseen(rest)'
  BY <1>1, <1>3, <1>5, <1>10, <1>11 DEF Unseen
<1>14. Kept(rest)' /\ Covered(rest)' /\ Parents'
  BY <1>1, <1>3, <1>10 DEF Holding, Kept, Covered, Parents
<1>15. Working'
  BY <1>1, LoadingIsIdle DEF Working
<1>16. QED
  BY <1>7, <1>8, <1>9, <1>12, <1>13, <1>14, <1>15 DEF Holding

\* A view that cannot be loaded: the panel is as it was, and what was opened is closed.
LEMMA NotLoadedHolds ==
  ASSUME IInv, NEW rest, Holding(rest), NotLoaded
  PROVE  Holding(rest)'
<1>1. /\ task.stage = "loading" /\ UNCHANGED registry
      /\ closing' = closing /\ displaced' = displaced
  BY DEF NotLoaded
<1>2. /\ session' = session /\ registered' = registered /\ call' = call
      /\ call[worker] = NoCall /\ call[closer] = NoCall /\ SessionsStay
      /\ task.kind \in {"root", "nest", "prefix", "bind", "up"}
  BY <1>1, LoadingIsIdle DEF registry, SessionsStay
<1>3. panel \in [Panels -> Views]
  BY DEF Holding, Shows
<1>4. CASE task.kind = "root"
  <2>1. task' = Discard(task.view.current) /\ panel' = panel /\ torn' = torn
    BY <1>4 DEF NotLoaded
  <2>2. \A q \in Panels : panel[q] = rest[q]
    BY <1>4 DEF Holding, Shows
  <2>3. QED
    BY <1>1, <1>3, <1>4, <2>1, <2>2, DiscardHolds
<1>5. CASE task.kind = "nest"
  <2>1. PICK p, v : p = task.panel /\ v = panel[p]
    OBVIOUS
  <2>2. PICK w : w = [v EXCEPT !.stack = Front(v.stack)]
    OBVIOUS
  <2>3. /\ task' = Discard(task.view.current) /\ panel' = [panel EXCEPT ![p] = w] /\ torn' = torn
    BY <1>5, <2>1, <2>2 DEF NotLoaded
  <2>4. PICK o : o = rest[p]
    OBVIOUS
  <2>5. /\ p \in Panels /\ v.in = o.in /\ v.current = o.current
        /\ v.stack = Append(o.stack, o.current)
        /\ \A q \in Panels \ {p} : panel[q] = rest[q]
    BY <1>1, <1>5, <2>1, <2>4 DEF Holding, Shows, Shaped, TaskShape
  <2>6. o \in Views /\ o.current # NoToken
    BY <1>5, <2>1, <2>4, <2>5 DEF Holding, Shaped, Rests, Regular
  <2>7. Front(v.stack) = o.stack
    <3>1. o.stack \in Seq(DOMAIN session) /\ o.current \in DOMAIN session
      BY <2>6 DEF Views
    <3>2. QED
      BY <2>5, <3>1, FrontIsBack
  <2>8. w \in Views /\ w.in = v.in /\ w.current = v.current /\ w.stack = o.stack
    BY <1>3, <2>1, <2>2, <2>5, <2>6, <2>7 DEF Views
  <2>9. w = o
    BY <2>5, <2>6, <2>8, SameView
  <2> HIDE DEF Views
  <2>10. panel' \in [Panels -> Views] /\ \A q \in Panels : panel'[q] = rest[q]
    BY <1>3, <2>3, <2>4, <2>5, <2>8, <2>9
  <2>11. QED
    BY <1>1, <1>5, <2>3, <2>10, DiscardHolds
<1>6. CASE task.kind \notin {"root", "nest"}
  <2>1. Failed
    BY <1>6 DEF NotLoaded
  <2>2. New = {} /\ task.kind \in Giving \cup {"up", "discard"}
    BY <1>2, <1>6 DEF New, Giving
  <2>3. QED
    BY <1>1, <1>2, <2>1, <2>2, FailedSettles
<1>7. QED
  BY <1>4, <1>5, <1>6

\* The panel shows w now, which has what the task opened and what it did not take out.
LEMMA LoadedSettles ==
  ASSUME IInv, NEW rest, Holding(rest), task.stage = "loading", NEW p, p = task.panel,
         NEW w, Regular(w), displaced = {} => Chained(w),
         panel' = [panel EXCEPT ![p] = w], task' = NoTask, UNCHANGED registry,
         closing' = closing, displaced' = displaced, torn \subseteq torn',
         New \subseteq HeldIn(w), HeldIn(rest[p]) \ Leaving(rest) \subseteq HeldIn(w),
         p \notin torn' => HeldIn(w) \subseteq registered
  PROVE  \E r : Holding(r)'
<1>1. /\ session' = session /\ registered' = registered /\ call' = call
      /\ call[worker] = NoCall /\ call[closer] = NoCall /\ closing = <<>> /\ task.todo = {}
      /\ SessionsStay /\ Views' = Views
  BY LoadingIsIdle DEF registry, SessionsStay, Views
<1>2. /\ p \in Panels /\ panel \in [Panels -> Views] /\ DOMAIN rest = Panels /\ w \in Views
      /\ \A q \in Panels \ {p} : panel[q] = rest[q]
  BY DEF Holding, Shows, Shaped, TaskShape, Regular
<1>3. PICK r : r = [q \in Panels |-> IF q = p THEN w ELSE rest[q]]
  OBVIOUS
<1>4. DOMAIN r = Panels /\ r[p] = w /\ \A q \in Panels \ {p} : r[q] = rest[q]
  BY <1>2, <1>3
<1>5. panel' \in [Panels -> Views'] /\ \A q \in Panels : panel'[q] = r[q]
  <2> HIDE DEF Views
  <2>1. QED
    BY <1>1, <1>2, <1>4
<1>6. Rests(r)'
  <2>1. Regular(w)' /\ (displaced' = {} => Chained(w)')
    BY <1>1, RegularStays
  <2>2. Rests(rest)'
    BY <1>1, RestsStay DEF Holding
  <2>3. QED
    BY <1>4, <2>1, <2>2 DEF Rests
<1>7. \A q \in Panels \ torn' : HeldIn(r[q]) \subseteq registered'
  <2>1. \A q \in Panels \ {p} : q \notin torn => HeldIn(rest[q]) \subseteq registered
    BY DEF Holding, Kept
  <2>2. QED
    BY <1>1, <1>4, <2>1
<1>8. ASSUME displaced' = {}, NEW t \in registered' PROVE \E q \in Panels : t \in HeldIn(r[q])
  <2>1. t \in New \/ \E q \in Panels : t \in HeldIn(rest[q])
    BY <1>1, <1>8 DEF Holding, Covered
  <2>2. t \in Leaving(rest) => \E q \in Panels \ {p} : t \in HeldIn(rest[q])
    BY <1>1 DEF Holding, Owned, Others
  <2>3. t \in HeldIn(w) \/ \E q \in Panels \ {p} : t \in HeldIn(rest[q])
    BY <2>1, <2>2
  <2>4. QED
    BY <1>2, <1>4, <2>3
<1>9. Parents'
  BY <1>1, ParentsStay DEF Holding
<1>10. Holding(r)'
  BY <1>1, <1>4, <1>5, <1>6, <1>7, <1>8, <1>9, Settles
<1>11. QED
  BY <1>10

\* A session nested in the one that a view shows, which becomes a frame.
LEMMA InnerView ==
  ASSUME SessionsSound, NEW o, Regular(o), o.current # NoToken,
         NEW n \in DOMAIN session, session[n].parent = o.current,
         NEW w, w = [in |-> TRUE, current |-> n, stack |-> Append(o.stack, o.current)]
  PROVE  Regular(w) /\ (Chained(o) => Chained(w)) /\ HeldIn(w) = HeldIn(o) \cup {n}
<1>1. PICK s, c, m : s = o.stack /\ c = o.current /\ m = Len(s)
  OBVIOUS
<1>2. s \in Seq(DOMAIN session) /\ c \in DOMAIN session /\ m \in Nat /\ o.in
  BY <1>1 DEF Regular, Views, Outside
<1>3. PICK a : a = Append(s, c)
  OBVIOUS
<1>4. /\ a \in Seq(DOMAIN session) /\ Len(a) = m + 1 /\ a[m + 1] = c
      /\ \A i \in 1..m : a[i] = s[i]
  BY <1>1, <1>2, <1>3
<1>5. w.in /\ w.current = n /\ w.stack = a /\ n # NoToken
  BY <1>1, <1>3, SessionIsSound
<1>6. \A i \in 1..m + 1 : i \in 1..m \/ i = m + 1
  BY <1>2
<1>7. /\ session[c].level = m /\ \A i \in 1..m : session[s[i]].level = i - 1
      /\ (m + 1) - 1 = m
  BY <1>1, <1>2 DEF Regular
<1>8. session[n].level = m + 1
  BY <1>1, <1>7, SessionIsSound, RootsAreOutermost
<1>9. Regular(w)
  <2>1. w \in Views
    BY <1>1, <1>3, <1>4 DEF Views
  <2>2. \A i \in 1..m + 1 : session[a[i]].level = i - 1
    <3>1. session[a[m + 1]].level = (m + 1) - 1
      BY <1>4, <1>7
    <3>2. \A i \in 1..m : session[a[i]].level = i - 1
      BY <1>4, <1>7
    <3>3. QED
      BY <1>6, <3>1, <3>2
  <2>3. QED
    BY <1>4, <1>5, <1>8, <2>1, <2>2 DEF Regular
<1>10. ASSUME Chained(o) PROVE Chained(w)
  <2>1. a # <<>> => session[n].parent = a[Len(a)]
    BY <1>1, <1>4
  <2>2. ASSUME NEW i \in 2..Len(a) PROVE session[a[i]].parent = a[i - 1]
    <3>1. CASE i = m + 1
      <4>1. m \in 1..m /\ i - 1 = m /\ s # <<>>
        BY <1>1, <1>2, <1>4, <3>1
      <4>2. session[c].parent = s[m]
        BY <1>1, <1>10, <4>1 DEF Chained
      <4>3. QED
        BY <1>4, <3>1, <4>1, <4>2
    <3>2. CASE i # m + 1
      <4>1. i \in 2..m /\ i \in 1..m /\ i - 1 \in 1..m
        BY <1>2, <1>4, <3>2
      <4>2. session[s[i]].parent = s[i - 1]
        BY <1>1, <1>10, <4>1 DEF Chained
      <4>3. QED
        BY <1>4, <4>1, <4>2
    <3>3. QED
      BY <3>1, <3>2
  <2>3. QED
    BY <1>5, <2>1, <2>2 DEF Chained
<1>11. HeldIn(w) = HeldIn(o) \cup {n}
  <2>1. ToSet(a) = ToSet(s) \cup {c}
    <3>1. DOMAIN a = 1..m + 1 /\ DOMAIN s = 1..m /\ 1..m + 1 = (1..m) \cup {m + 1}
      BY <1>1, <1>2, <1>4
    <3>2. QED
      BY <1>4, <3>1 DEF ToSet
  <2>2. QED
    BY <1>1, <1>5, <2>1 DEF HeldIn
<1>12. QED
  BY <1>9, <1>10, <1>11

\* The panel shows the view of the task: one step for each kind of task.
LEMMA LoadedHolds ==
  ASSUME IInv, NEW rest, Holding(rest), Loaded
  PROVE  \E r : Holding(r)'
<1>1. /\ task.stage = "loading" /\ task' = NoTask /\ UNCHANGED registry
      /\ closing' = closing /\ displaced' = displaced
      /\ torn' = IF task.kind = "bind" /\ torn # {} THEN torn \cup {task.panel} ELSE torn
  BY DEF Loaded
<1>2. /\ task.kind \in {"root", "nest", "prefix", "bind", "up"}
      /\ SessionsSound /\ torn \subseteq torn'
  BY <1>1, LoadingIsIdle DEF IInv
<1>3. PICK p, v, o : p = task.panel /\ v = task.view /\ o = rest[p]
  OBVIOUS
<1>4. PICK w : w = [in |-> TRUE, current |-> v.current,
                    stack |-> IF task.kind = "bind" THEN v.stack ELSE panel[p].stack]
  OBVIOUS
<1>5. panel' = [panel EXCEPT ![p] = w]
  BY <1>3, <1>4 DEF Loaded
<1>6. w.in /\ w.current = v.current
      /\ w.stack = IF task.kind = "bind" THEN v.stack ELSE panel[p].stack
  BY <1>4
<1>7. /\ p \in Panels /\ v \in Views /\ Regular(o) /\ (displaced = {} => Chained(o))
      /\ v.current = NoToken \/ v.current \in registered
      /\ p \notin torn => HeldIn(o) \ Leaving(rest) \subseteq registered
  BY <1>3 DEF Holding, Shaped, TaskShape, Rests, Kept, Loaded, Listed
<1>8. SUFFICES /\ Regular(w) /\ (displaced = {} => Chained(w))
               /\ New \subseteq HeldIn(w) /\ HeldIn(o) \ Leaving(rest) \subseteq HeldIn(w)
               /\ p \notin torn' => HeldIn(w) \subseteq registered
  BY <1>1, <1>2, <1>3, <1>5, LoadedSettles
<1>9. CASE task.kind \in {"root", "prefix"}
  <2>1. o = Outside /\ panel[p] = o
    BY <1>1, <1>3, <1>7, <1>9 DEF Holding, Shaped, Shows, Giving
  <2>2. w.stack = <<>>
    BY <1>6, <1>9, <2>1 DEF Outside
  <2>3. HeldIn(w) = {v.current} \ {NoToken} /\ Chained(w)
    BY <1>6, <2>2 DEF HeldIn, Chained, ToSet
  <2>4. w \in Views
    <3>1. v.current \in DOMAIN session \cup {NoToken} /\ <<>> \in Seq(DOMAIN session)
      BY <1>7 DEF Views
    <3>2. w = [in |-> TRUE, current |-> v.current, stack |-> <<>>]
      BY <1>4, <1>6, <2>2
    <3>3. QED
      BY <3>1, <3>2 DEF Views
  <2>5. v.current # NoToken => session[v.current].level = 0
    <3>1. CASE task.kind = "root"
      <4>1. v.current \in DOMAIN session /\ session[v.current].parent = NoToken
        BY <1>1, <1>3, <3>1 DEF Holding, Unseen, New
      <4>2. QED
        BY <1>2, <4>1, RootsAreOutermost
    <3>2. CASE task.kind = "prefix"
      BY <1>3, <3>2 DEF Holding, Shaped
    <3>3. QED
      BY <1>9, <3>1, <3>2
  <2>6. Regular(w)
    BY <1>6, <2>2, <2>4, <2>5 DEF Regular
  <2>7. New \subseteq HeldIn(w)
    <3>1. New \subseteq {v.current} /\ \A t \in New : t \in DOMAIN session
      BY <1>3, <1>9 DEF Holding, Unseen, New
    <3>2. \A t \in DOMAIN session : t # NoToken
      BY <1>2, SessionIsSound
    <3>3. QED
      BY <2>3, <3>1, <3>2
  <2>8. QED
    BY <1>7, <2>1, <2>3, <2>6, <2>7, OutsideIsRegular
<1>10. CASE task.kind = "nest"
  <2>1. PICK n : n = v.current
    OBVIOUS
  <2>2. New = {n} /\ n \in DOMAIN session /\ session[n].parent = o.current
    BY <1>1, <1>3, <1>10, <2>1 DEF Holding, Unseen, New
  <2>3. o.current # NoToken /\ panel[p].stack = Append(o.stack, o.current)
    BY <1>1, <1>3, <1>7, <1>10 DEF Holding, Shaped, Shows
  <2>4. w = [in |-> TRUE, current |-> n, stack |-> Append(o.stack, o.current)]
    BY <1>4, <1>10, <2>1, <2>3
  <2>5. Regular(w) /\ (Chained(o) => Chained(w)) /\ HeldIn(w) = HeldIn(o) \cup {n}
    <3>1. SessionsSound
      BY <1>2
    <3>2. Regular(o)
      BY <1>7
    <3>3. o.current # NoToken
      BY <2>3
    <3>4. n \in DOMAIN session
      BY <2>2
    <3>5. session[n].parent = o.current
      BY <2>2
    <3>6. QED
      BY <2>4, <3>1, <3>2, <3>3, <3>4, <3>5, InnerView
  <2>6. Leaving(rest) = {} /\ n # NoToken /\ torn' = torn
    BY <1>1, <1>2, <1>10, <2>2, SessionIsSound DEF Leaving, Giving
  <2>7. QED
    BY <1>7, <2>1, <2>2, <2>5, <2>6
<1>11. CASE task.kind = "bind"
  <2>1. /\ Regular(v) /\ (displaced = {} => Chained(v)) /\ v.in
        /\ \A q \in Panels \ {p} : HeldIn(v) \subseteq HeldIn(rest[q])
    BY <1>3, <1>11 DEF Holding, Shaped, Others
  <2>2. w = v
    <3>1. w \in Views
      <4>1. v.current \in DOMAIN session \cup {NoToken} /\ v.stack \in Seq(DOMAIN session)
        BY <1>7 DEF Views
      <4>2. w = [in |-> TRUE, current |-> v.current, stack |-> v.stack]
        BY <1>4, <1>11
      <4>3. QED
        BY <4>1, <4>2 DEF Views
    <3>2. QED
      BY <1>6, <1>7, <1>11, <2>1, <3>1, SameView
  <2>3. New = {} /\ Leaving(rest) = HeldIn(o)
    BY <1>3, <1>11 DEF New, Leaving, Giving
  <2>4. ASSUME p \notin torn' PROVE HeldIn(v) \subseteq registered
    <3>1. torn = {}
      BY <1>1, <1>3, <1>11, <2>4
    <3>2. PICK q \in Panels : q # p
      BY <1>7 DEF Panels
    <3>3. HeldIn(rest[q]) \subseteq registered
      BY <1>3, <3>1, <3>2 DEF Holding, Kept
    <3>4. QED
      BY <2>1, <3>2, <3>3
  <2>5. QED
    BY <2>1, <2>2, <2>3, <2>4
<1>12. CASE task.kind = "up"
  <2>1. PICK s : s = panel[p].stack
    OBVIOUS
  <2>2. o.stack = Append(s, v.current) /\ v.current # NoToken
    BY <1>3, <1>7, <1>12, <2>1 DEF Holding, Shaped, Shows
  <2>3. s \in Seq(DOMAIN session) /\ v.current \in DOMAIN session
    <3>1. panel[p] \in Views
      BY <1>7 DEF Holding, Shows
    <3>2. QED
      BY <1>7, <2>1, <2>2, <3>1 DEF Views
  <2>4. Front(o.stack) = s /\ Last(o.stack) = v.current /\ o.stack # <<>>
    <3>1. Front(o.stack) = s
      BY <2>2, <2>3, FrontIsBack
    <3>2. Last(o.stack) = v.current /\ o.stack # <<>>
      BY <2>2, <2>3 DEF Last
    <3>3. QED
      BY <3>1, <3>2
  <2>5. w = [in |-> TRUE, current |-> Last(o.stack), stack |-> Front(o.stack)]
    BY <1>4, <1>12, <2>1, <2>4
  <2>6. /\ Regular(w) /\ (Chained(o) => Chained(w))
        /\ HeldIn(o) = HeldIn(w) \cup {o.current} /\ o.current \notin HeldIn(w)
    BY <1>2, <1>7, <2>4, <2>5, OuterView
  <2>7. Leaving(rest) = {o.current} /\ New = {} /\ torn' = torn
    BY <1>1, <1>3, <1>12 DEF Leaving, New, Giving
  <2>8. QED
    BY <1>7, <2>6, <2>7
<1>13. QED
  BY <1>2, <1>9, <1>10, <1>11, <1>12

-----------------------------------------------------------------------------
(* Every step.                                                             *)

\* Nothing is left to the closer before the window is closed.
LEMMA CloserWaits ==
  ASSUME NEW rest, Holding(rest), CloserStep
  PROVE  FALSE
<1>1. closing = <<>> /\ call[closer] = NoCall
  BY DEF Holding, Working
<1>2. call[closer].stage # "found" /\ call[closer].stage # "committed"
  BY <1>1 DEF NoCall
<1>3. QED
  BY <1>1, <1>2 DEF CloserStep, CloseClean, CommitToParent, CommitToRoot, Erase, Refuse, Fail, Doing

\* The window hands over what there is, when no task has a call under way.
LEMMA ShutdownEnds ==
  ASSUME NEW rest, Holding(rest), Shutdown
  PROVE  Ending'
<1>1. call' = call /\ task = NoTask
  BY DEF Shutdown, registry
<1>2. call[worker] = NoCall
  BY <1>1, QuietPanels
<1>3. QED
  BY <1>1, <1>2 DEF Shutdown, Ending

\* One step for each action.
LEMMA HoldingStep ==
  ASSUME IInv, NEW rest, Holding(rest), PanelsNext
  PROVE  Ending' \/ \E r : Holding(r)'
<1>1. ASSUME Holding(rest)' PROVE \E r : Holding(r)'
  BY <1>1
<1>2. ASSUME NEW p \in Panels, Starts(p) PROVE Holding(rest)'
  BY <1>2, MostStartsHold, UpHolds DEF Starts
<1>3. CASE StartClose
  BY <1>1, <1>3, StartCloseHolds
<1>4. CASE StepClose
  BY <1>1, <1>4, StepCloseHolds
<1>5. CASE Closed
  BY <1>5, ClosedHolds
<1>6. CASE OpenRootOf
  BY <1>1, <1>6, OpenRootHolds
<1>7. CASE OpenNestedOf
  BY <1>1, <1>7, OpenNestedHolds
<1>8. CASE Change
  BY <1>8, ChangeHolds
<1>9. CASE Loaded
  BY <1>9, LoadedHolds
<1>10. CASE NotLoaded
  BY <1>1, <1>10, NotLoadedHolds
<1>11. CASE Shutdown
  BY <1>11, ShutdownEnds
<1>12. CASE CloserStep
  BY <1>12, CloserWaits
<1>13. QED
  BY <1>1, <1>2, <1>3, <1>4, <1>5, <1>6, <1>7, <1>8, <1>9, <1>10, <1>11, <1>12 DEF PanelsNext

\* Once the window is closed only the closer runs.
LEMMA EndingStep ==
  ASSUME IInv, Ending, PanelsNext
  PROVE  Ending'
<1>1. /\ task.kind = "shutdown" /\ task.stage = "closing" /\ task.todo = {} /\ task # NoTask
      /\ call[worker] = NoCall
  BY DEF Ending, NoTask
<1>2. ~\E p \in Panels : Starts(p)
  BY <1>1 DEF Starts, Leave, Enter, Nest, Up, Bind, AddTo, Start
<1>3. ~(StartClose \/ StepClose)
  BY <1>1 DEF StartClose, StepClose, Innermost, NoCall
<1>4. ~(Closed \/ OpenRootOf \/ OpenNestedOf \/ Change \/ Loaded \/ NotLoaded \/ Shutdown)
  BY <1>1 DEF Closed, OpenRootOf, OpenNestedOf, Change, Loaded, NotLoaded, Shutdown, At
<1>5. CloserStep
  BY <1>2, <1>3, <1>4 DEF PanelsNext
<1>6. worker \in Threads /\ closer \in Threads /\ worker # closer
  BY ThreadsAssumption
<1>7. call'[worker] = call[worker]
  <2>1. call \in [Threads -> CallType \cup {NoCall}]
    BY DEF IInv, CallsOK
  <2>2. \/ call' = call
        \/ call' = [call EXCEPT ![closer] = NoCall]
        \/ call' = [call EXCEPT ![closer].stage = "committed"]
        \/ call' = [call EXCEPT ![closer] = Found("close", Head(closing))]
    BY <1>5 DEF CloserStep, Begin, CloseClean, CommitToParent, CommitToRoot, Committed, Erase, Refuse,
                Fail, Return, registry
  <2>3. QED
    BY <1>6, <2>1, <2>2
<1>8. panel' = panel /\ task' = task
  BY <1>5 DEF CloserStep
<1>9. QED
  BY <1>1, <1>7, <1>8 DEF Ending

LEMMA StutterHolds ==
  ASSUME IInv, PanelsInv, UNCHANGED allVars
  PROVE  PanelsInv'
<1>1. /\ session' = session /\ registered' = registered /\ call' = call /\ panel' = panel
      /\ task' = task /\ closing' = closing /\ torn' = torn /\ displaced' = displaced
  BY DEF allVars, registry
<1>2. ASSUME Ending PROVE Ending'
  BY <1>1, <1>2 DEF Ending
<1>3. ASSUME NEW rest, Holding(rest) PROVE Holding(rest)'
  <2>1. SessionsStay /\ \A t \in New : ~session'[t].dirty
    BY <1>1, <1>3 DEF SessionsStay, Holding, Unseen
  <2>2. Working'
    BY <1>1, <1>3 DEF Holding, Working, Innermost
  <2>3. QED
    BY <1>1, <1>3, <2>1, <2>2, SameWork
<1>4. QED
  BY <1>2, <1>3 DEF PanelsInv

LEMMA InitHolds ==
  ASSUME PanelsInit
  PROVE  PanelsInv
<1>1. PICK rest : rest = [q \in Panels |-> Outside]
  OBVIOUS
<1>2. /\ panel = rest /\ task = NoTask /\ closing = <<>> /\ registered = {}
      /\ call = [w \in Threads |-> NoCall]
  BY <1>1 DEF PanelsInit, Init
<1>3. DOMAIN rest = Panels /\ \A q \in Panels : rest[q] = Outside
  BY <1>1
<1>4. Outside \in Views
  BY DEF Outside, Views
<1>5. /\ task.kind = "none" /\ task.panel = 1 /\ task.stage = "closing" /\ task.todo = {}
      /\ task.view = Outside /\ task \in TaskShape
  <2>1. task = [kind |-> "none", panel |-> 1, stage |-> "closing", todo |-> {}, view |-> Outside]
    BY <1>2 DEF NoTask
  <2>2. QED
    BY <1>4, <2>1 DEF TaskShape, Panels
<1>6. Shows(rest)
  BY <1>1, <1>2, <1>3, <1>4, <1>5 DEF Shows
<1>7. Rests(rest)
  BY <1>3, OutsideIsRegular DEF Rests
<1>8. Shaped(rest)
  BY <1>2, <1>5 DEF Shaped, Giving
<1>9. Leaving(rest) = {} /\ New = {}
  BY <1>5 DEF Leaving, New, Giving
<1>10. Owned(rest) /\ Unseen(rest) /\ Covered(rest) /\ Parents
  BY <1>2, <1>5, <1>9 DEF Owned, Unseen, Covered, Parents
<1>11. Kept(rest)
  BY <1>3, <1>9, OutsideIsRegular DEF Kept
<1>12. Working
  BY <1>2, ThreadsAssumption DEF Working
<1>13. Holding(rest)
  BY <1>6, <1>7, <1>8, <1>10, <1>11, <1>12 DEF Holding
<1>14. QED
  BY <1>13 DEF PanelsInv

\* The inductive invariant, in every reachable state.
LEMMA PanelsHold == PanelsSpec => []PanelsInv
<1>1. PanelsInit => PanelsInv
  BY InitHolds
<1>2. IInv /\ PanelsInv /\ [PanelsNext]_allVars => PanelsInv'
  <2>1. ASSUME IInv, Ending, PanelsNext PROVE PanelsInv'
    BY <2>1, EndingStep DEF PanelsInv
  <2>2. ASSUME IInv, NEW rest, Holding(rest), PanelsNext PROVE PanelsInv'
    BY <2>2, HoldingStep DEF PanelsInv
  <2>3. QED
    BY <2>1, <2>2, StutterHolds DEF PanelsInv
<1>3. QED
  BY <1>1, <1>2, PanelsInvariant, PTL DEF PanelsSpec

\* Whatever failed on the way, a session that is open between two tasks is one that some
\* panel holds, unless a reload put a session out of its panel.
THEOREM PanelsHoldSessions == PanelsSpec => []HeldSessions
<1>1. PanelsInv => HeldSessions
  <2>1. SUFFICES ASSUME PanelsInv, task = NoTask, displaced = {}, NEW t \in registered
                 PROVE  \E p \in Panels : panel[p].in /\ t \in Held(p)
    BY DEF HeldSessions, Quiet
  <2>2. ~Ending
    BY <2>1 DEF Ending, NoTask
  <2>3. PICK rest : Holding(rest)
    BY <2>1, <2>2 DEF PanelsInv
  <2>4. /\ \A q \in Panels : panel[q] = rest[q]
        /\ \E q \in Panels : t \in HeldIn(rest[q])
    BY <2>1, <2>3, QuietPanels
  <2>5. PICK q \in Panels : t \in HeldIn(rest[q])
    BY <2>4
  <2>6. Regular(rest[q])
    BY <2>3 DEF Holding, Rests
  <2>7. rest[q].in
    BY <2>5, <2>6, OutsideIsRegular DEF Regular
  <2>8. Held(q) = HeldIn(rest[q])
    BY <2>4 DEF Held, HeldIn
  <2>9. QED
    BY <2>4, <2>5, <2>7, <2>8
<1>2. QED
  BY <1>1, PanelsHold, PTL

\* Until the window is closed an open session has an open parent, whichever panel closes
\* what and however far it gets, unless a reload put a session out of its panel.
THEOREM PanelsKeepParents == PanelsSpec => []ParentsStayOpen
<1>1. PanelsInv => ParentsStayOpen
  <2>1. SUFFICES ASSUME PanelsInv, task.kind # "shutdown", displaced = {},
                        NEW t \in registered, Nested(t)
                 PROVE  session[t].parent \in registered
    BY DEF ParentsStayOpen
  <2>2. ~Ending
    BY <2>1 DEF Ending, NoTask
  <2>3. Parents
    BY <2>1, <2>2 DEF PanelsInv, Holding
  <2>4. QED
    BY <2>1, <2>3 DEF Parents, Nested
<1>2. QED
  BY <1>1, PanelsHold, PTL

\* No task of one panel closes a session that the other panel shows or has in its frames.
THEOREM PanelsShareSessions == PanelsSpec => []SharedSessionsKept
<1>1. PanelsInv => SharedSessionsKept
  <2>1. SUFFICES ASSUME PanelsInv, NEW p \in Panels, panel[p].in, p \notin torn,
                        task.kind \in {"none", "add"} \/ task.panel # p
                 PROVE  Held(p) \subseteq registered
    BY DEF SharedSessionsKept
  <2>2. ~Ending
    BY <2>1 DEF Ending, Outside
  <2>3. PICK rest : Holding(rest)
    BY <2>1, <2>2 DEF PanelsInv
  <2>4. panel[p] = rest[p]
    BY <2>1, <2>3 DEF Holding, Shows
  <2>5. Held(p) = HeldIn(rest[p])
    BY <2>4 DEF Held, HeldIn
  <2>6. p # task.panel \/ Leaving(rest) = {}
    BY <2>1 DEF Leaving, Giving
  <2>7. QED
    BY <2>1, <2>3, <2>5, <2>6 DEF Holding, Kept
<1>2. QED
  BY <1>1, PanelsHold, PTL
===============================================================================
