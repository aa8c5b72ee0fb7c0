---------------------------- MODULE Trees_proofs ----------------------------
(***************************************************************************)
(* For any names, depth of paths, tree, request, number of sources and of  *)
(* files that others create: the types of FileTransfer and ArchiveMove,    *)
(* that no data is lost, that files stay in their place, and that what a   *)
(* move ends with is moved.                                                *)
(*                                                                         *)
(* That a transfer loses nothing is an argument about what goes next.      *)
(* Before a step may remove or write over what is at a path, what is there *)
(* must be spare: nothing of it must not be lost, or all of it is          *)
(* elsewhere too (SparesWhatGoes).  A copy makes its source spare, a yes   *)
(* makes the destination spare, and what another program puts there        *)
(* meanwhile is what Doomed says.                                          *)
(*                                                                         *)
(* That a move loses nothing is one about what it was told: at each stage  *)
(* what the task before reported is still where it came from and already   *)
(* where it went (Moving), whatever other tasks add in between.            *)
(*                                                                         *)
(* Lemmas about paths and about trees come first.                          *)
(***************************************************************************)
EXTENDS FileTransfer, ArchiveMove, SequenceTheorems, TLAPS

-----------------------------------------------------------------------------
(* Paths.                                                                  *)

\* Every sequence of names, those of data that is no path included.
Words == Seq(Names \cup {torn, other})

LEMMA PathsAreWords ==
  ASSUME NEW p
  PROVE  p \in Paths <=> p \in Seq(Names) /\ Len(p) <= MaxDepth
<1>1. ASSUME p \in Paths PROVE p \in Seq(Names) /\ Len(p) <= MaxDepth
  <2>1. PICK n \in 0..MaxDepth : p \in [1..n -> Names]
    BY <1>1 DEF Paths
  <2>2. n \in Nat
    BY <2>1, TreesAssumption
  <2>3. p \in Seq(Names)
    BY <2>1, <2>2, SeqDef
  <2>4. Len(p) = n
    BY <2>1, <2>2, <2>3, LenProperties
  <2> QED BY <2>1, <2>2, <2>3, <2>4, TreesAssumption
<1>2. ASSUME p \in Seq(Names), Len(p) <= MaxDepth PROVE p \in Paths
  <2>1. Len(p) \in Nat /\ p \in [1..Len(p) -> Names]
    BY <1>2, LenProperties
  <2>2. Len(p) \in 0..MaxDepth
    BY <1>2, <2>1, TreesAssumption
  <2> QED BY <2>1, <2>2 DEF Paths
<1> QED BY <1>1, <1>2

LEMMA NamesAreWords == \A p \in Seq(Names) : p \in Words
BY SeqMonotonic DEF Words

LEMMA RootIsWord == Root \in Words /\ Len(Root) = 0 /\ \A p \in Words : Len(p) = 0 => p = Root
BY EmptySeq DEF Words, Root

LEMMA LengthOfWord == \A p \in Words : Len(p) \in Nat
BY LenProperties DEF Words

LEMMA WordsEqual ==
  ASSUME NEW p \in Words, NEW q \in Words, Len(p) = Len(q), \A i \in 1..Len(p) : p[i] = q[i]
  PROVE  p = q
BY SeqEqual, SMTT(30) DEF Words

LEMMA PrefixIs ==
  ASSUME NEW p \in Words, NEW n \in 0..Len(p)
  PROVE  /\ SubSeq(p, 1, n) \in Words
         /\ Len(SubSeq(p, 1, n)) = n
         /\ \A i \in 1..n : SubSeq(p, 1, n)[i] = p[i]
<1>1. Len(p) \in Nat /\ n \in Nat /\ n <= Len(p)
  BY LengthOfWord
<1>2. \A i \in 1..n : p[i] \in Names \cup {torn, other}
  BY <1>1, ElementOfSeq DEF Words
<1>3. SubSeq(p, 1, n) \in Words
  BY <1>1, <1>2, SubSeqProperties DEF Words
<1>4. Len(SubSeq(p, 1, n)) = IF 1 <= n THEN n - 1 + 1 ELSE 0
  BY <1>1, <1>2, SubSeqProperties
<1>5. \A i \in 1..n - 1 + 1 : SubSeq(p, 1, n)[i] = p[1 + i - 1]
  BY <1>1, <1>2, SubSeqProperties
<1> QED BY <1>1, <1>3, <1>4, <1>5

LEMMA RestIs ==
  ASSUME NEW p \in Words, NEW n \in 0..Len(p)
  PROVE  /\ SubSeq(p, n + 1, Len(p)) \in Words
         /\ Len(SubSeq(p, n + 1, Len(p))) = Len(p) - n
         /\ \A i \in 1..Len(p) - n : SubSeq(p, n + 1, Len(p))[i] = p[n + i]
<1>1. Len(p) \in Nat /\ n \in Nat /\ n <= Len(p)
  BY LengthOfWord
<1>2. \A i \in n + 1..Len(p) : p[i] \in Names \cup {torn, other}
  BY <1>1, ElementOfSeq DEF Words
<1>3. SubSeq(p, n + 1, Len(p)) \in Words
  BY <1>1, <1>2, SubSeqProperties DEF Words
<1>4. Len(SubSeq(p, n + 1, Len(p))) = IF n + 1 <= Len(p) THEN Len(p) - (n + 1) + 1 ELSE 0
  BY <1>1, <1>2, SubSeqProperties
<1>5. \A i \in 1..Len(p) - (n + 1) + 1 : SubSeq(p, n + 1, Len(p))[i] = p[n + 1 + i - 1]
  BY <1>1, <1>2, SubSeqProperties
<1> QED BY <1>1, <1>3, <1>4, <1>5

LEMMA WithinIs ==
  ASSUME NEW p \in Words, NEW q \in Words
  PROVE  Within(p, q) <=> Len(p) <= Len(q) /\ \A i \in 1..Len(p) : p[i] = q[i]
<1>1. Len(p) \in Nat /\ Len(q) \in Nat
  BY LengthOfWord
<1>2. SubSeq(p, 1, Len(p)) = p
  BY SubSeqFull DEF Words
<1>3. ASSUME Len(p) <= Len(q)
      PROVE  p = SubSeq(q, 1, Len(p)) <=> \A i \in 1..Len(p) : p[i] = q[i]
  <2>1. /\ SubSeq(q, 1, Len(p)) \in Words
        /\ Len(SubSeq(q, 1, Len(p))) = Len(p)
        /\ \A i \in 1..Len(p) : SubSeq(q, 1, Len(p))[i] = q[i]
    BY <1>1, <1>3, PrefixIs
  <2> QED BY <2>1, WordsEqual
<1> QED BY <1>2, <1>3 DEF Within, IsPrefix

\* A path is within itself and within the root; what is within something within
\* it is within it; of two paths that something is within, one is within the other.
LEMMA WithinItself == \A p \in Words : Within(p, p) /\ Within(Root, p)
BY WithinIs, LengthOfWord, RootIsWord

LEMMA WithinWithin ==
  ASSUME NEW p \in Words, NEW q \in Words, NEW r \in Words, Within(p, q), Within(q, r)
  PROVE  Within(p, r)
BY WithinIs, LengthOfWord

LEMMA WithinEachOther ==
  ASSUME NEW p \in Words, NEW q \in Words, Within(p, q), Len(q) <= Len(p)
  PROVE  p = q
BY WithinIs, LengthOfWord, WordsEqual

LEMMA WithinBoth ==
  ASSUME NEW p \in Words, NEW q \in Words, NEW r \in Words, Within(p, r), Within(q, r)
  PROVE  Within(p, q) \/ Within(q, p)
BY WithinIs, LengthOfWord

LEMMA FrontIs ==
  ASSUME NEW q \in Words, q # Root
  PROVE  /\ Front(q) \in Words /\ Len(q) \in Nat \ {0} /\ Len(Front(q)) = Len(q) - 1
         /\ Within(Front(q), q) /\ Front(q) # q
         /\ \A p \in Words : Within(p, q) <=> p = q \/ Within(p, Front(q))
<1>1. Len(q) \in Nat \ {0}
  BY LengthOfWord, RootIsWord
<1>2. /\ Front(q) \in Words /\ Len(Front(q)) = Len(q) - 1
      /\ \A i \in 1..Len(q) - 1 : Front(q)[i] = q[i]
  <2>1. Len(q) - 1 \in 0..Len(q)
    BY <1>1
  <2> HIDE <1>1
  <2> QED BY <2>1, PrefixIs DEF Front
<1>3. Within(Front(q), q)
  BY <1>1, <1>2, WithinIs
<1>4. Front(q) # q
  BY <1>1, <1>2
<1>5. ASSUME NEW p \in Words PROVE Within(p, q) <=> p = q \/ Within(p, Front(q))
  <2>1. ASSUME Within(p, q), p # q PROVE Within(p, Front(q))
    <3>1. Len(p) < Len(q)
      BY <2>1, WithinIs, WithinEachOther, LengthOfWord
    <3> QED BY <1>1, <1>2, <2>1, <3>1, WithinIs, LengthOfWord
  <2>2. ASSUME Within(p, Front(q)) PROVE Within(p, q)
    BY <1>2, <1>3, <2>2, WithinWithin
  <2> QED BY <2>1, <2>2, WithinItself
<1> QED BY <1>1, <1>2, <1>3, <1>4, <1>5

LEMMA AncestorsAre ==
  ASSUME NEW p \in Words
  PROVE  \A a : a \in Ancestors(p) <=> a \in Words /\ Within(a, p) /\ a # p
<1>1. Len(p) \in Nat
  BY LengthOfWord
<1>2. ASSUME NEW n \in 0..Len(p) - 1
      PROVE  SubSeq(p, 1, n) \in Words /\ Within(SubSeq(p, 1, n), p) /\ SubSeq(p, 1, n) # p
  <2>1. n \in 0..Len(p) /\ n < Len(p)
    BY <1>1
  <2>2. PICK w : w = SubSeq(p, 1, n)
    OBVIOUS
  <2>3. w \in Words /\ Len(w) = n /\ \A i \in 1..n : w[i] = p[i]
    BY <2>1, <2>2, PrefixIs
  <2>4. Within(w, p) /\ w # p
    BY <1>1, <2>1, <2>3, WithinIs
  <2> QED BY <2>2, <2>3, <2>4
<1>3. ASSUME NEW a \in Words, Within(a, p), a # p PROVE a = SubSeq(p, 1, Len(a)) /\ Len(a) \in 0..Len(p) - 1
  <2>1. Len(a) \in Nat /\ Len(a) < Len(p)
    BY <1>1, <1>3, LengthOfWord, WithinIs, WithinEachOther
  <2>2. /\ SubSeq(p, 1, Len(a)) \in Words
        /\ Len(SubSeq(p, 1, Len(a))) = Len(a)
        /\ \A i \in 1..Len(a) : SubSeq(p, 1, Len(a))[i] = p[i]
    BY <1>1, <2>1, PrefixIs
  <2>3. \A i \in 1..Len(a) : a[i] = p[i]
    BY <1>3, WithinIs
  <2>4. a = SubSeq(p, 1, Len(a))
    BY <1>3, <2>2, <2>3, WordsEqual
  <2>5. Len(a) \in 0..Len(p) - 1
    BY <1>1, <2>1
  <2> QED BY <2>4, <2>5
<1> QED BY <1>2, <1>3 DEF Ancestors

\* A path that is moved from p to r is within r and comes back from there.
LEMMA RebasedIs ==
  ASSUME NEW p \in Words, NEW q \in Words, NEW r \in Words, Within(p, q)
  PROVE  /\ Rebased(q, p, r) \in Words
         /\ Len(Rebased(q, p, r)) = Len(r) + Len(q) - Len(p)
         /\ Within(r, Rebased(q, p, r))
         /\ Rebased(Rebased(q, p, r), r, p) = q
<1>1. Len(p) \in Nat /\ Len(q) \in Nat /\ Len(r) \in Nat /\ Len(p) <= Len(q)
  BY LengthOfWord, WithinIs
<1> DEFINE rest == SubSeq(q, Len(p) + 1, Len(q))
<1>2. rest \in Words /\ Len(rest) = Len(q) - Len(p) /\ \A i \in 1..Len(q) - Len(p) : rest[i] = q[Len(p) + i]
  BY <1>1, RestIs
<1>3. /\ r \o rest \in Words
      /\ Len(r \o rest) = Len(r) + Len(rest)
      /\ \A i \in 1..Len(r) + Len(rest) : (r \o rest)[i] = IF i <= Len(r) THEN r[i] ELSE rest[i - Len(r)]
  BY <1>2, ConcatProperties DEF Words
<1>4. Rebased(q, p, r) = r \o rest
  BY DEF Rebased
<1> HIDE DEF rest
<1>5. Within(r, r \o rest)
  <2>1. Len(r) <= Len(r \o rest) /\ \A i \in 1..Len(r) : r[i] = (r \o rest)[i]
    BY <1>1, <1>2, <1>3
  <2> QED BY <1>3, <2>1, WithinIs
<1>6. Rebased(r \o rest, r, p) = q
  <2> DEFINE w == r \o rest
             back == SubSeq(w, Len(r) + 1, Len(w))
  <2>1. w \in Words /\ Len(w) = Len(r) + Len(q) - Len(p)
    BY <1>1, <1>2, <1>3
  <2>2. back \in Words /\ Len(back) = Len(w) - Len(r) /\ \A i \in 1..Len(w) - Len(r) : back[i] = w[Len(r) + i]
    <3>1. Len(r) \in 0..Len(w)
      BY <1>1, <2>1
    <3> HIDE DEF w
    <3> QED BY <2>1, <3>1, RestIs
  <2>3. back = rest
    <3>1. Len(back) = Len(rest)
      BY <1>1, <1>2, <2>1, <2>2
    <3>2. \A i \in 1..Len(back) : back[i] = rest[i]
      BY <1>1, <1>2, <1>3, <2>1, <2>2
    <3> HIDE DEF back
    <3> QED BY <1>2, <2>2, <3>1, <3>2, WordsEqual
  <2>4. /\ p \o rest \in Words
        /\ Len(p \o rest) = Len(p) + Len(rest)
        /\ \A i \in 1..Len(p) + Len(rest) : (p \o rest)[i] = IF i <= Len(p) THEN p[i] ELSE rest[i - Len(p)]
    BY <1>2, ConcatProperties DEF Words
  <2>5. \A i \in 1..Len(p) : p[i] = q[i]
    BY WithinIs
  <2>6. p \o rest = q
    <3>1. Len(p \o rest) = Len(q)
      BY <1>1, <1>2, <2>4
    <3>2. \A i \in 1..Len(p \o rest) : (p \o rest)[i] = q[i]
      BY <1>1, <1>2, <2>4, <2>5
    <3> QED BY <2>4, <3>1, <3>2, WordsEqual
  <2> QED BY <2>3, <2>6 DEF Rebased
<1> QED BY <1>1, <1>2, <1>3, <1>4, <1>5, <1>6

LEMMA RebasedSelf ==
  ASSUME NEW p \in Words, NEW r \in Words
  PROVE  Rebased(p, p, r) = r
<1>1. Len(p) \in Nat /\ Len(p) < Len(p) + 1
  BY LengthOfWord
<1>2. SubSeq(p, Len(p) + 1, Len(p)) = << >>
  BY <1>1, SubSeqEmpty
<1> QED BY <1>2, ConcatEmptySeq DEF Rebased, Words

\* What is within another path stays within it when both are moved.
LEMMA RebasedWithin ==
  ASSUME NEW p \in Words, NEW q \in Words, NEW s \in Words, NEW r \in Words,
         Within(p, q), Within(q, s)
  PROVE  Within(Rebased(q, p, r), Rebased(s, p, r))
<1>1. Within(p, s)
  BY WithinWithin
<1>2. /\ Len(p) \in Nat /\ Len(q) \in Nat /\ Len(r) \in Nat /\ Len(s) \in Nat
      /\ Len(p) <= Len(q) /\ Len(q) <= Len(s) /\ \A i \in 1..Len(q) : q[i] = s[i]
  BY LengthOfWord, WithinIs
<1>3. PICK v : v = Rebased(q, p, r)
  OBVIOUS
<1>4. PICK w : w = Rebased(s, p, r)
  OBVIOUS
<1>5. v \in Words /\ Len(v) = Len(r) + Len(q) - Len(p)
  BY <1>3, RebasedIs
<1>6. w \in Words /\ Len(w) = Len(r) + Len(s) - Len(p)
  BY <1>1, <1>4, RebasedIs
<1>7. PICK x : x = SubSeq(q, Len(p) + 1, Len(q))
  OBVIOUS
<1>8. PICK y : y = SubSeq(s, Len(p) + 1, Len(s))
  OBVIOUS
<1>9. x \in Words /\ Len(x) = Len(q) - Len(p) /\ \A i \in 1..Len(q) - Len(p) : x[i] = q[Len(p) + i]
  BY <1>2, <1>7, RestIs
<1>10. y \in Words /\ Len(y) = Len(s) - Len(p) /\ \A i \in 1..Len(s) - Len(p) : y[i] = s[Len(p) + i]
  <2>1. Len(p) \in 0..Len(s)
    BY <1>2
  <2> QED BY <1>8, <2>1, RestIs
<1>11. \A i \in 1..Len(r) + Len(x) : v[i] = IF i <= Len(r) THEN r[i] ELSE x[i - Len(r)]
  BY <1>3, <1>7, <1>9, ConcatProperties DEF Words, Rebased
<1>12. \A i \in 1..Len(r) + Len(y) : w[i] = IF i <= Len(r) THEN r[i] ELSE y[i - Len(r)]
  BY <1>4, <1>8, <1>10, ConcatProperties DEF Words, Rebased
<1>13. \A i \in 1..Len(x) : x[i] = y[i]
  BY <1>2, <1>9, <1>10
<1>14. Len(v) <= Len(w)
  BY <1>2, <1>5, <1>6
<1>15. ASSUME NEW i \in 1..Len(v) PROVE v[i] = w[i]
  <2>1. i \in 1..Len(r) + Len(x) /\ i \in 1..Len(r) + Len(y)
    BY <1>2, <1>5, <1>9, <1>10
  <2>2. CASE i <= Len(r)
    BY <1>11, <1>12, <2>1, <2>2
  <2>3. CASE i > Len(r)
    <3>1. i - Len(r) \in 1..Len(x)
      BY <1>2, <1>9, <2>1, <2>3
    <3>2. v[i] = x[i - Len(r)] /\ w[i] = y[i - Len(r)]
      BY <1>2, <1>11, <1>12, <2>1, <2>3
    <3> QED BY <1>13, <3>1, <3>2
  <2> QED BY <1>2, <2>1, <2>2, <2>3
<1> QED BY <1>3, <1>4, <1>5, <1>6, <1>14, <1>15, WithinIs

\* A path that is no longer than allowed stays one when it is moved.
LEMMA RebasedIsPath ==
  ASSUME NEW p \in Paths, NEW q \in Paths, NEW r \in Paths, Within(p, q),
         Len(r) + Len(q) - Len(p) <= MaxDepth
  PROVE  Rebased(q, p, r) \in Paths
<1>1. p \in Seq(Names) /\ q \in Seq(Names) /\ r \in Seq(Names) /\ p \in Words /\ q \in Words /\ r \in Words
  BY PathsAreWords, NamesAreWords
<1>2. Len(p) \in Nat /\ Len(q) \in Nat /\ Len(p) <= Len(q)
  BY <1>1, LengthOfWord, WithinIs
<1>3. \A i \in Len(p) + 1..Len(q) : q[i] \in Names
  BY <1>1, <1>2, ElementOfSeq
<1>4. SubSeq(q, Len(p) + 1, Len(q)) \in Seq(Names)
  BY <1>2, <1>3, SubSeqProperties
<1>5. Rebased(q, p, r) \in Seq(Names)
  BY <1>1, <1>4, ConcatProperties DEF Rebased
<1>6. Len(Rebased(q, p, r)) <= MaxDepth
  BY <1>1, RebasedIs
<1> QED BY <1>5, <1>6, PathsAreWords

LEMMA PathIsWord == \A p \in Paths : p \in Words /\ Len(p) \in Nat
BY PathsAreWords, NamesAreWords, LengthOfWord

\* What a path is within is a path.
LEMMA AncestorsArePaths ==
  ASSUME NEW p \in Paths, NEW a \in Words, Within(a, p)
  PROVE  a \in Paths
<1>1. p \in Seq(Names) /\ p \in Words /\ Len(p) <= MaxDepth
  BY PathsAreWords, NamesAreWords
<1>2. Len(a) \in Nat /\ Len(p) \in Nat /\ Len(a) <= Len(p)
  BY <1>1, LengthOfWord, WithinIs
<1>3. \A i \in 1..Len(a) : p[i] \in Names
  BY <1>1, <1>2, ElementOfSeq
<1>4. PICK w : w = SubSeq(p, 1, Len(a))
  OBVIOUS
<1>5. w \in Seq(Names) /\ w \in Words
  <2>1. w \in Seq(Names)
    BY <1>2, <1>3, <1>4, SubSeqProperties
  <2> QED BY <2>1, NamesAreWords
<1>6. Len(w) = Len(a) /\ \A i \in 1..Len(a) : w[i] = p[i]
  BY <1>1, <1>2, <1>4, PrefixIs
<1>7. \A i \in 1..Len(a) : a[i] = p[i]
  BY <1>1, WithinIs
<1>8. a = w
  <2>1. Len(a) = Len(w) /\ \A i \in 1..Len(a) : a[i] = w[i]
    BY <1>6, <1>7
  <2> QED BY <1>5, <2>1, WordsEqual
<1>9. a \in Seq(Names) /\ Len(a) <= MaxDepth
  BY <1>1, <1>2, <1>5, <1>8, TreesAssumption
<1> QED BY <1>9, PathsAreWords

-----------------------------------------------------------------------------
(* Trees.                                                                  *)

TreeOf(values, tree) ==
  /\ Directory \in values /\ DOMAIN tree \subseteq Paths /\ IsTree(tree)
  /\ \A p \in DOMAIN tree : tree[p] \in values

\* What is above something in a tree is a directory of it; nothing is below what
\* is not there, or is a file.
LEMMA AboveInTree ==
  ASSUME NEW values, NEW tree, TreeOf(values, tree), NEW q \in DOMAIN tree, NEW a \in Words, Within(a, q), a # q
  PROVE  a \in DOMAIN tree /\ tree[a] = Directory
<1>1. q \in Words
  BY PathIsWord DEF TreeOf
<1> QED BY <1>1, AncestorsAre DEF TreeOf, IsTree, IsDirectory

LEMMA NothingBelowIn ==
  ASSUME NEW values, NEW tree, TreeOf(values, tree), NEW p \in Words, (p \notin DOMAIN tree) \/ tree[p] # Directory,
         NEW q, Within(p, q), q # p
  PROVE  q \notin DOMAIN tree
BY AboveInTree

\* What a change does to a tree is shown by what becomes of every path: a tree
\* that has the root and all that is above its paths is one.
LEMMA TreeIf ==
  ASSUME NEW values, Directory \in values, NEW tree, Root \in DOMAIN tree, DOMAIN tree \subseteq Paths,
         \A p \in DOMAIN tree : tree[p] \in values,
         \A p \in DOMAIN tree : \A a \in Words :
           Within(a, p) /\ a # p => a \in DOMAIN tree /\ tree[a] = Directory
  PROVE  TreeOf(values, tree)
<1>1. \A p \in DOMAIN tree : p \in Words
  BY PathIsWord
<1> QED BY <1>1, AncestorsAre DEF TreeOf, IsTree, IsDirectory

LEMMA WithoutOf ==
  ASSUME NEW values, NEW tree, TreeOf(values, tree), NEW x \in Paths \ {Root}, NEW part \in Parts(tree, x),
         NEW result, result = Without(tree, At(tree, x) \ part)
  PROVE  /\ TreeOf(values, result)
         /\ DOMAIN result \subseteq DOMAIN tree
         /\ \A q \in DOMAIN result : result[q] = tree[q]
         /\ \A q \in DOMAIN tree : ~Within(x, q) => q \in DOMAIN result
         /\ \A q \in DOMAIN result : Within(x, q) => q \in part
<1>1. DOMAIN result = DOMAIN tree \ (At(tree, x) \ part) /\ \A q \in DOMAIN result : result[q] = tree[q]
  BY DEF Without
<1>2. \A q \in DOMAIN tree : q \in At(tree, x) <=> Within(x, q)
  BY DEF At
<1>3. \A q \in DOMAIN tree : q \in Paths /\ q \in Words
  BY PathIsWord DEF TreeOf
<1>4. x \in Words /\ ~Within(x, Root)
  <2>1. x \in Words
    BY PathIsWord
  <2> QED BY <2>1, RootIsWord, WithinItself, WithinEachOther, LengthOfWord
<1>5. Root \in DOMAIN result
  BY <1>1, <1>2, <1>4 DEF TreeOf, IsTree
<1>6. ASSUME NEW p \in DOMAIN result, NEW a \in Words, Within(a, p), a # p
      PROVE  a \in DOMAIN result /\ result[a] = Directory
  <2>1. a \in DOMAIN tree /\ tree[a] = Directory
    BY <1>1, <1>6, AboveInTree
  <2>2. CASE Within(x, a)
    <3>1. Within(x, p)
      BY <1>1, <1>3, <1>4, <1>6, <2>2, WithinWithin
    <3>2. p \in part
      BY <1>1, <1>2, <3>1
    <3>3. a \in Ancestors(p)
      BY <1>1, <1>3, <1>6, AncestorsAre
    <3>4. a \in part
      BY <2>2, <3>2, <3>3 DEF Parts
    <3> QED BY <1>1, <2>1, <3>4
  <2>3. CASE ~Within(x, a)
    BY <1>1, <1>2, <2>1, <2>3
  <2> QED BY <2>2, <2>3
<1>7. TreeOf(values, result)
  <2>1. DOMAIN result \subseteq Paths /\ \A p \in DOMAIN result : result[p] \in values
    BY <1>1 DEF TreeOf
  <2>9. Directory \in values
    BY DEF TreeOf
  <2> QED BY <2>9, <1>5, <1>6, <2>1, TreeIf
<1> QED BY <1>1, <1>2, <1>7

LEMMA WithParentsOf ==
  ASSUME NEW values, NEW tree, TreeOf(values, tree), NEW x \in Words, Ancestors(x) \subseteq Paths, CanHold(tree, x),
         NEW result, result = WithParents(tree, x)
  PROVE  /\ TreeOf(values, result)
         /\ DOMAIN result = DOMAIN tree \cup Ancestors(x)
         /\ \A q \in DOMAIN tree : result[q] = tree[q]
         /\ \A a \in Ancestors(x) : result[a] = Directory
<1>1. /\ DOMAIN result = DOMAIN tree \cup Ancestors(x)
      /\ \A q \in DOMAIN result : result[q] = IF q \in DOMAIN tree THEN tree[q] ELSE Directory
  BY DEF WithParents
<1>2. \A a \in Ancestors(x) : result[a] = Directory
  BY <1>1 DEF CanHold
<1>3. ASSUME NEW p \in DOMAIN result, NEW a \in Words, Within(a, p), a # p
      PROVE  a \in DOMAIN result /\ result[a] = Directory
  <2>1. CASE p \in DOMAIN tree
    <3>1. a \in DOMAIN tree /\ tree[a] = Directory
      BY <1>3, <2>1, AboveInTree
    <3> QED BY <1>1, <3>1
  <2>2. CASE p \in Ancestors(x)
    <3>1. p \in Words /\ Within(p, x) /\ p # x
      BY <2>2, AncestorsAre
    <3>2. Within(a, x)
      BY <1>3, <3>1, WithinWithin
    <3>3. a # x
      BY <1>3, <3>1, WithinIs, WithinEachOther, LengthOfWord
    <3>4. a \in Ancestors(x)
      BY <3>2, <3>3, AncestorsAre
    <3> QED BY <1>1, <1>2, <3>4
  <2> QED BY <1>1, <2>1, <2>2
<1>4. TreeOf(values, result)
  <2>1. Root \in DOMAIN result
    BY <1>1 DEF TreeOf, IsTree
  <2>2. DOMAIN result \subseteq Paths /\ \A p \in DOMAIN result : result[p] \in values
    BY <1>1 DEF TreeOf
  <2>9. Directory \in values
    BY DEF TreeOf
  <2> QED BY <2>9, <1>3, <2>1, <2>2, TreeIf
<1> QED BY <1>1, <1>2, <1>4

LEMMA WithFileOf ==
  ASSUME NEW values, NEW tree, TreeOf(values, tree), NEW x \in Paths \ {Root}, NEW data \in values, ~IsDirectory(tree, x),
         \A a \in Ancestors(x) : IsDirectory(tree, a),
         NEW result, result = WithFile(tree, x, data)
  PROVE  /\ TreeOf(values, result)
         /\ DOMAIN result = DOMAIN tree \cup {x}
         /\ result[x] = data
         /\ \A q \in DOMAIN tree \ {x} : result[q] = tree[q]
<1>1. /\ DOMAIN result = DOMAIN tree \cup {x}
      /\ \A q \in DOMAIN result : result[q] = IF q = x THEN data ELSE tree[q]
  BY DEF WithFile
<1>2. x \in Words
  BY PathIsWord
<1>3. ASSUME NEW p \in DOMAIN result, NEW a \in Words, Within(a, p), a # p
      PROVE  a \in DOMAIN result /\ result[a] = Directory
  <2>1. a \in DOMAIN tree /\ tree[a] = Directory
    <3>1. CASE p \in DOMAIN tree
      BY <1>3, <3>1, AboveInTree
    <3>2. CASE p = x
      BY <1>2, <1>3, <3>2, AncestorsAre DEF IsDirectory
    <3> QED BY <1>1, <3>1, <3>2
  <2>2. a # x
    BY <2>1 DEF IsDirectory
  <2> QED BY <1>1, <2>1, <2>2
<1>4. TreeOf(values, result)
  <2>1. Root \in DOMAIN result
    BY <1>1 DEF TreeOf, IsTree
  <2>2. DOMAIN result \subseteq Paths /\ \A p \in DOMAIN result : result[p] \in values
    BY <1>1 DEF TreeOf
  <2>9. Directory \in values
    BY DEF TreeOf
  <2> QED BY <2>9, <1>3, <2>1, <2>2, TreeIf
<1> QED BY <1>1, <1>4

\* A tree put next to where it was, under a name that was free.
LEMMA RenamedOf ==
  ASSUME NEW values, NEW tree, TreeOf(values, tree), NEW p \in Paths \ {Root}, NEW r \in Paths \ {Root},
         Len(r) = Len(p), Front(r) = Front(p), r \notin DOMAIN tree,
         NEW result, result = Renamed(tree, p, r)
  PROVE  /\ TreeOf(values, result)
         /\ \A q \in DOMAIN tree : ~Within(p, q) => q \in DOMAIN result /\ result[q] = tree[q]
         /\ \A q \in DOMAIN tree : Within(p, q) =>
              Rebased(q, p, r) \in DOMAIN result /\ result[Rebased(q, p, r)] = tree[q]
<1>1. p \in Words /\ r \in Words /\ Len(p) \in Nat
  BY PathIsWord
<1>2. \A q \in DOMAIN tree : q \in Paths /\ q \in Words /\ Len(q) \in Nat /\ Len(q) <= MaxDepth
  BY PathIsWord, PathsAreWords DEF TreeOf
<1>3. \A q \in DOMAIN tree : q \in At(tree, p) <=> Within(p, q)
  BY DEF At
<1>4. \A q \in DOMAIN tree : ~Within(r, q)
  BY <1>1, NothingBelowIn
<1>5. /\ DOMAIN result = (DOMAIN tree \ At(tree, p)) \cup {Rebased(s, p, r) : s \in At(tree, p)}
      /\ \A q \in DOMAIN result : result[q] = IF Within(r, q) THEN tree[Rebased(q, r, p)] ELSE tree[q]
  BY DEF Renamed
<1>6. ASSUME NEW q \in DOMAIN tree, ~Within(p, q)
      PROVE  q \in DOMAIN result /\ result[q] = tree[q]
  BY <1>3, <1>4, <1>5, <1>6
<1>7. ASSUME NEW q \in DOMAIN tree, Within(p, q)
      PROVE  /\ Rebased(q, p, r) \in DOMAIN result /\ result[Rebased(q, p, r)] = tree[q]
             /\ Rebased(q, p, r) \in Paths
  <2>1. /\ Within(r, Rebased(q, p, r)) /\ Rebased(Rebased(q, p, r), r, p) = q
    BY <1>1, <1>2, <1>7, RebasedIs
  <2>2. Rebased(q, p, r) \in DOMAIN result
    BY <1>3, <1>5, <1>7
  <2>3. Len(r) + Len(q) - Len(p) <= MaxDepth
    BY <1>1, <1>2
  <2>4. Rebased(q, p, r) \in Paths
    BY <1>2, <1>7, <2>3, RebasedIsPath
  <2> QED BY <1>5, <2>1, <2>2, <2>4
<1>8. \A w \in DOMAIN result :
        \/ w \in DOMAIN tree /\ ~Within(p, w)
        \/ \E q \in DOMAIN tree : Within(p, q) /\ w = Rebased(q, p, r)
  BY <1>3, <1>5 DEF At
<1>9. ASSUME NEW w \in DOMAIN result, NEW a \in Words, Within(a, w), a # w
      PROVE  a \in DOMAIN result /\ result[a] = Directory
  <2>1. CASE w \in DOMAIN tree /\ ~Within(p, w)
    <3>1. a \in DOMAIN tree /\ tree[a] = Directory
      BY <1>9, <2>1, AboveInTree
    <3>2. ~Within(p, a)
      BY <1>1, <1>2, <1>9, <2>1, WithinWithin
    <3> QED BY <1>6, <3>1, <3>2
  <2>2. ASSUME NEW q \in DOMAIN tree, Within(p, q), w = Rebased(q, p, r)
        PROVE  a \in DOMAIN result /\ result[a] = Directory
    <3>1. w \in Words /\ Within(r, w) /\ Rebased(w, r, p) = q
      BY <1>1, <1>2, <2>2, RebasedIs
    <3>2. CASE Within(r, a)
      <4>1. PICK b : b = Rebased(a, r, p)
        OBVIOUS
      <4>2. b \in Words /\ Within(p, b) /\ Rebased(b, p, r) = a
        BY <1>1, <3>2, <4>1, RebasedIs
      <4>3. Within(b, q)
        BY <1>1, <1>9, <3>1, <3>2, <4>1, RebasedWithin
      <4>4. b # q
        BY <1>9, <2>2, <4>2
      <4>5. b \in DOMAIN tree /\ tree[b] = Directory
        BY <4>2, <4>3, <4>4, AboveInTree
      <4> QED BY <1>7, <4>2, <4>5
    <3>3. CASE ~Within(r, a)
      <4>1. Within(a, r) /\ a # r
        BY <1>1, <1>9, <3>1, <3>3, WithinBoth, WithinItself
      <4>2. Within(a, Front(p))
        BY <1>1, <4>1, FrontIs
      <4>3. Within(a, p) /\ a # p
        BY <1>1, <4>2, FrontIs, WithinIs, LengthOfWord
      <4>4. Within(a, q)
        BY <1>1, <1>2, <2>2, <4>3, WithinWithin
      <4>5. ~Within(p, a)
        BY <1>1, <4>3, WithinIs, WithinEachOther, LengthOfWord
      <4>6. a # q
        BY <2>2, <4>5
      <4>7. a \in DOMAIN tree /\ tree[a] = Directory
        BY <4>4, <4>6, AboveInTree
      <4> QED BY <1>6, <4>5, <4>7
    <3> QED BY <3>2, <3>3
  <2> QED BY <1>8, <2>1, <2>2
<1>10. TreeOf(values, result)
  <2>1. Root \in DOMAIN tree /\ ~Within(p, Root)
    BY <1>1, RootIsWord, WithinItself, WithinEachOther DEF TreeOf, IsTree
  <2>2. Root \in DOMAIN result
    BY <1>6, <2>1
  <2>3. \A w \in DOMAIN result : w \in Paths /\ result[w] \in values
    BY <1>2, <1>6, <1>7, <1>8 DEF TreeOf
  <2>9. Directory \in values
    BY DEF TreeOf
  <2> QED BY <2>9, <1>9, <2>2, <2>3, TreeIf
<1> QED BY <1>6, <1>7, <1>10

\* The trees of file transfers.
Typed(tree) ==
  /\ DOMAIN tree \subseteq Paths /\ IsTree(tree)
  /\ \A p \in DOMAIN tree : tree[p] \in Data \cup {Directory}

LEMMA AboveIsDirectory ==
  ASSUME NEW tree, Typed(tree), NEW q \in DOMAIN tree, NEW a \in Words, Within(a, q), a # q
  PROVE  a \in DOMAIN tree /\ tree[a] = Directory
BY AboveInTree DEF Typed, TreeOf

LEMMA NothingBelow ==
  ASSUME NEW tree, Typed(tree), NEW p \in Words, (p \notin DOMAIN tree) \/ tree[p] # Directory,
         NEW q, Within(p, q), q # p
  PROVE  q \notin DOMAIN tree
BY NothingBelowIn DEF Typed, TreeOf

LEMMA TypedIf ==
  ASSUME NEW tree, Root \in DOMAIN tree, DOMAIN tree \subseteq Paths,
         \A p \in DOMAIN tree : tree[p] \in Data \cup {Directory},
         \A p \in DOMAIN tree : \A a \in Words :
           Within(a, p) /\ a # p => a \in DOMAIN tree /\ tree[a] = Directory
  PROVE  Typed(tree)
BY TreeIf DEF Typed, TreeOf

LEMMA EmptyPart == ASSUME NEW tree, NEW x PROVE {} \in Parts(tree, x) /\ At(tree, x) \ {} = At(tree, x)
BY DEF Parts

LEMMA WithoutIs ==
  ASSUME NEW tree, Typed(tree), NEW x \in Paths \ {Root}, NEW part \in Parts(tree, x),
         NEW result, result = Without(tree, At(tree, x) \ part)
  PROVE  /\ Typed(result)
         /\ DOMAIN result \subseteq DOMAIN tree
         /\ \A q \in DOMAIN result : result[q] = tree[q]
         /\ \A q \in DOMAIN tree : ~Within(x, q) => q \in DOMAIN result
         /\ \A q \in DOMAIN result : Within(x, q) => q \in part
<1>1. PICK values : values = Data \cup {Directory}
  OBVIOUS
<1>2. TreeOf(values, tree) /\ \A w : Typed(w) <=> TreeOf(values, w)
  BY <1>1 DEF Typed, TreeOf
<1> QED BY <1>1, <1>2, WithoutOf

LEMMA WithParentsIs ==
  ASSUME NEW tree, Typed(tree), NEW x \in Words, Ancestors(x) \subseteq Paths, CanHold(tree, x),
         NEW result, result = WithParents(tree, x)
  PROVE  /\ Typed(result)
         /\ DOMAIN result = DOMAIN tree \cup Ancestors(x)
         /\ \A q \in DOMAIN tree : result[q] = tree[q]
         /\ \A a \in Ancestors(x) : result[a] = Directory
<1>1. PICK values : values = Data \cup {Directory}
  OBVIOUS
<1>2. TreeOf(values, tree) /\ \A w : Typed(w) <=> TreeOf(values, w)
  BY <1>1 DEF Typed, TreeOf
<1> QED BY <1>1, <1>2, WithParentsOf

LEMMA WithFileIs ==
  ASSUME NEW tree, Typed(tree), NEW x \in Paths \ {Root}, NEW data \in Data, ~IsDirectory(tree, x),
         \A a \in Ancestors(x) : IsDirectory(tree, a),
         NEW result, result = WithFile(tree, x, data)
  PROVE  /\ Typed(result)
         /\ DOMAIN result = DOMAIN tree \cup {x}
         /\ result[x] = data
         /\ \A q \in DOMAIN tree \ {x} : result[q] = tree[q]
<1>1. PICK values : values = Data \cup {Directory}
  OBVIOUS
<1>2. TreeOf(values, tree) /\ \A w : Typed(w) <=> TreeOf(values, w)
  BY <1>1 DEF Typed, TreeOf
<1>3. data \in values
  BY <1>1
<1>4. /\ TreeOf(values, result) /\ DOMAIN result = DOMAIN tree \cup {x} /\ result[x] = data
      /\ \A q \in DOMAIN tree \ {x} : result[q] = tree[q]
  BY <1>2, <1>3, WithFileOf
<1> QED BY <1>2, <1>4

\* Data that is written over a file of a tree.
LEMMA OverwrittenIs ==
  ASSUME NEW tree, Typed(tree), NEW x \in DOMAIN tree, NEW data \in Data, tree[x] # Directory,
         NEW result, result = [tree EXCEPT ![x] = data]
  PROVE  /\ Typed(result)
         /\ DOMAIN result = DOMAIN tree
         /\ \A q \in DOMAIN tree \ {x} : result[q] = tree[q]
<1>1. /\ DOMAIN result = DOMAIN tree
      /\ \A q \in DOMAIN tree : result[q] = IF q = x THEN data ELSE tree[q]
  OBVIOUS
<1>2. ASSUME NEW p \in DOMAIN result, NEW a \in Words, Within(a, p), a # p
      PROVE  a \in DOMAIN result /\ result[a] = Directory
  <2>1. a \in DOMAIN tree /\ tree[a] = Directory
    BY <1>1, <1>2, AboveIsDirectory
  <2> QED BY <1>1, <2>1
<1>3. Typed(result)
  <2>1. Root \in DOMAIN result
    BY <1>1 DEF Typed, IsTree
  <2>2. DOMAIN result \subseteq Paths /\ \A p \in DOMAIN result : result[p] \in Data \cup {Directory}
    BY <1>1 DEF Typed
  <2> QED BY <1>2, <2>1, <2>2, TypedIf
<1> QED BY <1>1, <1>3

LEMMA RenamedIs ==
  ASSUME NEW tree, Typed(tree), NEW p \in Paths \ {Root}, NEW r \in Paths \ {Root},
         Len(r) = Len(p), Front(r) = Front(p), r \notin DOMAIN tree,
         NEW result, result = Renamed(tree, p, r)
  PROVE  /\ Typed(result)
         /\ \A q \in DOMAIN tree : ~Within(p, q) => q \in DOMAIN result /\ result[q] = tree[q]
         /\ \A q \in DOMAIN tree : Within(p, q) =>
              Rebased(q, p, r) \in DOMAIN result /\ result[Rebased(q, p, r)] = tree[q]
<1>1. PICK values : values = Data \cup {Directory}
  OBVIOUS
<1>2. TreeOf(values, tree) /\ \A w : Typed(w) <=> TreeOf(values, w)
  BY <1>1 DEF Typed, TreeOf
<1> QED BY <1>1, <1>2, RenamedOf

\* A part of what is at p of a tree, put into the same tree at a place r that is free.
LEMMA WithPartIs ==
  ASSUME NEW tree, Typed(tree), NEW p \in Paths, NEW r \in Paths \ {Root},
         r \notin DOMAIN tree, CanHold(tree, r),
         NEW part \in Parts(tree, p), \A q \in part : Rebased(q, p, r) \in Paths,
         NEW result, result = WithPart(WithParents(tree, r), part, tree, p, r)
  PROVE  /\ Typed(result)
         /\ \A q \in DOMAIN tree : q \in DOMAIN result /\ result[q] = tree[q]
         /\ \A q \in part : Rebased(q, p, r) \in DOMAIN result /\ result[Rebased(q, p, r)] = tree[q]
<1>1. p \in Words /\ r \in Words
  BY PathIsWord
<1>2. \A q \in DOMAIN tree : q \in Paths /\ q \in Words /\ ~Within(r, q)
  BY <1>1, PathIsWord, NothingBelow DEF Typed
<1>3. \A q \in part : q \in DOMAIN tree /\ Within(p, q)
  BY DEF Parts, At
<1>4. PICK base : base = WithParents(tree, r)
  OBVIOUS
<1>5. /\ DOMAIN base = DOMAIN tree \cup Ancestors(r)
      /\ \A q \in DOMAIN tree : base[q] = tree[q]
      /\ \A a \in Ancestors(r) : base[a] = Directory
  <2>1. Ancestors(r) \subseteq Paths
    BY <1>1, AncestorsAre, AncestorsArePaths
  <2> QED BY <1>1, <1>4, <2>1, WithParentsIs
<1>6. \A a \in Ancestors(r) : a \in Words /\ a \in Paths /\ ~Within(r, a)
  BY <1>1, AncestorsAre, AncestorsArePaths, WithinIs, WithinEachOther, LengthOfWord
<1>7. /\ DOMAIN result = DOMAIN base \cup {Rebased(s, p, r) : s \in part}
      /\ \A q \in DOMAIN result :
           result[q] = IF q \in DOMAIN base THEN base[q] ELSE tree[Rebased(q, r, p)]
  BY <1>4 DEF WithPart
<1>8. \A q \in DOMAIN tree : q \in DOMAIN result /\ result[q] = tree[q]
  BY <1>5, <1>7
<1>9. \A a \in Ancestors(r) : a \in DOMAIN result /\ result[a] = Directory
  BY <1>5, <1>7
<1>10. ASSUME NEW q \in part
       PROVE  Rebased(q, p, r) \in DOMAIN result /\ result[Rebased(q, p, r)] = tree[q]
  <2>1. q \in Words /\ Within(p, q)
    BY <1>2, <1>3
  <2>2. Within(r, Rebased(q, p, r)) /\ Rebased(Rebased(q, p, r), r, p) = q
    BY <1>1, <2>1, RebasedIs
  <2>3. Rebased(q, p, r) \notin DOMAIN base
    BY <1>2, <1>5, <1>6, <2>2
  <2> QED BY <1>7, <2>2, <2>3
<1>11. ASSUME NEW w \in DOMAIN result, NEW a \in Words, Within(a, w), a # w
       PROVE  a \in DOMAIN result /\ result[a] = Directory
  <2>1. CASE w \in DOMAIN tree
    <3>1. a \in DOMAIN tree /\ tree[a] = Directory
      BY <1>11, <2>1, AboveIsDirectory
    <3> QED BY <1>8, <3>1
  <2>2. ASSUME Within(w, r), w \in Words PROVE a \in DOMAIN result /\ result[a] = Directory
    <3>1. Within(a, r) /\ a # r
      BY <1>1, <1>11, <2>2, WithinWithin, WithinIs, WithinEachOther, LengthOfWord
    <3> QED BY <1>1, <1>9, <3>1, AncestorsAre
  <2>3. ASSUME NEW q \in part, w = Rebased(q, p, r)
        PROVE  a \in DOMAIN result /\ result[a] = Directory
    <3>1. q \in Words /\ q \in DOMAIN tree /\ Within(p, q)
      BY <1>2, <1>3
    <3>2. w \in Words /\ Within(r, w) /\ Rebased(w, r, p) = q
      BY <1>1, <2>3, <3>1, RebasedIs
    <3>3. CASE Within(r, a)
      <4>1. PICK b : b = Rebased(a, r, p)
        OBVIOUS
      <4>2. b \in Words /\ Within(p, b) /\ Rebased(b, p, r) = a
        BY <1>1, <3>3, <4>1, RebasedIs
      <4>3. Within(b, q)
        BY <1>1, <1>11, <3>2, <3>3, <4>1, RebasedWithin
      <4>4. b # q
        BY <1>11, <2>3, <4>2
      <4>5. b \in DOMAIN tree /\ tree[b] = Directory
        BY <3>1, <4>2, <4>3, <4>4, AboveIsDirectory
      <4>6. b \in part
        BY <3>1, <4>2, <4>3, <4>4, AncestorsAre DEF Parts
      <4> QED BY <1>10, <4>2, <4>5, <4>6
    <3>4. CASE ~Within(r, a)
      <4>1. Within(a, r) /\ a # r
        BY <1>1, <1>11, <3>2, <3>4, WithinBoth, WithinItself
      <4> QED BY <1>1, <1>9, <4>1, AncestorsAre
    <3> QED BY <3>3, <3>4
  <2>4. \/ w \in DOMAIN tree \/ w \in Ancestors(r)
        \/ \E q \in part : w = Rebased(q, p, r)
    BY <1>5, <1>7
  <2>5. CASE w \in Ancestors(r)
    BY <1>1, <2>2, <2>5, AncestorsAre
  <2> QED BY <2>1, <2>3, <2>4, <2>5
<1>12. Typed(result)
  <2>1. \A w \in DOMAIN result :
          \/ w \in DOMAIN tree \/ w \in Ancestors(r)
          \/ \E q \in part : w = Rebased(q, p, r)
    BY <1>5, <1>7
  <2>2. \A w \in DOMAIN result : w \in Paths /\ result[w] \in Data \cup {Directory}
    BY <1>2, <1>3, <1>6, <1>8, <1>9, <1>10, <2>1 DEF Typed
  <2>3. Root \in DOMAIN result
    BY <1>8 DEF Typed, IsTree
  <2> QED BY <1>11, <2>2, <2>3, TypedIf
<1> QED BY <1>8, <1>10, <1>12

LEMMA WholePart == ASSUME NEW tree, Typed(tree), NEW p \in Paths PROVE At(tree, p) \in Parts(tree, p)
<1>1. p \in Words /\ \A q \in DOMAIN tree : q \in Words
  BY PathIsWord DEF Typed
<1>2. ASSUME NEW q \in At(tree, p), NEW a \in Ancestors(q), Within(p, a) PROVE a \in At(tree, p)
  <2>1. q \in DOMAIN tree /\ q \in Words
    BY <1>1 DEF At
  <2>2. a \in Words /\ Within(a, q) /\ a # q
    BY <2>1, AncestorsAre
  <2>3. a \in DOMAIN tree
    BY <2>1, <2>2, AboveIsDirectory
  <2> QED BY <1>2, <2>3 DEF At
<1> QED BY <1>2 DEF Parts

-----------------------------------------------------------------------------
(* The file transfer.                                                      *)

\* No file that is in its place is in gone, and no kept data is only there.
Clear(gone) == \A p \in (kept \ {Other}) \cap gone : \E t \in taken : Within(t, p)
Spare(gone) == Clear(gone) /\ kept \subseteq {fs[q] : q \in DOMAIN fs \ gone} \cup bin
Below(u) == {q \in Paths : Within(u, q)}

\* What a request says at each stage of it.
RequestFits ==
  /\ task.op = "none" => task = NoTask
  /\ \A i \in DOMAIN task.sources :
       /\ task.sources[i] # Root
       /\ task.op \in Transfers => DestinationOf(task, task.sources[i]) \in Paths \ {Root}
  /\ task.stage \in {"next", "ask", "replace"} => task.backup = NoPath
  /\ task.stage \in {"replace", "copy"} => task.dst # Root
  /\ task.stage = "copy" /\ task.backup # NoPath =>
       Len(task.backup) = Len(task.dst) /\ Front(task.backup) = Front(task.dst)
  /\ task.stage = "unmove" => task.op = "move"
  /\ task.op = "rename" => task.as # Root /\ Len(task.sources) <= 1
  /\ task.op = "rename" /\ task.sources # <<>> =>
       Len(task.as) = Len(Source) /\ Front(task.as) = Front(Source) /\ task.as # Source

\* What may be removed or written over next holds nothing that must not be lost.
SparesWhatGoes ==
  /\ kept \subseteq Paths \cup {Other}
  /\ task.op \in {"none", "recycle"} => \A q \in DOMAIN fs : fs[q] \in {Directory, q, Other}
  /\ task.stage = "replace" => Spare(Below(task.dst))
  /\ task.stage = "unmove" /\ task.sources # <<>> => Spare(Below(Source))
  /\ task.stage = "copy" /\ task.backup # NoPath => Clear(Below(task.backup))
  /\ task.op = "rename" /\ task.sources # <<>> => Spare({task.as})
  /\ task.stage = "open" /\ task.sources # <<>> =>
       Spare({Source}) /\ \A a \in Ancestors(Source) : IsDirectory(fs, a)

Transferring == TypeOK /\ RequestFits /\ NothingLost /\ StaysInPlace /\ SparesWhatGoes

\* A change that leaves alone all but what is in gone.
SameBut(before, after, gone) ==
  \A q \in DOMAIN before \ gone : q \in DOMAIN after /\ after[q] = before[q]
Grows == kept' \subseteq kept /\ bin \subseteq bin' /\ taken \subseteq taken'

LEMMA DataInIs ==
  ASSUME NEW tree, DOMAIN tree \subseteq Paths
  PROVE  DataIn(tree) = {tree[q] : q \in DOMAIN tree} \ {Directory}
<1>1. At(tree, Root) = DOMAIN tree
  BY PathIsWord, WithinItself DEF At
<1> QED BY <1>1 DEF DataIn, DataAt

LEMMA NoPathIsOther == Other \notin Paths /\ Torn \notin Paths /\ Directory \notin Data
<1>1. \A w : <<w>> \in Paths => w \in Names
  <2>1. ASSUME NEW w, <<w>> \in Paths PROVE w \in Names
    <3>1. <<w>> \in Seq(Names) /\ Len(<<w>>) = 1
      BY <2>1, PathsAreWords
    <3>2. <<w>>[1] \in Names
      BY <3>1, ElementOfSeq
    <3> QED BY <3>2
  <2> QED BY <2>1
<1>2. Directory # Torn /\ Directory # Other
  BY DEF Directory, Torn, Other, Root
<1> QED BY <1>1, <1>2, TreesAssumption DEF Other, Torn, Directory, Data

LEMMA NothingLostIs ==
  ASSUME TypeOK, kept \subseteq Paths \cup {Other}
  PROVE  NothingLost <=> kept \subseteq {fs[q] : q \in DOMAIN fs} \cup bin
<1>1. DataIn(fs) = {fs[q] : q \in DOMAIN fs} \ {Directory}
  BY DataInIs DEF TypeOK
<1>2. Directory \notin kept
  BY NoPathIsOther DEF TypeOK
<1> QED BY <1>1, <1>2 DEF NothingLost

\* If what is changed is spare nothing is lost by it.
LEMMA SpareMayGo ==
  ASSUME TypeOK, TypeOK', StaysInPlace, kept \subseteq Paths \cup {Other}, Grows,
         NEW gone, Spare(gone), SameBut(fs, fs', gone)
  PROVE  NothingLost' /\ StaysInPlace'
<1>1. ASSUME NEW d \in kept' PROVE d \in {fs'[q] : q \in DOMAIN fs'} \cup bin'
  BY <1>1 DEF Grows, Spare, SameBut
<1>2. NothingLost'
  <2>1. kept' \subseteq {fs'[q] : q \in DOMAIN fs'} \cup bin'
    BY <1>1
  <2>2. DataIn(fs') = {fs'[q] : q \in DOMAIN fs'} \ {Directory}
    BY DataInIs DEF TypeOK
  <2>3. Directory \notin kept'
    BY NoPathIsOther DEF TypeOK
  <2> QED BY <2>1, <2>2, <2>3 DEF NothingLost
<1>3. ASSUME NEW p \in kept' \ {Other}, \A t \in taken' : ~Within(t, p)
      PROVE  p \in DOMAIN fs' /\ fs'[p] = p
  <2>1. p \in kept \ {Other} /\ \A t \in taken : ~Within(t, p)
    BY <1>3 DEF Grows
  <2>2. p \in DOMAIN fs /\ fs[p] = p
    BY <2>1 DEF StaysInPlace
  <2>3. p \notin gone
    BY <2>1 DEF Spare, Clear
  <2> QED BY <2>2, <2>3 DEF SameBut
<1> QED BY <1>2, <1>3 DEF StaysInPlace

\* Nothing is always spare, and what is spare stays so.
LEMMA NothingIsSpare ==
  ASSUME TypeOK, kept \subseteq Paths \cup {Other}, NothingLost
  PROVE  Spare({})
BY NothingLostIs DEF Spare, Clear

LEMMA StaysSpare ==
  ASSUME Grows, NEW gone, Spare(gone), SameBut(fs, fs', gone)
  PROVE  Spare(gone)'
BY DEF Grows, Spare, Clear, SameBut

\* What is at a path is spare once its loss is agreed to.
LEMMA GivenIsSpare ==
  ASSUME TypeOK, kept \subseteq Paths \cup {Other}, NothingLost, StaysInPlace,
         NEW u \in Paths
  PROVE  /\ kept \ DataAt(fs, u) \subseteq {fs[q] : q \in DOMAIN fs \ Below(u)} \cup bin
         /\ \A p \in ((kept \ DataAt(fs, u)) \ {Other}) \cap Below(u) : \E t \in taken : Within(t, p)
<1>1. \A q \in DOMAIN fs : Within(u, q) /\ fs[q] # Directory => fs[q] \in DataAt(fs, u)
  BY DEF DataAt, At
<1>2. Directory \notin kept
  BY NoPathIsOther DEF TypeOK
<1>3. kept \ DataAt(fs, u) \subseteq {fs[q] : q \in DOMAIN fs \ Below(u)} \cup bin
  BY <1>1, <1>2, NothingLostIs DEF Below
<1>4. ASSUME NEW p \in ((kept \ DataAt(fs, u)) \ {Other}) \cap Below(u), \A t \in taken : ~Within(t, p)
      PROVE  FALSE
  <2>1. p \in DOMAIN fs /\ fs[p] = p
    BY <1>4 DEF StaysInPlace
  <2> QED BY <1>1, <1>2, <1>4, <2>1 DEF Below
<1> QED BY <1>3, <1>4

-----------------------------------------------------------------------------
(* The request stays one.                                                  *)

LEMMA SourceIs ==
  ASSUME TypeOK, RequestFits, task.sources # <<>>
  PROVE  /\ Source \in Paths \ {Root}
         /\ Len(task.sources) \in Nat \ {0}
         /\ task.op \in Transfers => Destination \in Paths \ {Root}
<1>1. task.sources \in Seq(Paths)
  <2>1. PICK n \in 0..MaxSources : task.sources \in [1..n -> Paths]
    BY DEF TypeOK, TaskType, BoundedSeq, SeqOf
  <2> QED BY <2>1, SeqDef, FileTransferAssumption
<1>2. Len(task.sources) \in Nat \ {0} /\ DOMAIN task.sources = 1..Len(task.sources)
  BY <1>1, LenProperties, EmptySeq
<1>3. Source = task.sources[1] /\ 1 \in DOMAIN task.sources
  BY <1>1, <1>2 DEF Source
<1>4. task.sources[1] \in Paths
  BY <1>1, <1>2, ElementOfSeq
<1> QED BY <1>2, <1>3, <1>4 DEF RequestFits, Destination

LEMMA RestOfSources ==
  ASSUME TypeOK, task.sources # <<>>
  PROVE  /\ Tail(task.sources) \in BoundedSeq(Paths, MaxSources)
         /\ Len(Tail(task.sources)) = Len(task.sources) - 1
         /\ \A i \in DOMAIN Tail(task.sources) :
              i + 1 \in DOMAIN task.sources /\ Tail(task.sources)[i] = task.sources[i + 1]
<1>1. PICK n \in 0..MaxSources : task.sources \in [1..n -> Paths]
  BY DEF TypeOK, TaskType, BoundedSeq, SeqOf
<1>2. n \in Nat /\ task.sources \in Seq(Paths)
  BY <1>1, SeqDef, FileTransferAssumption
<1>3. Len(task.sources) = n /\ n # 0
  BY <1>1, <1>2, LenProperties, EmptySeq
<1>4. /\ Tail(task.sources) \in Seq(Paths) /\ Len(Tail(task.sources)) = n - 1
      /\ \A i \in 1..n - 1 : Tail(task.sources)[i] = task.sources[i + 1]
  BY <1>2, <1>3, HeadTailProperties
<1>5. Tail(task.sources) \in [1..n - 1 -> Paths] /\ DOMAIN Tail(task.sources) = 1..n - 1
  BY <1>4, LenProperties
<1>6. n - 1 \in 0..MaxSources
  BY <1>1, <1>3, FileTransferAssumption
<1>7. Tail(task.sources) \in BoundedSeq(Paths, MaxSources)
  BY <1>5, <1>6 DEF BoundedSeq, SeqOf
<1> QED BY <1>1, <1>2, <1>3, <1>4, <1>5, <1>7

LEMMA RootIsPath == Root \in Paths
<1>1. Root \in Seq(Names) /\ Len(Root) = 0
  BY EmptySeq DEF Root
<1>2. Len(Root) <= MaxDepth
  BY <1>1, TreesAssumption
<1> QED BY <1>1, <1>2, PathsAreWords

LEMMA EndFits ==
  ASSUME TypeOK, RequestFits, task.op # "none",
         NEW stage \in {"ok", "failed", "canceled"}, End(stage)
  PROVE  task' \in TaskType /\ RequestFits'
<1>1. task' \in TaskType
  BY DEF TypeOK, TaskType, End
<1>2. /\ task'.sources = task.sources /\ task'.op = task.op /\ task'.as = task.as
      /\ task'.into = task.into /\ task'.stage = stage
  BY DEF TypeOK, TaskType, End
<1> QED BY <1>1, <1>2 DEF RequestFits, DestinationOf, Source

LEMMA AskFits ==
  ASSUME TypeOK, RequestFits, task.op # "none", task.stage = "next", End("ask")
  PROVE  task' \in TaskType /\ RequestFits'
<1>1. task' \in TaskType
  BY DEF TypeOK, TaskType, End
<1>2. /\ task'.sources = task.sources /\ task'.op = task.op /\ task'.as = task.as
      /\ task'.into = task.into /\ task'.stage = "ask" /\ task'.backup = task.backup
  BY DEF TypeOK, TaskType, End
<1> QED BY <1>1, <1>2 DEF RequestFits, DestinationOf, Source

LEMMA OpenFits ==
  ASSUME TypeOK, RequestFits, task.op = "create", End("open")
  PROVE  task' \in TaskType /\ RequestFits'
<1>1. task' \in TaskType
  BY DEF TypeOK, TaskType, End
<1>2. /\ task'.sources = task.sources /\ task'.op = task.op /\ task'.as = task.as
      /\ task'.into = task.into /\ task'.stage = "open"
  BY DEF TypeOK, TaskType, End
<1> QED BY <1>1, <1>2 DEF RequestFits, DestinationOf, Source

LEMMA CopyFits ==
  ASSUME TypeOK, RequestFits, task.op # "none", task.stage = "replace", End("copy"), task.backup = NoPath
  PROVE  task' \in TaskType /\ RequestFits'
<1>1. task' \in TaskType
  BY DEF TypeOK, TaskType, End
<1>2. /\ task'.sources = task.sources /\ task'.op = task.op /\ task'.as = task.as
      /\ task'.into = task.into /\ task'.stage = "copy" /\ task'.backup = NoPath
      /\ task'.dst = task.dst
  BY DEF TypeOK, TaskType, End
<1> QED BY <1>1, <1>2 DEF RequestFits, DestinationOf, Source

LEMMA UnmoveFits ==
  ASSUME TypeOK, RequestFits, task.op = "move", task' = [task EXCEPT !.stage = "unmove"]
  PROVE  task' \in TaskType /\ RequestFits'
<1>1. task' \in TaskType
  BY DEF TypeOK, TaskType
<1>2. /\ task'.sources = task.sources /\ task'.op = task.op /\ task'.as = task.as
      /\ task'.into = task.into /\ task'.stage = "unmove"
  BY DEF TypeOK, TaskType
<1> QED BY <1>1, <1>2 DEF RequestFits, DestinationOf, Source

LEMMA GoFits ==
  ASSUME TypeOK, RequestFits, task.op # "none", task.stage \in {"next", "ask"},
         NEW stage \in {"replace", "copy"}, NEW dst \in Paths \ {Root},
         NEW sticky \in {"none", "yes_to_all", "no_to_all"},
         task' = [task EXCEPT !.stage = stage, !.dst = dst, !.sticky = sticky]
  PROVE  task' \in TaskType /\ RequestFits'
<1>1. task' \in TaskType
  BY DEF TypeOK, TaskType
<1>2. /\ task'.sources = task.sources /\ task'.op = task.op /\ task'.as = task.as
      /\ task'.into = task.into /\ task'.stage = stage /\ task'.dst = dst
      /\ task'.backup = task.backup
  BY DEF TypeOK, TaskType
<1>3. task.backup = NoPath
  BY DEF RequestFits
<1> QED BY <1>1, <1>2, <1>3 DEF RequestFits, DestinationOf, Source

LEMMA AsideFits ==
  ASSUME TypeOK, RequestFits, task.op # "none",
         NEW dst \in Paths \ {Root}, NEW backup \in Paths \ {Root},
         Len(backup) = Len(dst), Front(backup) = Front(dst),
         task' = [task EXCEPT !.stage = "copy", !.dst = dst, !.backup = backup]
  PROVE  task' \in TaskType /\ RequestFits'
<1>1. task' \in TaskType
  BY DEF TypeOK, TaskType
<1>2. /\ task'.sources = task.sources /\ task'.op = task.op /\ task'.as = task.as
      /\ task'.into = task.into /\ task'.stage = "copy" /\ task'.dst = dst
      /\ task'.backup = backup
  BY DEF TypeOK, TaskType
<1> QED BY <1>1, <1>2 DEF RequestFits, DestinationOf, Source

LEMMA NextFits ==
  ASSUME TypeOK, RequestFits, task.op # "none", task.sources # <<>>,
         NEW sticky \in {"none", "yes_to_all", "no_to_all"},
         task' = [NextSource EXCEPT !.sticky = sticky]
  PROVE  task' \in TaskType /\ RequestFits'
<1>1. PICK rest : rest = Tail(task.sources)
  OBVIOUS
<1>2. rest \in BoundedSeq(Paths, MaxSources)
  BY <1>1, RestOfSources
<1>3. /\ Len(rest) = Len(task.sources) - 1
      /\ \A i \in DOMAIN rest : i + 1 \in DOMAIN task.sources /\ rest[i] = task.sources[i + 1]
  BY <1>1, RestOfSources
<1>4. task' = [task EXCEPT !.stage = "next", !.sources = rest, !.dst = NoPath,
                           !.backup = NoPath, !.sticky = sticky]
  BY <1>1 DEF TypeOK, TaskType, NextSource
<1>5. task' \in TaskType
  BY <1>2, <1>4, RootIsPath DEF TypeOK, TaskType, NoPath
<1>6. /\ task'.sources = rest /\ task'.op = task.op /\ task'.as = task.as
      /\ task'.into = task.into /\ task'.stage = "next" /\ task'.backup = NoPath
  BY <1>4 DEF TypeOK, TaskType
<1>7. task.op = "rename" => rest = <<>> /\ Len(rest) <= 1
  <2>1. SUFFICES ASSUME task.op = "rename" PROVE rest = <<>> /\ Len(rest) <= 1
    OBVIOUS
  <2>2. Len(task.sources) \in Nat \ {0} /\ Len(task.sources) <= 1
    BY <2>1, SourceIs DEF RequestFits
  <2>3. PICK n \in 0..MaxSources : rest \in [1..n -> Paths]
    BY <1>2 DEF BoundedSeq, SeqOf
  <2>4. rest \in Seq(Paths)
    BY <2>3, SeqDef, FileTransferAssumption
  <2>5. Len(task.sources) = 1
    <3>1. \A m \in Nat \ {0} : m <= 1 => m = 1
      OBVIOUS
    <3> QED BY <2>2, <3>1
  <2>6. Len(rest) = 0
    BY <1>3, <2>5
  <2> QED BY <2>4, <2>6, EmptySeq
<1>8. ASSUME NEW i \in DOMAIN rest
      PROVE  /\ rest[i] # Root
             /\ task.op \in Transfers => DestinationOf(task', rest[i]) \in Paths \ {Root}
  <2>1. i + 1 \in DOMAIN task.sources /\ rest[i] = task.sources[i + 1]
    BY <1>3
  <2>2. DestinationOf(task', rest[i]) = DestinationOf(task, rest[i])
    BY <1>6 DEF DestinationOf
  <2> QED BY <2>1, <2>2 DEF RequestFits
<1> QED BY <1>5, <1>6, <1>7, <1>8 DEF RequestFits

LEMMA NextFitsAlone ==
  ASSUME TypeOK, RequestFits, task.op # "none", task.sources # <<>>, task' = NextSource
  PROVE  task' \in TaskType /\ RequestFits'
<1>1. task.sticky \in {"none", "yes_to_all", "no_to_all"}
  BY DEF TypeOK, TaskType
<1>2. task' = [NextSource EXCEPT !.sticky = task.sticky]
  BY DEF TypeOK, TaskType, NextSource
<1> QED BY <1>1, <1>2, NextFits

\* Where the request is about to lose nothing there is nothing to spare.
LEMMA NothingGoes ==
  ASSUME kept' \subseteq Paths \cup {Other},
         task'.op \in {"none", "recycle"} => \A q \in DOMAIN fs' : fs'[q] \in {Directory, q, Other},
         task'.stage \notin {"replace", "unmove", "copy", "open"},
         task'.op # "rename" \/ task'.sources = <<>>
  PROVE  SparesWhatGoes'
BY DEF SparesWhatGoes

LEMMA TypeIs ==
  TypeOK <=>
    /\ Typed(fs) /\ bin \subseteq Data /\ task \in TaskType /\ writes \in 0..MaxWrites
    /\ kept \subseteq Data /\ taken \subseteq Paths
BY DEF TypeOK, Typed

\* A step that changes only what is spare, and does not add to what is kept.
LEMMA SpareStep ==
  ASSUME Transferring, NEW gone, Spare(gone), SameBut(fs, fs', gone), Typed(fs'), Grows,
         bin' \subseteq Data, taken' \subseteq Paths, writes' = writes, task' \in TaskType
  PROVE  TypeOK' /\ NothingLost' /\ StaysInPlace' /\ kept' \subseteq Paths \cup {Other}
<1>1. TypeOK /\ StaysInPlace /\ kept \subseteq Paths \cup {Other}
  BY DEF Transferring, SparesWhatGoes
<1>2. kept' \subseteq Data /\ kept' \subseteq Paths \cup {Other}
  BY <1>1, TypeIs DEF Grows
<1>3. TypeOK'
  BY <1>1, <1>2, TypeIs DEF TypeOK, Typed
<1> QED BY <1>1, <1>2, <1>3, SpareMayGo

\* A step that changes nothing but the request.
LEMMA RequestStep ==
  ASSUME Transferring, UNCHANGED <<fs, bin, writes, kept, taken>>, task' \in TaskType
  PROVE  TypeOK' /\ NothingLost' /\ StaysInPlace' /\ kept' \subseteq Paths \cup {Other}
<1>1. UNCHANGED fs /\ UNCHANGED bin /\ UNCHANGED writes /\ UNCHANGED kept /\ UNCHANGED taken
  OBVIOUS
<1>2. TypeOK'
  BY <1>1 DEF Transferring, TypeOK
<1>3. NothingLost'
  BY <1>1 DEF Transferring, NothingLost
<1>4. StaysInPlace'
  BY <1>1 DEF Transferring, StaysInPlace
<1>5. kept' \subseteq Paths \cup {Other}
  BY <1>1 DEF Transferring, SparesWhatGoes
<1> QED BY <1>2, <1>3, <1>4, <1>5

LEMMA SpareAsBefore ==
  ASSUME UNCHANGED <<fs, bin, kept, taken>>, NEW gone, Spare(gone)
  PROVE  Spare(gone)'
<1>1. UNCHANGED fs /\ UNCHANGED bin /\ UNCHANGED kept /\ UNCHANGED taken
  OBVIOUS
<1> QED BY <1>1 DEF Spare, Clear

LEMMA EndStep ==
  ASSUME Transferring, task.op # "none", NEW stage \in {"ok", "failed", "canceled"}, End(stage),
         UNCHANGED <<fs, bin, writes, kept, taken>>
  PROVE  Transferring'
<1>1. TypeOK /\ RequestFits /\ SparesWhatGoes
  BY DEF Transferring
<1>2. task' \in TaskType /\ RequestFits'
  BY <1>1, EndFits
<1>3. TypeOK' /\ NothingLost' /\ StaysInPlace' /\ kept' \subseteq Paths \cup {Other}
  BY <1>2, RequestStep
<1>4. task'.sources = task.sources /\ task'.op = task.op /\ task'.as = task.as /\ task'.stage = stage
  BY <1>1 DEF TypeOK, TaskType, End
<1>5. task.op = "rename" /\ task.sources # <<>> => Spare({task.as})'
  <2>1. PICK as : as = task.as
    OBVIOUS
  <2>2. task'.as = as
    BY <1>4, <2>1
  <2>3. task.op = "rename" /\ task.sources # <<>> => Spare({as})
    BY <1>1, <2>1 DEF SparesWhatGoes
  <2>4. Spare({as}) => Spare({as})'
    BY SpareAsBefore
  <2>5. Spare({as})' => Spare({task.as})'
    BY <2>2
  <2> QED BY <2>3, <2>4, <2>5
<1>6. task'.op \in {"none", "recycle"} => \A q \in DOMAIN fs' : fs'[q] \in {Directory, q, Other}
  BY <1>1, <1>4 DEF SparesWhatGoes
<1>7. SparesWhatGoes'
  BY <1>3, <1>4, <1>5, <1>6 DEF SparesWhatGoes
<1> QED BY <1>2, <1>3, <1>7 DEF Transferring

LEMMA SucceedStep == ASSUME Transferring, Succeed PROVE Transferring'
<1>1. task.op # "none" /\ End("ok") /\ UNCHANGED <<fs, bin, writes, kept, taken>>
  BY DEF Succeed
<1> QED BY <1>1, EndStep

LEMMA CancelStep == ASSUME Transferring, Cancel PROVE Transferring'
<1>1. task.op # "none" /\ End("canceled") /\ UNCHANGED <<fs, bin, writes, kept, taken>>
  BY DEF Cancel, On
<1> QED BY <1>1, EndStep

LEMMA SourceMissingStep == ASSUME Transferring, SourceMissing PROVE Transferring'
<1>1. task.op # "none" /\ End("failed") /\ UNCHANGED <<fs, bin, writes, kept, taken>>
  BY DEF SourceMissing, On, Transfers
<1> QED BY <1>1, EndStep

\* The request of a transfer goes on, or of another one that is not to spare anything.
LEMMA TransferGoesOn ==
  ASSUME Transferring, task.op \in Transfers, UNCHANGED <<fs, bin, writes, kept, taken>>,
         task' \in TaskType, RequestFits', task'.op = task.op,
         task'.stage \in {"next", "ask"} \/ (task'.stage = "copy" /\ task'.backup = NoPath)
  PROVE  Transferring'
<1>1. TypeOK' /\ NothingLost' /\ StaysInPlace' /\ kept' \subseteq Paths \cup {Other}
  BY RequestStep
<1>2. SparesWhatGoes'
  BY <1>1 DEF SparesWhatGoes, Transfers
<1> QED BY <1>1, <1>2 DEF Transferring

LEMMA GoIs ==
  ASSUME TypeOK, NEW stage, NEW dst, Go(stage, dst)
  PROVE  /\ task.sticky \in {"none", "yes_to_all", "no_to_all"}
         /\ task' = [task EXCEPT !.stage = stage, !.dst = dst, !.sticky = task.sticky]
         /\ task'.op = task.op /\ task'.stage = stage /\ task'.backup = task.backup
         /\ task'.dst = dst
BY DEF TypeOK, TaskType, Go

\* A copy is begun, to a path that is free.
LEMMA GoCopyStep ==
  ASSUME Transferring, task.op \in Transfers, task.stage \in {"next", "ask"},
         NEW dst \in Paths \ {Root}, Go("copy", dst), UNCHANGED <<fs, bin, writes, kept, taken>>
  PROVE  Transferring'
<1>1. TypeOK /\ RequestFits /\ task.op # "none"
  BY DEF Transferring, Transfers
<1>2. PICK sticky \in {"none", "yes_to_all", "no_to_all"} :
        task' = [task EXCEPT !.stage = "copy", !.dst = dst, !.sticky = sticky]
  BY <1>1, GoIs
<1>3. task' \in TaskType /\ RequestFits'
  BY <1>1, <1>2, GoFits
<1>4. task'.op = task.op /\ task'.stage = "copy" /\ task'.backup = task.backup
  BY <1>1, GoIs
<1>5. task.backup = NoPath
  BY <1>1 DEF RequestFits
<1> QED BY <1>3, <1>4, <1>5, TransferGoesOn

LEMMA DestinationFreeStep == ASSUME Transferring, DestinationFree PROVE Transferring'
<1>1. /\ task.op \in Transfers /\ task.stage = "next" /\ task.sources # <<>> /\ Go("copy", Destination)
      /\ UNCHANGED <<fs, bin, writes, kept, taken>>
  BY DEF DestinationFree, On
<1>2. Destination \in Paths \ {Root}
  BY <1>1, SourceIs DEF Transferring
<1>3. PICK dst \in Paths \ {Root} : Go("copy", dst)
  BY <1>1, <1>2
<1> QED BY <1>1, <1>3, GoCopyStep

\* A name next to a path is one, too.
LEMMA FreeNamesAre ==
  ASSUME NEW u \in Paths \ {Root}, NEW q \in FreeNames(u)
  PROVE  /\ q \in Paths \ {Root} /\ q \notin DOMAIN fs
         /\ Len(q) = Len(u) /\ Front(q) = Front(u)
<1>1. q \in Paths /\ Len(q) = Len(u) /\ Front(q) = Front(u) /\ q \notin DOMAIN fs
  BY DEF FreeNames
<1>2. Len(u) # 0
  BY PathIsWord, RootIsWord
<1>3. q # Root
  BY <1>1, <1>2, RootIsWord
<1> QED BY <1>1, <1>3

LEMMA RenameCopyStep == ASSUME Transferring, RenameCopy PROVE Transferring'
<1>1. /\ task.op \in Transfers /\ task.stage = "next" /\ task.sources # <<>> /\ task.op # "none"
      /\ UNCHANGED <<fs, bin, writes, kept, taken>>
      /\ (\E q \in FreeNames(Destination) : Go("copy", q)) \/ End("failed")
  BY DEF RenameCopy, Conflict, On, Transfers
<1>2. Destination \in Paths \ {Root}
  BY <1>1, SourceIs DEF Transferring
<1>3. ASSUME NEW q \in FreeNames(Destination), Go("copy", q) PROVE Transferring'
  <2>1. q \in Paths \ {Root}
    BY <1>2, <1>3, FreeNamesAre
  <2> QED BY <1>1, <1>3, <2>1, GoCopyStep
<1>4. CASE End("failed")
  BY <1>1, <1>4, EndStep
<1> QED BY <1>1, <1>3, <1>4

LEMMA NextStep ==
  ASSUME Transferring, task.op \in Transfers, task.sources # <<>>,
         NEW sticky \in {"none", "yes_to_all", "no_to_all"},
         task' = [NextSource EXCEPT !.sticky = sticky], UNCHANGED <<fs, bin, writes, kept, taken>>
  PROVE  Transferring'
<1>1. TypeOK /\ RequestFits /\ task.op # "none"
  BY DEF Transferring, Transfers
<1>2. task' \in TaskType /\ RequestFits'
  BY <1>1, NextFits
<1>3. task'.op = task.op /\ task'.stage = "next"
  BY <1>1 DEF TypeOK, TaskType, NextSource
<1> QED BY <1>2, <1>3, TransferGoesOn

LEMMA SkipExistingStep == ASSUME Transferring, SkipExisting PROVE Transferring'
<1>1. /\ task.op \in Transfers /\ task.sources # <<>> /\ task' = NextSource
      /\ UNCHANGED <<fs, bin, writes, kept, taken>>
  BY DEF SkipExisting, Asked, Conflict, On, Skip
<1>2. task.sticky \in {"none", "yes_to_all", "no_to_all"}
  BY DEF Transferring, TypeOK, TaskType
<1>3. NextSource = [NextSource EXCEPT !.sticky = task.sticky]
  BY DEF Transferring, TypeOK, TaskType, NextSource
<1>4. PICK sticky \in {"none", "yes_to_all", "no_to_all"} : task' = [NextSource EXCEPT !.sticky = sticky]
  BY <1>1, <1>2, <1>3
<1> QED BY <1>1, <1>4, NextStep

LEMMA AskStep == ASSUME Transferring, Ask PROVE Transferring'
<1>1. /\ task.op \in Transfers /\ task.op # "none" /\ task.stage = "next" /\ End("ask")
      /\ UNCHANGED <<fs, bin, writes, kept, taken>>
  BY DEF Ask, Asked, Conflict, On, Transfers
<1>2. TypeOK /\ RequestFits
  BY DEF Transferring
<1>3. task' \in TaskType /\ RequestFits'
  BY <1>1, <1>2, AskFits
<1>4. task'.op = task.op /\ task'.stage = "ask"
  BY <1>1, <1>2 DEF TypeOK, TaskType, End
<1> QED BY <1>1, <1>3, <1>4, TransferGoesOn

\* An existing file or directory is to be replaced: all at its path may go.
LEMMA ReplaceAgreed ==
  ASSUME Transferring, task.op \in Transfers, task.stage \in {"next", "ask"}, task.sources # <<>>,
         NEW sticky \in {"none", "yes_to_all", "no_to_all"}, Give(Destination),
         task' = [task EXCEPT !.stage = "replace", !.dst = Destination, !.sticky = sticky],
         UNCHANGED <<fs, bin, writes, taken>>
  PROVE  Transferring'
<1>1. TypeOK /\ RequestFits /\ StaysInPlace /\ NothingLost /\ task.op # "none"
  BY DEF Transferring, Transfers
<1>2. Destination \in Paths \ {Root}
  BY <1>1, SourceIs
<1>3. PICK dst \in Paths \ {Root} : dst = Destination
  BY <1>2
<1>4. task' = [task EXCEPT !.stage = "replace", !.dst = dst, !.sticky = sticky]
  BY <1>3
<1>5. task' \in TaskType /\ RequestFits'
  BY <1>1, <1>4, GoFits
<1>6. task'.op = task.op /\ task'.stage = "replace" /\ task'.dst = dst
  BY <1>1, <1>4 DEF TypeOK, TaskType
<1>7. kept' = kept \ DataAt(fs, dst)
  BY <1>3 DEF Give
<1>8. UNCHANGED fs /\ UNCHANGED bin /\ UNCHANGED writes /\ UNCHANGED taken
  OBVIOUS
<1>9. kept \subseteq Paths \cup {Other}
  BY DEF Transferring, SparesWhatGoes
<1>10. Spare(Below(dst))'
  <2>1. /\ kept \ DataAt(fs, dst) \subseteq {fs[q] : q \in DOMAIN fs \ Below(dst)} \cup bin
        /\ \A p \in ((kept \ DataAt(fs, dst)) \ {Other}) \cap Below(dst) : \E t \in taken : Within(t, p)
    BY <1>1, <1>9, GivenIsSpare
  <2> QED BY <1>7, <1>8, <2>1 DEF Spare, Clear, Below
<1>11. TypeOK' /\ NothingLost' /\ StaysInPlace' /\ kept' \subseteq Paths \cup {Other}
  <2>1. Spare({})
    BY <1>1, <1>9, NothingIsSpare
  <2>2. SameBut(fs, fs', {}) /\ Grows /\ Typed(fs') /\ bin' \subseteq Data /\ taken' \subseteq Paths
    BY <1>1, <1>7, <1>8, TypeIs DEF SameBut, Grows
  <2> QED BY <1>5, <1>8, <2>1, <2>2, SpareStep
<1>12. SparesWhatGoes'
  <2>1. Spare(Below(task.dst))'
    BY <1>6, <1>10
  <2> QED BY <1>6, <1>11, <2>1 DEF SparesWhatGoes, Transfers
<1> QED BY <1>5, <1>11, <1>12 DEF Transferring

LEMMA OverwriteExistingStep == ASSUME Transferring, OverwriteExisting PROVE Transferring'
<1>1. /\ task.op \in Transfers /\ task.sources # <<>> /\ task.stage = "next"
      /\ Go("replace", Destination) /\ Give(Destination)
      /\ UNCHANGED <<fs, bin, writes, taken>>
  BY DEF OverwriteExisting, Asked, Conflict, On
<1>2. PICK sticky \in {"none", "yes_to_all", "no_to_all"} :
        task' = [task EXCEPT !.stage = "replace", !.dst = Destination, !.sticky = sticky]
  BY <1>1, GoIs DEF Transferring
<1> QED BY <1>1, <1>2, ReplaceAgreed

LEMMA AnswerStep == ASSUME Transferring, Answer PROVE Transferring'
<1>1. task.op \in Transfers /\ task.op # "none" /\ task.sources # <<>> /\ task.stage = "ask"
  BY DEF Answer, Conflict, On, Transfers
<1>2. UNCHANGED <<fs, bin, writes, taken>>
  BY DEF Answer
<1>3. Destination \in Paths \ {Root}
  BY <1>1, SourceIs DEF Transferring
<1>4. ASSUME NEW sticky \in {"none", "yes_to_all"}, Give(Destination),
             task' = [Stick(sticky) EXCEPT !.stage = "replace", !.dst = Destination]
      PROVE  Transferring'
  <2>1. task' = [task EXCEPT !.stage = "replace", !.dst = Destination, !.sticky = sticky]
    BY <1>4 DEF Stick, Transferring, TypeOK, TaskType
  <2> QED BY <1>1, <1>2, <1>4, <2>1, ReplaceAgreed
<1>5. ASSUME NEW sticky \in {"none", "no_to_all"}, UNCHANGED kept,
             task' = [NextSource EXCEPT !.sticky = sticky]
      PROVE  Transferring'
  BY <1>1, <1>2, <1>5, NextStep
<1>6. ASSUME NEW q \in FreeNames(Destination) \cup ({Destination} \ DOMAIN fs), Go("copy", q),
             UNCHANGED kept
      PROVE  Transferring'
  <2>1. q \in Paths \ {Root}
    BY <1>3, <1>6, FreeNamesAre
  <2> QED BY <1>1, <1>2, <1>6, <2>1, GoCopyStep
<1>7. ASSUME NEW stage \in {"failed", "canceled"}, End(stage), UNCHANGED kept PROVE Transferring'
  BY <1>1, <1>2, <1>7, EndStep
<1> QED BY <1>4, <1>5, <1>6, <1>7 DEF Answer

\* A step after which what is kept is somewhere, and which leaves in its place what
\* was not moved.
LEMMA MovingStep ==
  ASSUME Transferring, NEW gone, SameBut(fs, fs', gone), Typed(fs'), Grows,
         kept' \subseteq {fs'[q] : q \in DOMAIN fs'} \cup bin',
         \A p \in (kept' \ {Other}) \cap gone : \E t \in taken' : Within(t, p),
         bin' \subseteq Data, taken' \subseteq Paths, writes' = writes, task' \in TaskType
  PROVE  TypeOK' /\ NothingLost' /\ StaysInPlace' /\ kept' \subseteq Paths \cup {Other}
<1>1. TypeOK /\ StaysInPlace /\ kept \subseteq Paths \cup {Other}
  BY DEF Transferring, SparesWhatGoes
<1>2. kept' \subseteq Data /\ kept' \subseteq Paths \cup {Other}
  BY <1>1, TypeIs DEF Grows
<1>3. TypeOK'
  BY <1>1, <1>2, TypeIs DEF TypeOK, Typed
<1>4. NothingLost'
  <2>1. DataIn(fs') = {fs'[q] : q \in DOMAIN fs'} \ {Directory}
    BY <1>3, DataInIs DEF TypeOK
  <2>2. Directory \notin kept'
    BY <1>2, NoPathIsOther
  <2> QED BY <2>1, <2>2 DEF NothingLost
<1>5. ASSUME NEW p \in kept' \ {Other}, \A t \in taken' : ~Within(t, p)
      PROVE  p \in DOMAIN fs' /\ fs'[p] = p
  <2>1. p \in kept \ {Other} /\ \A t \in taken : ~Within(t, p)
    BY <1>5 DEF Grows
  <2>2. p \in DOMAIN fs /\ fs[p] = p
    BY <1>1, <2>1 DEF StaysInPlace
  <2>3. p \notin gone
    BY <1>5
  <2> QED BY <2>2, <2>3 DEF SameBut
<1> QED BY <1>2, <1>3, <1>4, <1>5 DEF StaysInPlace

LEMMA RenameExistingStep == ASSUME Transferring, RenameExisting PROVE Transferring'
<1>1. /\ task.op \in Transfers /\ task.op # "none" /\ task.stage = "next" /\ task.sources # <<>>
      /\ UNCHANGED bin /\ UNCHANGED writes /\ UNCHANGED kept
  BY DEF RenameExisting, Conflict, On, Transfers
<1>2. TypeOK /\ RequestFits /\ NothingLost /\ StaysInPlace /\ kept \subseteq Paths \cup {Other} /\ Typed(fs)
  BY TypeIs DEF Transferring, SparesWhatGoes
<1>3. PICK dst \in Paths \ {Root} : dst = Destination
  BY <1>1, <1>2, SourceIs
<1>4. ASSUME NEW q \in FreeNames(Destination), fs' = Renamed(fs, Destination, q),
             task' = [task EXCEPT !.stage = "copy", !.dst = Destination, !.backup = q],
             taken' = taken \cup {Destination}
      PROVE  Transferring'
  <2>1. /\ q \in Paths \ {Root} /\ q \notin DOMAIN fs /\ Len(q) = Len(dst) /\ Front(q) = Front(dst)
    BY <1>3, <1>4, FreeNamesAre
  <2>2. task' = [task EXCEPT !.stage = "copy", !.dst = dst, !.backup = q] /\ fs' = Renamed(fs, dst, q)
        /\ taken' = taken \cup {dst}
    BY <1>3, <1>4
  <2>3. task' \in TaskType /\ RequestFits'
    BY <1>1, <1>2, <2>1, <2>2, AsideFits
  <2>4. task'.op = task.op /\ task'.stage = "copy" /\ task'.backup = q
    BY <1>2, <2>2 DEF TypeOK, TaskType
  <2>5. /\ Typed(fs')
        /\ \A w \in DOMAIN fs : ~Within(dst, w) => w \in DOMAIN fs' /\ fs'[w] = fs[w]
        /\ \A w \in DOMAIN fs : Within(dst, w) =>
             Rebased(w, dst, q) \in DOMAIN fs' /\ fs'[Rebased(w, dst, q)] = fs[w]
    BY <1>2, <2>1, <2>2, RenamedIs
  <2>6. SameBut(fs, fs', Below(dst))
    BY <1>2, <2>5 DEF SameBut, Below, Typed
  <2>7. kept' \subseteq {fs'[w] : w \in DOMAIN fs'} \cup bin'
    <3>1. kept \subseteq {fs[w] : w \in DOMAIN fs} \cup bin
      BY <1>2, NothingLostIs
    <3>2. \A w \in DOMAIN fs : fs[w] \in {fs'[v] : v \in DOMAIN fs'}
      BY <2>5
    <3> QED BY <1>1, <3>1, <3>2
  <2>8. \A p \in (kept' \ {Other}) \cap Below(dst) : \E t \in taken' : Within(t, p)
    BY <2>2 DEF Below
  <2>9. Grows /\ bin' \subseteq Data /\ taken' \subseteq Paths
    BY <1>1, <1>2, <2>2 DEF Grows, TypeOK
  <2>10. TypeOK' /\ NothingLost' /\ StaysInPlace' /\ kept' \subseteq Paths \cup {Other}
    BY <1>1, <2>3, <2>5, <2>6, <2>7, <2>8, <2>9, MovingStep
  <2>11. Clear(Below(q))'
    <3>1. ASSUME NEW p \in (kept \ {Other}), Within(q, p), \A t \in taken : ~Within(t, p) PROVE FALSE
      <4>1. p \in DOMAIN fs
        BY <1>2, <3>1 DEF StaysInPlace
      <4>2. q \in Words
        BY <2>1, PathIsWord
      <4> QED BY <1>2, <2>1, <3>1, <4>1, <4>2, NothingBelow
    <3> QED BY <1>1, <2>2, <3>1 DEF Clear, Below
  <2>12. SparesWhatGoes'
    <3>1. Clear(Below(task.backup))'
      BY <2>4, <2>11
    <3> QED BY <1>1, <2>4, <2>10, <3>1 DEF SparesWhatGoes, Transfers
  <2> QED BY <2>3, <2>10, <2>12 DEF Transferring
<1>5. ASSUME End("failed"), UNCHANGED <<fs, taken>> PROVE Transferring'
  BY <1>1, <1>5, EndStep
<1> QED BY <1>4, <1>5 DEF RenameExisting

\* What is removed, perhaps in part.
LEMMA RemovedIs ==
  ASSUME TypeOK, NEW u \in Paths \ {Root}, NEW result,
         result \in Removed(u) \/ result = Without(fs, At(fs, u))
  PROVE  /\ Typed(result) /\ SameBut(fs, result, Below(u))
         /\ DOMAIN result \subseteq DOMAIN fs /\ \A q \in DOMAIN result : result[q] = fs[q]
<1>1. Typed(fs)
  BY TypeIs
<1>2. PICK part \in Parts(fs, u) : result = Without(fs, At(fs, u) \ part)
  BY EmptyPart DEF Removed
<1>3. /\ Typed(result)
      /\ DOMAIN result \subseteq DOMAIN fs
      /\ \A q \in DOMAIN result : result[q] = fs[q]
      /\ \A q \in DOMAIN fs : ~Within(u, q) => q \in DOMAIN result
  BY <1>1, <1>2, WithoutIs
<1>4. SameBut(fs, result, Below(u))
  BY <1>1, <1>3 DEF SameBut, Below, Typed
<1> QED BY <1>3, <1>4

LEMMA ReplaceStep == ASSUME Transferring, Replace PROVE Transferring'
<1>1. /\ task.op \in Transfers /\ task.op # "none" /\ task.stage = "replace"
      /\ UNCHANGED bin /\ UNCHANGED writes /\ UNCHANGED kept /\ UNCHANGED taken
  BY DEF Replace, On, Transfers
<1>2. /\ TypeOK /\ RequestFits /\ NothingLost /\ StaysInPlace /\ kept \subseteq Paths \cup {Other}
      /\ Spare(Below(task.dst))
  BY <1>1 DEF Transferring, SparesWhatGoes
<1>3. PICK dst \in Paths \ {Root} : dst = task.dst
  BY <1>1, <1>2 DEF RequestFits, TypeOK, TaskType
<1>4. /\ fs' \in Removed(dst) \/ fs' = Without(fs, At(fs, dst))
      /\ End("failed") \/ (End("copy") /\ task.backup = NoPath)
  BY <1>1, <1>2, <1>3 DEF Replace, RequestFits
<1>5. Typed(fs') /\ SameBut(fs, fs', Below(dst))
  BY <1>2, <1>4, RemovedIs
<1>6. task' \in TaskType /\ RequestFits'
  BY <1>1, <1>2, <1>4, EndFits, CopyFits
<1>7. Grows /\ bin' \subseteq Data /\ taken' \subseteq Paths
  BY <1>1, <1>2 DEF Grows, TypeOK
<1>8. TypeOK' /\ NothingLost' /\ StaysInPlace' /\ kept' \subseteq Paths \cup {Other}
  BY <1>1, <1>2, <1>3, <1>5, <1>6, <1>7, SpareStep
<1>9. task'.op = task.op /\ (task'.stage = "failed" \/ (task'.stage = "copy" /\ task'.backup = NoPath))
  BY <1>2, <1>4 DEF TypeOK, TaskType, End
<1>10. SparesWhatGoes'
  BY <1>1, <1>8, <1>9 DEF SparesWhatGoes, Transfers
<1> QED BY <1>6, <1>8, <1>10 DEF Transferring

\* After one source it is the next one's turn.
LEMMA NextSourceIs ==
  ASSUME TypeOK, RequestFits, task.op # "none", task.sources # <<>>, task' = NextSource
  PROVE  /\ task' \in TaskType /\ RequestFits'
         /\ task'.op = task.op /\ task'.stage = "next" /\ task'.as = task.as
         /\ task.op = "rename" => task'.sources = <<>>
<1>1. task' \in TaskType /\ RequestFits'
  BY NextFitsAlone
<1>2. task'.op = task.op /\ task'.stage = "next" /\ task'.as = task.as /\ task'.sources = Tail(task.sources)
  BY DEF TypeOK, TaskType, NextSource
<1>3. task.op = "rename" => task'.sources = <<>>
  <2>1. SUFFICES ASSUME task.op = "rename" PROVE task'.sources = <<>>
    OBVIOUS
  <2>2. PICK rest : rest = Tail(task.sources)
    OBVIOUS
  <2>3. Len(rest) = Len(task.sources) - 1 /\ rest \in BoundedSeq(Paths, MaxSources)
    BY <2>2, RestOfSources
  <2>4. Len(task.sources) \in Nat \ {0} /\ Len(task.sources) <= 1
    BY <2>1, SourceIs DEF RequestFits
  <2>5. Len(task.sources) = 1
    <3>1. \A m \in Nat \ {0} : m <= 1 => m = 1
      OBVIOUS
    <3> QED BY <2>4, <3>1
  <2>6. PICK n \in 0..MaxSources : rest \in [1..n -> Paths]
    BY <2>3 DEF BoundedSeq, SeqOf
  <2>7. rest \in Seq(Paths)
    BY <2>6, SeqDef, FileTransferAssumption
  <2>8. Len(rest) = 0
    BY <2>3, <2>5
  <2> QED BY <1>2, <2>2, <2>7, <2>8, EmptySeq
<1> QED BY <1>1, <1>2, <1>3

LEMMA CopySourceStep == ASSUME Transferring, CopySource PROVE Transferring'
<1>1. /\ task.op \in Transfers /\ task.op # "none" /\ task.stage = "copy" /\ task.sources # <<>>
      /\ UNCHANGED bin /\ UNCHANGED writes /\ UNCHANGED kept
  BY DEF CopySource, On, Transfers
<1>2. /\ TypeOK /\ RequestFits /\ NothingLost /\ StaysInPlace /\ kept \subseteq Paths \cup {Other}
      /\ Typed(fs)
  BY TypeIs DEF Transferring, SparesWhatGoes
<1>3. PICK dst \in Paths \ {Root} : dst = task.dst
  BY <1>1, <1>2 DEF RequestFits, TypeOK, TaskType
<1>4. PICK source \in Paths \ {Root} : source = Source
  BY <1>1, <1>2, SourceIs
<1>5. /\ source \in DOMAIN fs /\ dst \notin DOMAIN fs /\ CanHold(fs, dst) /\ ~Within(source, dst)
      /\ \A q \in At(fs, source) : Rebased(q, source, dst) \in Paths
      /\ fs' = WithPart(WithParents(fs, dst), At(fs, source), fs, source, dst)
      /\ task' = AfterCopy
      /\ taken' = IF task.op = "move" THEN taken \cup {source} ELSE taken
  BY <1>3, <1>4 DEF CopySource, CanCopy, Copied
<1>6. /\ Typed(fs')
      /\ \A q \in DOMAIN fs : q \in DOMAIN fs' /\ fs'[q] = fs[q]
      /\ \A q \in At(fs, source) :
           Rebased(q, source, dst) \in DOMAIN fs' /\ fs'[Rebased(q, source, dst)] = fs[q]
  BY <1>2, <1>5, WholePart, WithPartIs
<1>7. Spare({}) /\ SameBut(fs, fs', {})
  BY <1>2, <1>6, NothingIsSpare DEF SameBut
<1>8. Grows /\ bin' \subseteq Data /\ taken' \subseteq Paths
  BY <1>1, <1>2, <1>5 DEF Grows, TypeOK
<1>9. CASE task.op = "move"
  <2>1. task' = [task EXCEPT !.stage = "unmove"]
    BY <1>5, <1>9 DEF AfterCopy
  <2>2. task' \in TaskType /\ RequestFits'
    BY <1>2, <1>9, <2>1, UnmoveFits
  <2>3. TypeOK' /\ NothingLost' /\ StaysInPlace' /\ kept' \subseteq Paths \cup {Other}
    BY <1>1, <1>6, <1>7, <1>8, <2>2, SpareStep
  <2>4. task'.op = "move" /\ task'.stage = "unmove" /\ task'.sources = task.sources
    BY <1>2, <1>9, <2>1 DEF TypeOK, TaskType
  <2>5. Source' = source
    BY <1>4, <2>4 DEF Source
  <2>6. source \in Words /\ dst \in Words
    BY PathIsWord
  <2>7. ASSUME NEW q \in DOMAIN fs PROVE fs[q] \in {fs'[w] : w \in DOMAIN fs' \ Below(source)}
    <3>1. CASE ~Within(source, q)
      BY <1>6, <3>1 DEF Below
    <3>2. CASE Within(source, q)
      <4>1. PICK w : w = Rebased(q, source, dst)
        OBVIOUS
      <4>2. q \in At(fs, source) /\ q \in Words
        BY <1>2, <3>2, PathIsWord DEF At, Typed
      <4>3. w \in DOMAIN fs' /\ fs'[w] = fs[q]
        BY <1>6, <4>1, <4>2
      <4>4. w \in Words /\ Within(dst, w)
        BY <2>6, <3>2, <4>1, <4>2, RebasedIs
      <4>5. ~Within(dst, source)
        BY <1>2, <1>5, <2>6, NothingBelow
      <4>6. ~Within(source, w)
        BY <1>5, <2>6, <4>4, <4>5, WithinBoth
      <4> QED BY <4>3, <4>6 DEF Below
    <3> QED BY <3>1, <3>2
  <2>8. kept' \subseteq {fs'[w] : w \in DOMAIN fs' \ Below(source)} \cup bin'
    <3>1. kept \subseteq {fs[q] : q \in DOMAIN fs} \cup bin
      BY <1>2, NothingLostIs
    <3> QED BY <1>1, <2>7, <3>1
  <2>9. Clear(Below(source))'
    BY <1>5, <1>9 DEF Clear, Below
  <2>10. Spare(Below(Source))'
    BY <2>5, <2>8, <2>9 DEF Spare, Below
  <2>11. SparesWhatGoes'
    BY <2>3, <2>4, <2>10 DEF SparesWhatGoes
  <2> QED BY <2>2, <2>3, <2>11 DEF Transferring
<1>10. CASE task.op # "move"
  <2>1. task' = NextSource
    BY <1>5, <1>10 DEF AfterCopy
  <2>2. task' \in TaskType /\ RequestFits' /\ task'.op = task.op /\ task'.stage = "next"
    BY <1>1, <1>2, <2>1, NextSourceIs
  <2>3. TypeOK' /\ NothingLost' /\ StaysInPlace' /\ kept' \subseteq Paths \cup {Other}
    BY <1>1, <1>6, <1>7, <1>8, <2>2, SpareStep
  <2>4. SparesWhatGoes'
    BY <1>1, <2>2, <2>3 DEF SparesWhatGoes, Transfers
  <2> QED BY <2>2, <2>3, <2>4 DEF Transferring
<1> QED BY <1>9, <1>10

\* A copy that fails adds to the files, and changes none.
LEMMA PartlyCopiedIs ==
  ASSUME TypeOK, NEW source \in Paths, source = Source, NEW dst \in Paths \ {Root}, dst = task.dst,
         NEW result \in PartlyCopied
  PROVE  Typed(result) /\ SameBut(fs, result, {})
<1>1. Typed(fs)
  BY TypeIs
<1>2. CASE result = fs
  BY <1>1, <1>2 DEF SameBut
<1>3. ASSUME dst \notin DOMAIN fs, CanHold(fs, dst), NEW part \in Parts(fs, source),
             \A q \in part : Rebased(q, source, dst) \in Paths,
             NEW done, done = WithPart(WithParents(fs, dst), part, fs, source, dst),
             result = done \/ \E q \in At(done, dst) : done[q] # Directory /\ result = [done EXCEPT ![q] = Torn]
      PROVE  Typed(result) /\ SameBut(fs, result, {})
  <2>1. Typed(done) /\ \A q \in DOMAIN fs : q \in DOMAIN done /\ done[q] = fs[q]
    BY <1>1, <1>3, WithPartIs
  <2>2. CASE result = done
    BY <2>1, <2>2 DEF SameBut
  <2>3. ASSUME NEW q \in At(done, dst), done[q] # Directory, result = [done EXCEPT ![q] = Torn]
        PROVE  Typed(result) /\ SameBut(fs, result, {})
    <3>1. q \in DOMAIN done /\ Within(dst, q)
      BY DEF At
    <3>2. q \notin DOMAIN fs
      <4>1. dst \in Words
        BY PathIsWord
      <4> QED BY <1>1, <1>3, <3>1, <4>1, NothingBelow
    <3>3. Torn \in Data
      BY DEF Data
    <3>4. /\ Typed(result) /\ DOMAIN result = DOMAIN done
          /\ \A w \in DOMAIN done \ {q} : result[w] = done[w]
      BY <2>1, <2>3, <3>1, <3>3, OverwrittenIs
    <3> QED BY <2>1, <3>2, <3>4 DEF SameBut
  <2> QED BY <1>3, <2>2, <2>3
<1>4. \/ result = fs
      \/ /\ dst \notin DOMAIN fs /\ CanHold(fs, dst)
         /\ \E part \in Parts(fs, source) :
              /\ \A q \in part : Rebased(q, source, dst) \in Paths
              /\ \/ result = Copied(part)
                 \/ \E q \in At(Copied(part), dst) :
                      Copied(part)[q] # Directory /\ result = [Copied(part) EXCEPT ![q] = Torn]
  BY DEF PartlyCopied
<1>5. \A part : Copied(part) = WithPart(WithParents(fs, dst), part, fs, source, dst)
  BY DEF Copied
<1> QED BY <1>2, <1>3, <1>4, <1>5

LEMMA CopyFailsStep == ASSUME Transferring, CopyFails PROVE Transferring'
<1>1. /\ task.op \in Transfers /\ task.op # "none" /\ task.stage = "copy" /\ task.sources # <<>>
      /\ UNCHANGED bin /\ UNCHANGED writes /\ UNCHANGED kept /\ UNCHANGED taken /\ End("failed")
  BY DEF CopyFails, On, Transfers
<1>2. /\ TypeOK /\ RequestFits /\ NothingLost /\ StaysInPlace /\ kept \subseteq Paths \cup {Other}
      /\ Typed(fs)
  BY TypeIs DEF Transferring, SparesWhatGoes
<1>3. PICK dst \in Paths \ {Root} : dst = task.dst
  BY <1>1, <1>2 DEF RequestFits, TypeOK, TaskType
<1>4. PICK source \in Paths \ {Root} : source = Source
  BY <1>1, <1>2, SourceIs
<1>5. PICK tree \in PartlyCopied : fs' \in Restored(tree)
  BY DEF CopyFails
<1>6. Typed(tree) /\ SameBut(fs, tree, {})
  BY <1>2, <1>3, <1>4, PartlyCopiedIs
<1>7. task' \in TaskType /\ RequestFits'
  BY <1>1, <1>2, EndFits
<1>8. Grows /\ bin' \subseteq Data /\ taken' \subseteq Paths
  BY <1>1, <1>2 DEF Grows, TypeOK
<1>9. TypeOK' /\ NothingLost' /\ StaysInPlace' /\ kept' \subseteq Paths \cup {Other}
  <2>1. CASE fs' = tree
    <3>1. Spare({})
      BY <1>2, NothingIsSpare
    <3> QED BY <1>1, <1>6, <1>7, <1>8, <2>1, <3>1, SpareStep
  <2>2. CASE task.backup # NoPath /\ dst \notin DOMAIN tree /\ fs' = Renamed(tree, task.backup, dst)
    <3>1. PICK backup \in Paths \ {Root} : backup = task.backup
      BY <1>2, <2>2 DEF TypeOK, TaskType, NoPath
    <3>2. Len(dst) = Len(backup) /\ Front(dst) = Front(backup) /\ Clear(Below(backup))
      BY <1>1, <1>2, <1>3, <2>2, <3>1 DEF RequestFits, Transferring, SparesWhatGoes
    <3>3. /\ Typed(fs')
          /\ \A q \in DOMAIN tree : ~Within(backup, q) => q \in DOMAIN fs' /\ fs'[q] = tree[q]
          /\ \A q \in DOMAIN tree : Within(backup, q) =>
               Rebased(q, backup, dst) \in DOMAIN fs' /\ fs'[Rebased(q, backup, dst)] = tree[q]
      BY <1>6, <2>2, <3>1, <3>2, RenamedIs
    <3>4. SameBut(fs, fs', Below(backup))
      BY <1>2, <1>6, <3>3 DEF SameBut, Below, Typed
    <3>5. kept' \subseteq {fs'[q] : q \in DOMAIN fs'} \cup bin'
      <4>1. kept \subseteq {fs[q] : q \in DOMAIN fs} \cup bin
        BY <1>2, NothingLostIs
      <4>2. \A q \in DOMAIN tree : tree[q] \in {fs'[w] : w \in DOMAIN fs'}
        BY <3>3
      <4>3. \A q \in DOMAIN fs : q \in DOMAIN tree /\ tree[q] = fs[q]
        BY <1>6 DEF SameBut
      <4> QED BY <1>1, <4>1, <4>2, <4>3
    <3>6. \A p \in (kept' \ {Other}) \cap Below(backup) : \E t \in taken' : Within(t, p)
      BY <1>1, <3>2 DEF Clear
    <3> QED BY <1>1, <1>7, <1>8, <3>3, <3>4, <3>5, <3>6, MovingStep
  <2> QED BY <1>3, <1>5, <2>1, <2>2 DEF Restored
<1>10. task'.op = task.op /\ task'.stage = "failed"
  BY <1>1, <1>2 DEF TypeOK, TaskType, End
<1>11. SparesWhatGoes'
  BY <1>1, <1>9, <1>10 DEF SparesWhatGoes, Transfers
<1> QED BY <1>7, <1>9, <1>11 DEF Transferring

LEMMA RemoveMovedStep == ASSUME Transferring, RemoveMoved PROVE Transferring'
<1>1. /\ task.op \in Transfers /\ task.op # "none" /\ task.stage = "unmove" /\ task.sources # <<>>
      /\ UNCHANGED bin /\ UNCHANGED writes /\ UNCHANGED kept /\ UNCHANGED taken
  BY DEF RemoveMoved, On, Transfers
<1>2. /\ TypeOK /\ RequestFits /\ NothingLost /\ StaysInPlace /\ kept \subseteq Paths \cup {Other}
      /\ Spare(Below(Source))
  BY <1>1 DEF Transferring, SparesWhatGoes
<1>3. PICK source \in Paths \ {Root} : source = Source
  BY <1>1, <1>2, SourceIs
<1>4. /\ fs' \in Removed(source) \/ fs' = Without(fs, At(fs, source))
      /\ End("failed") \/ task' = NextSource
  BY <1>3 DEF RemoveMoved
<1>5. Typed(fs') /\ SameBut(fs, fs', Below(source))
  BY <1>2, <1>4, RemovedIs
<1>6. task' \in TaskType /\ RequestFits' /\ task'.op = task.op /\ task'.stage \in {"failed", "next"}
  <2>1. CASE End("failed")
    BY <1>1, <1>2, <2>1, EndFits DEF TypeOK, TaskType, End
  <2>2. CASE task' = NextSource
    BY <1>1, <1>2, <2>2, NextSourceIs
  <2> QED BY <1>4, <2>1, <2>2
<1>7. Grows /\ bin' \subseteq Data /\ taken' \subseteq Paths
  BY <1>1, <1>2 DEF Grows, TypeOK
<1>8. TypeOK' /\ NothingLost' /\ StaysInPlace' /\ kept' \subseteq Paths \cup {Other}
  BY <1>1, <1>2, <1>3, <1>5, <1>6, <1>7, SpareStep
<1>9. SparesWhatGoes'
  BY <1>1, <1>6, <1>8 DEF SparesWhatGoes, Transfers
<1> QED BY <1>6, <1>8, <1>9 DEF Transferring

LEMMA DeletePathStep == ASSUME Transferring, DeletePath PROVE Transferring'
<1>1. /\ task.op = "delete" /\ task.stage = "next" /\ task.sources # <<>> /\ Give(Source)
      /\ UNCHANGED bin /\ UNCHANGED writes /\ UNCHANGED taken
  BY DEF DeletePath, On
<1>2. /\ TypeOK /\ RequestFits /\ NothingLost /\ StaysInPlace /\ kept \subseteq Paths \cup {Other}
  BY DEF Transferring, SparesWhatGoes
<1>3. PICK source \in Paths \ {Root} : source = Source
  BY <1>1, <1>2, SourceIs
<1>4. /\ fs' \in Removed(source) \/ fs' = Without(fs, At(fs, source))
      /\ End("failed") \/ task' = NextSource
  BY <1>3 DEF DeletePath
<1>5. Typed(fs') /\ SameBut(fs, fs', Below(source))
  BY <1>2, <1>4, RemovedIs
<1>6. task' \in TaskType /\ RequestFits' /\ task'.op = task.op /\ task'.stage \in {"failed", "next"}
  <2>1. CASE End("failed")
    BY <1>1, <1>2, <2>1, EndFits DEF TypeOK, TaskType, End
  <2>2. CASE task' = NextSource
    BY <1>1, <1>2, <2>2, NextSourceIs
  <2> QED BY <1>4, <2>1, <2>2
<1>7. kept' = kept \ DataAt(fs, source)
  BY <1>1, <1>3 DEF Give
<1>8. Grows /\ bin' \subseteq Data /\ taken' \subseteq Paths
  BY <1>1, <1>2, <1>7 DEF Grows, TypeOK
<1>9. /\ kept' \subseteq {fs[q] : q \in DOMAIN fs \ Below(source)} \cup bin
      /\ \A p \in (kept' \ {Other}) \cap Below(source) : \E t \in taken : Within(t, p)
  BY <1>2, <1>7, GivenIsSpare
<1>10. kept' \subseteq {fs'[q] : q \in DOMAIN fs'} \cup bin'
  BY <1>1, <1>5, <1>9 DEF SameBut
<1>11. \A p \in (kept' \ {Other}) \cap Below(source) : \E t \in taken' : Within(t, p)
  BY <1>1, <1>9
<1>12. TypeOK' /\ NothingLost' /\ StaysInPlace' /\ kept' \subseteq Paths \cup {Other}
  BY <1>1, <1>5, <1>6, <1>8, <1>10, <1>11, MovingStep
<1>13. SparesWhatGoes'
  BY <1>1, <1>6, <1>12 DEF SparesWhatGoes
<1> QED BY <1>6, <1>12, <1>13 DEF Transferring

LEMMA RecyclePathStep == ASSUME Transferring, RecyclePath PROVE Transferring'
<1>1. task.op = "recycle" /\ task.stage = "next" /\ task.sources # <<>> /\ UNCHANGED writes
  BY DEF RecyclePath, On
<1>2. /\ TypeOK /\ RequestFits /\ NothingLost /\ StaysInPlace /\ kept \subseteq Paths \cup {Other}
      /\ \A q \in DOMAIN fs : fs[q] \in {Directory, q, Other}
  BY <1>1 DEF Transferring, SparesWhatGoes
<1>3. PICK source \in Paths \ {Root} : source = Source
  BY <1>1, <1>2, SourceIs
<1>4. \A q \in DOMAIN fs : q \in Paths
  BY <1>2 DEF TypeOK
<1>5. ASSUME fs' = Without(fs, At(fs, source)), bin' = bin \cup DataAt(fs, source),
             task' = NextSource, taken' = taken \cup {source}, UNCHANGED kept
      PROVE  Transferring'
  <2>1. /\ Typed(fs') /\ SameBut(fs, fs', Below(source))
        /\ DOMAIN fs' \subseteq DOMAIN fs /\ \A q \in DOMAIN fs' : fs'[q] = fs[q]
    BY <1>2, <1>5, RemovedIs
  <2>2. task' \in TaskType /\ RequestFits' /\ task'.op = task.op /\ task'.stage = "next"
    BY <1>1, <1>2, <1>5, NextSourceIs
  <2>3. kept' \subseteq {fs'[q] : q \in DOMAIN fs'} \cup bin'
    <3>1. ASSUME NEW q \in DOMAIN fs, fs[q] # Directory
          PROVE  fs[q] \in {fs'[w] : w \in DOMAIN fs'} \cup bin'
      <4>1. CASE Within(source, q)
        BY <1>5, <3>1, <4>1 DEF DataAt, At
      <4>2. CASE ~Within(source, q)
        BY <2>1, <4>2 DEF SameBut, Below
      <4> QED BY <4>1, <4>2
    <3>2. kept \subseteq {fs[q] : q \in DOMAIN fs} \cup bin
      BY <1>2, NothingLostIs
    <3>3. Directory \notin kept
      BY <1>2, NoPathIsOther DEF TypeOK
    <3> QED BY <1>5, <3>1, <3>2, <3>3
  <2>4. \A p \in (kept' \ {Other}) \cap Below(source) : \E t \in taken' : Within(t, p)
    BY <1>5 DEF Below
  <2>5. Grows /\ bin' \subseteq Data /\ taken' \subseteq Paths
    <3>1. DataAt(fs, source) \subseteq Data
      BY <1>2 DEF DataAt, At, TypeOK
    <3> QED BY <1>2, <1>5, <3>1 DEF Grows, TypeOK
  <2>6. TypeOK' /\ NothingLost' /\ StaysInPlace' /\ kept' \subseteq Paths \cup {Other}
    BY <1>1, <2>1, <2>2, <2>3, <2>4, <2>5, MovingStep
  <2>7. \A q \in DOMAIN fs' : fs'[q] \in {Directory, q, Other}
    BY <1>2, <2>1
  <2>8. SparesWhatGoes'
    BY <1>1, <2>2, <2>6, <2>7 DEF SparesWhatGoes
  <2> QED BY <2>2, <2>6, <2>8 DEF Transferring
<1>6. ASSUME End("failed"), UNCHANGED <<fs, bin, kept, taken>> PROVE Transferring'
  BY <1>1, <1>6, EndStep
<1>7. ASSUME fs' \in Removed(source), End("failed"), kept' = kept \ (DataIn(fs) \ DataIn(fs')),
             UNCHANGED bin, UNCHANGED taken
      PROVE  Transferring'
  <2>1. /\ Typed(fs') /\ SameBut(fs, fs', Below(source))
        /\ DOMAIN fs' \subseteq DOMAIN fs /\ \A q \in DOMAIN fs' : fs'[q] = fs[q]
    BY <1>2, <1>7, RemovedIs
  <2>2. task' \in TaskType /\ RequestFits' /\ task'.op = task.op /\ task'.stage = "failed"
    BY <1>1, <1>2, <1>7, EndFits DEF TypeOK, TaskType, End
  <2>3. DataIn(fs) = {fs[q] : q \in DOMAIN fs} \ {Directory}
    BY <1>4, DataInIs
  <2>4. DataIn(fs') = {fs'[q] : q \in DOMAIN fs'} \ {Directory}
    BY <1>4, <2>1, DataInIs
  <2>5. Directory \notin kept
    BY <1>2, NoPathIsOther DEF TypeOK
  <2>6. kept' \subseteq {fs'[q] : q \in DOMAIN fs'} \cup bin'
    <3>1. kept \subseteq {fs[q] : q \in DOMAIN fs} \cup bin
      BY <1>2, NothingLostIs
    <3> QED BY <1>7, <2>3, <2>4, <2>5, <3>1
  <2>7. ASSUME NEW p \in kept' \ {Other}, p \notin DOMAIN fs', \A t \in taken : ~Within(t, p)
        PROVE  FALSE
    <3>1. p \in kept \ {Other}
      BY <1>7, <2>7
    <3>2. p \in DOMAIN fs /\ fs[p] = p
      BY <1>2, <2>7, <3>1 DEF StaysInPlace
    <3>3. p \in DataIn(fs')
      BY <1>7, <2>3, <2>5, <2>7, <3>1, <3>2
    <3>4. PICK w \in DOMAIN fs' : fs'[w] = p
      BY <2>4, <3>3
    <3>5. fs[w] = p /\ w \in DOMAIN fs
      BY <2>1, <3>4
    <3> QED BY <1>2, <2>5, <2>7, <3>1, <3>5
  <2>8. PICK gone : gone = Below(source) \ DOMAIN fs'
    OBVIOUS
  <2>9. SameBut(fs, fs', gone)
    BY <2>1, <2>8 DEF SameBut
  <2>10. \A p \in (kept' \ {Other}) \cap gone : \E t \in taken' : Within(t, p)
    BY <1>7, <2>7, <2>8
  <2>11. Grows /\ bin' \subseteq Data /\ taken' \subseteq Paths
    BY <1>2, <1>7 DEF Grows, TypeOK
  <2>12. TypeOK' /\ NothingLost' /\ StaysInPlace' /\ kept' \subseteq Paths \cup {Other}
    BY <1>1, <2>1, <2>2, <2>6, <2>9, <2>10, <2>11, MovingStep
  <2>13. \A q \in DOMAIN fs' : fs'[q] \in {Directory, q, Other}
    BY <1>2, <2>1
  <2>14. SparesWhatGoes'
    BY <1>1, <2>2, <2>12, <2>13 DEF SparesWhatGoes
  <2> QED BY <2>2, <2>12, <2>14 DEF Transferring
<1> QED BY <1>1, <1>3, <1>5, <1>6, <1>7 DEF RecyclePath, RecycleUndone

LEMMA RenamePathStep == ASSUME Transferring, RenamePath PROVE Transferring'
<1>1. /\ task.op = "rename" /\ task.stage = "next" /\ task.sources # <<>>
      /\ UNCHANGED bin /\ UNCHANGED writes /\ UNCHANGED kept
  BY DEF RenamePath, On
<1>2. /\ TypeOK /\ RequestFits /\ NothingLost /\ StaysInPlace /\ kept \subseteq Paths \cup {Other}
      /\ Typed(fs) /\ Spare({task.as})
  BY <1>1, TypeIs DEF Transferring, SparesWhatGoes
<1>3. PICK source \in Paths \ {Root} : source = Source
  BY <1>1, <1>2, SourceIs
<1>4. PICK as \in Paths \ {Root} :
        as = task.as /\ Len(as) = Len(source) /\ Front(as) = Front(source) /\ as # source
  BY <1>1, <1>2, <1>3 DEF RequestFits, TypeOK, TaskType
<1>5. ASSUME source \in DOMAIN fs, Replaceable(source, as),
             fs' = Renamed(Without(fs, {as}), source, as), task' = NextSource,
             taken' = taken \cup {source}
      PROVE  Transferring'
  <2>1. PICK base : base = Without(fs, {as})
    OBVIOUS
  <2>2. /\ Typed(base) /\ DOMAIN base = DOMAIN fs \ {as} /\ \A q \in DOMAIN base : base[q] = fs[q]
    <3>1. DOMAIN base = DOMAIN fs \ {as} /\ \A q \in DOMAIN base : base[q] = fs[q]
      BY <2>1 DEF Without
    <3>2. CASE as \in DOMAIN fs
      <4>1. At(fs, as) = {as}
        BY <1>5, <3>2 DEF Replaceable
      <4>2. base = Without(fs, At(fs, as) \ {})
        BY <2>1, <4>1, EmptyPart
      <4>3. PICK part \in Parts(fs, as) : base = Without(fs, At(fs, as) \ part)
        BY <4>2, EmptyPart
      <4>4. Typed(base)
        BY <1>2, <4>3, WithoutIs
      <4> QED BY <3>1, <4>4
    <3>3. CASE as \notin DOMAIN fs
      <4>1. DOMAIN base = DOMAIN fs /\ \A q \in DOMAIN fs : base[q] = fs[q]
        BY <3>1, <3>3
      <4>2. Root \in DOMAIN base /\ DOMAIN base \subseteq Paths
            /\ \A p \in DOMAIN base : base[p] \in Data \cup {Directory}
        BY <1>2, <4>1 DEF Typed, IsTree
      <4>3. \A p \in DOMAIN base : \A a \in Words :
              Within(a, p) /\ a # p => a \in DOMAIN base /\ base[a] = Directory
        BY <1>2, <4>1, AboveIsDirectory
      <4>4. Typed(base)
        BY <4>2, <4>3, TypedIf
      <4> QED BY <3>1, <4>4
    <3> QED BY <3>2, <3>3
  <2>3. as \notin DOMAIN base /\ fs' = Renamed(base, source, as)
    BY <1>5, <2>1, <2>2
  <2>4. /\ Typed(fs')
        /\ \A q \in DOMAIN base : ~Within(source, q) => q \in DOMAIN fs' /\ fs'[q] = base[q]
        /\ \A q \in DOMAIN base : Within(source, q) =>
             Rebased(q, source, as) \in DOMAIN fs' /\ fs'[Rebased(q, source, as)] = base[q]
    BY <1>4, <2>2, <2>3, RenamedIs
  <2>5. task' \in TaskType /\ RequestFits' /\ task'.op = "rename" /\ task'.stage = "next"
        /\ task'.sources = <<>>
    BY <1>1, <1>2, <1>5, NextSourceIs
  <2>6. PICK gone : gone = Below(source) \cup {as}
    OBVIOUS
  <2>7. SameBut(fs, fs', gone)
    BY <1>2, <2>2, <2>4, <2>6 DEF SameBut, Below, Typed
  <2>8. Clear({as}) /\ kept \subseteq {fs[q] : q \in DOMAIN fs \ {as}} \cup bin
    BY <1>2, <1>4 DEF Spare
  <2>9. kept' \subseteq {fs'[q] : q \in DOMAIN fs'} \cup bin'
    <3>1. \A q \in DOMAIN base : base[q] \in {fs'[w] : w \in DOMAIN fs'}
      BY <2>4
    <3>2. \A q \in DOMAIN fs \ {as} : fs[q] \in {fs'[w] : w \in DOMAIN fs'}
      BY <2>2, <3>1
    <3> QED BY <1>1, <2>8, <3>2
  <2>10. \A p \in (kept' \ {Other}) \cap gone : \E t \in taken' : Within(t, p)
    BY <1>1, <1>5, <2>6, <2>8 DEF Clear, Below
  <2>11. Grows /\ bin' \subseteq Data /\ taken' \subseteq Paths
    BY <1>1, <1>2, <1>5 DEF Grows, TypeOK
  <2>12. TypeOK' /\ NothingLost' /\ StaysInPlace' /\ kept' \subseteq Paths \cup {Other}
    BY <1>1, <2>4, <2>5, <2>7, <2>9, <2>10, <2>11, MovingStep
  <2>13. SparesWhatGoes'
    BY <2>5, <2>12 DEF SparesWhatGoes
  <2> QED BY <2>5, <2>12, <2>13 DEF Transferring
<1>6. ASSUME End("failed"), UNCHANGED <<fs, taken>> PROVE Transferring'
  BY <1>1, <1>6, EndStep
<1> QED BY <1>3, <1>4, <1>5, <1>6 DEF RenamePath

\* What is above a path inside of a directory.
LEMMA InsideIs ==
  ASSUME NEW source \in Paths, NEW inside, inside = Append(source, torn)
  PROVE  /\ inside \in Words
         /\ \A a : a \in Ancestors(inside) <=> a = source \/ a \in Ancestors(source)
         /\ Ancestors(inside) \subseteq Paths
<1>1. source \in Words
  BY PathIsWord
<1>2. /\ inside \in Words /\ Len(inside) = Len(source) + 1
      /\ \A i \in 1..Len(source) : inside[i] = source[i]
  BY <1>1, AppendProperties DEF Words
<1>0. Len(source) \in Nat /\ Len(source) <= Len(inside) /\ Len(source) # Len(inside)
  BY <1>1, <1>2, LengthOfWord
<1>3. Within(source, inside) /\ source # inside
  BY <1>0, <1>1, <1>2, WithinIs
<1>4. \A a \in Words : (Within(a, inside) /\ a # inside) <=> Within(a, source)
  <2>1. ASSUME NEW a \in Words, Within(a, inside), a # inside PROVE Within(a, source)
    <3>4. Len(a) \in Nat /\ Len(a) <= Len(inside)
      BY <1>2, <2>1, WithinIs, LengthOfWord
    <3>5. Len(a) # Len(inside)
      <4>1. ASSUME Len(a) = Len(inside) PROVE FALSE
        <5>1. Len(inside) <= Len(a)
          BY <3>4, <4>1
        <5>2. a = inside
          BY <1>2, <2>1, <5>1, WithinEachOther, Zenon
        <5> QED BY <2>1, <5>2
      <4> QED BY <4>1
    <3>1. Len(a) <= Len(source)
      BY <1>0, <1>2, <3>4, <3>5
    <3>2. Within(a, source) \/ Within(source, a)
      BY <1>1, <1>2, <1>3, <2>1, WithinBoth
    <3> QED BY <1>1, <2>1, <3>1, <3>2, WithinEachOther, WithinItself
  <2>2. ASSUME NEW a \in Words, Within(a, source) PROVE Within(a, inside) /\ a # inside
    BY <1>1, <1>2, <1>3, <2>2, WithinWithin, WithinIs, LengthOfWord
  <2> QED BY <2>1, <2>2
<1>5. \A a : a \in Ancestors(inside) <=> a = source \/ a \in Ancestors(source)
  BY <1>1, <1>2, <1>4, AncestorsAre, WithinItself
<1>6. Ancestors(inside) \subseteq Paths
  BY <1>1, <1>5, AncestorsAre, AncestorsArePaths
<1> QED BY <1>2, <1>5, <1>6

LEMMA CreateDirectoryStep == ASSUME Transferring, CreateDirectory PROVE Transferring'
<1>1. /\ task.op = "create" /\ task.stage = "next" /\ task.sources # <<>> /\ task' = NextSource
      /\ UNCHANGED bin /\ UNCHANGED writes /\ UNCHANGED kept /\ UNCHANGED taken
  BY DEF CreateDirectory, On
<1>2. /\ TypeOK /\ RequestFits /\ NothingLost /\ kept \subseteq Paths \cup {Other} /\ Typed(fs)
  BY TypeIs DEF Transferring, SparesWhatGoes
<1>3. PICK source \in Paths \ {Root} : source = Source
  BY <1>1, <1>2, SourceIs
<1>4. PICK inside : inside = Append(source, torn)
  OBVIOUS
<1>5. inside \in Words /\ \A a : a \in Ancestors(inside) <=> a = source \/ a \in Ancestors(source)
  BY <1>4, InsideIs
<1>6. source \notin DOMAIN fs /\ CanHold(fs, source) /\ fs' = WithParents(fs, inside)
  BY <1>3, <1>4 DEF CreateDirectory
<1>7. CanHold(fs, inside)
  BY <1>5, <1>6 DEF CanHold
<1>8. Ancestors(inside) \subseteq Paths
  BY <1>5, PathIsWord, AncestorsAre, AncestorsArePaths
<1>9. Typed(fs') /\ \A q \in DOMAIN fs : q \in DOMAIN fs' /\ fs'[q] = fs[q]
  <2>1. inside \in Words
    BY <1>5
  <2>2. PICK result : result = fs'
    OBVIOUS
  <2>3. Typed(fs) /\ result = WithParents(fs, inside)
    BY <1>2, <1>6, <2>2
  <2>4. /\ Typed(result) /\ DOMAIN result = DOMAIN fs \cup Ancestors(inside)
        /\ \A q \in DOMAIN fs : result[q] = fs[q]
    <3>1. Typed(result)
      BY <1>7, <1>8, <2>1, <2>3, WithParentsIs, Zenon
    <3>2. DOMAIN result = DOMAIN fs \cup Ancestors(inside)
      BY <2>3 DEF WithParents
    <3>3. \A q \in DOMAIN fs : result[q] = fs[q]
      BY <2>3 DEF WithParents
    <3> QED BY <3>1, <3>2, <3>3
  <2> QED BY <2>2, <2>4
<1>10. task' \in TaskType /\ RequestFits' /\ task'.op = "create" /\ task'.stage = "next"
  BY <1>1, <1>2, NextSourceIs
<1>11. TypeOK' /\ NothingLost' /\ StaysInPlace' /\ kept' \subseteq Paths \cup {Other}
  <2>1. Spare({}) /\ SameBut(fs, fs', {})
    BY <1>2, <1>9, NothingIsSpare DEF SameBut
  <2>2. Grows /\ bin' \subseteq Data /\ taken' \subseteq Paths
    BY <1>1, <1>2 DEF Grows, TypeOK
  <2> QED BY <1>1, <1>9, <1>10, <2>1, <2>2, SpareStep
<1>12. SparesWhatGoes'
  BY <1>10, <1>11 DEF SparesWhatGoes
<1> QED BY <1>10, <1>11, <1>12 DEF Transferring

LEMMA CreateChecksStep == ASSUME Transferring, CreateChecks PROVE Transferring'
<1>1. /\ task.op = "create" /\ task.stage = "next" /\ task.sources # <<>>
      /\ UNCHANGED bin /\ UNCHANGED writes /\ UNCHANGED kept /\ UNCHANGED taken
  BY DEF CreateChecks, On
<1>2. /\ TypeOK /\ RequestFits /\ NothingLost /\ StaysInPlace /\ kept \subseteq Paths \cup {Other}
      /\ Typed(fs)
  BY TypeIs DEF Transferring, SparesWhatGoes
<1>3. PICK source \in Paths \ {Root} : source = Source
  BY <1>1, <1>2, SourceIs
<1>4. ASSUME source \notin DOMAIN fs, CanHold(fs, source), fs' = WithParents(fs, source), End("open")
      PROVE  Transferring'
  <2>1. source \in Words /\ Ancestors(source) \subseteq Paths
    BY PathIsWord, AncestorsAre, AncestorsArePaths
  <2>2. /\ Typed(fs') /\ DOMAIN fs' = DOMAIN fs \cup Ancestors(source)
        /\ \A q \in DOMAIN fs : fs'[q] = fs[q]
        /\ \A a \in Ancestors(source) : fs'[a] = Directory
    BY <1>2, <1>4, <2>1, WithParentsIs
  <2>3. task' \in TaskType /\ RequestFits'
    BY <1>1, <1>2, <1>4, OpenFits
  <2>4. task'.op = "create" /\ task'.stage = "open" /\ task'.sources = task.sources
    BY <1>1, <1>2, <1>4 DEF TypeOK, TaskType, End
  <2>5. Spare({}) /\ SameBut(fs, fs', {})
    BY <1>2, <2>2, NothingIsSpare DEF SameBut
  <2>6. Grows /\ bin' \subseteq Data /\ taken' \subseteq Paths
    BY <1>1, <1>2 DEF Grows, TypeOK
  <2>7. TypeOK' /\ NothingLost' /\ StaysInPlace' /\ kept' \subseteq Paths \cup {Other}
    BY <1>1, <2>2, <2>3, <2>5, <2>6, SpareStep
  <2>8. Source' = source
    BY <1>3, <2>4 DEF Source
  <2>9. source \notin DOMAIN fs'
    BY <1>4, <2>1, <2>2, AncestorsAre
  <2>10. Spare({source})'
    <3>1. Clear({source})
      BY <1>2, <1>4 DEF Clear, StaysInPlace
    <3>2. kept \subseteq {fs[q] : q \in DOMAIN fs \ {source}} \cup bin
      BY <1>2, <1>4, NothingLostIs
    <3>3. Spare({source})
      BY <3>1, <3>2 DEF Spare
    <3>4. SameBut(fs, fs', {source})
      BY <2>2 DEF SameBut
    <3> QED BY <2>6, <3>3, <3>4, StaysSpare
  <2>11. Spare({Source})' /\ (\A a \in Ancestors(Source) : IsDirectory(fs, a))'
    BY <2>2, <2>8, <2>10 DEF IsDirectory
  <2>12. SparesWhatGoes'
    BY <2>4, <2>7, <2>11 DEF SparesWhatGoes
  <2> QED BY <2>3, <2>7, <2>12 DEF Transferring
<1>5. ASSUME End("failed"), UNCHANGED fs PROVE Transferring'
  BY <1>1, <1>5, EndStep
<1> QED BY <1>3, <1>4, <1>5 DEF CreateChecks

LEMMA CreateFileStep == ASSUME Transferring, CreateFile PROVE Transferring'
<1>1. /\ task.op = "create" /\ task.stage = "open" /\ task.sources # <<>>
      /\ UNCHANGED bin /\ UNCHANGED writes /\ UNCHANGED kept /\ UNCHANGED taken
  BY DEF CreateFile, On
<1>2. /\ TypeOK /\ RequestFits /\ Typed(fs)
      /\ Spare({Source}) /\ \A a \in Ancestors(Source) : IsDirectory(fs, a)
  BY <1>1, TypeIs DEF Transferring, SparesWhatGoes
<1>3. PICK source \in Paths \ {Root} : source = Source
  BY <1>1, <1>2, SourceIs
<1>4. ASSUME ~IsDirectory(fs, source), fs' = WithFile(fs, source, Torn), task' = NextSource
      PROVE  Transferring'
  <2>1. Torn \in Data
    BY DEF Data
  <2>2. Typed(fs') /\ \A q \in DOMAIN fs \ {source} : q \in DOMAIN fs' /\ fs'[q] = fs[q]
    <3>1. \A a \in Ancestors(source) : IsDirectory(fs, a)
      BY <1>2, <1>3
    <3>2. /\ Typed(fs') /\ DOMAIN fs' = DOMAIN fs \cup {source}
          /\ \A q \in DOMAIN fs \ {source} : fs'[q] = fs[q]
      BY <1>2, <1>4, <2>1, <3>1, WithFileIs
    <3> QED BY <3>2
  <2>3. task' \in TaskType /\ RequestFits' /\ task'.op = "create" /\ task'.stage = "next"
    BY <1>1, <1>2, <1>4, NextSourceIs
  <2>4. SameBut(fs, fs', {source}) /\ Spare({source})
    BY <1>2, <1>3, <2>2 DEF SameBut
  <2>5. Grows /\ bin' \subseteq Data /\ taken' \subseteq Paths
    BY <1>1, <1>2 DEF Grows, TypeOK
  <2>6. TypeOK' /\ NothingLost' /\ StaysInPlace' /\ kept' \subseteq Paths \cup {Other}
    BY <1>1, <2>2, <2>3, <2>4, <2>5, SpareStep
  <2>7. SparesWhatGoes'
    BY <2>3, <2>6 DEF SparesWhatGoes
  <2> QED BY <2>3, <2>6, <2>7 DEF Transferring
<1>5. ASSUME End("failed"), UNCHANGED fs PROVE Transferring'
  BY <1>1, <1>5, EndStep
<1> QED BY <1>3, <1>4, <1>5 DEF CreateFile

\* What another program writes is kept, unless it is where something is about to
\* be removed.
LEMMA OtherWritesStep == ASSUME Transferring, OtherWrites PROVE Transferring'
<1>1. /\ TypeOK /\ RequestFits /\ NothingLost /\ StaysInPlace /\ SparesWhatGoes /\ Typed(fs)
      /\ kept \subseteq Paths \cup {Other}
  BY TypeIs DEF Transferring, SparesWhatGoes
<1>2. writes < MaxWrites /\ writes' = writes + 1 /\ UNCHANGED bin /\ UNCHANGED task /\ UNCHANGED taken
  BY DEF OtherWrites
<1>3. PICK p \in Paths \ (DOMAIN fs \cup {Root}) :
        /\ IsDirectory(fs, Front(p)) /\ fs' = WithFile(fs, p, Other)
        /\ kept' = IF Doomed(p) THEN kept ELSE kept \cup {Other}
  BY DEF OtherWrites
<1>4. p \in Words
  BY PathIsWord
<1>5. \A a \in Ancestors(p) : IsDirectory(fs, a)
  <2>1. ASSUME NEW a \in Ancestors(p) PROVE IsDirectory(fs, a)
    <3>1. a \in Words /\ Within(a, Front(p)) /\ Front(p) \in DOMAIN fs
      BY <1>3, <1>4, <2>1, AncestorsAre, FrontIs DEF IsDirectory
    <3> QED BY <1>1, <1>3, <3>1, AboveIsDirectory DEF IsDirectory
  <2> QED BY <2>1
<1>6. /\ Typed(fs') /\ DOMAIN fs' = DOMAIN fs \cup {p} /\ fs'[p] = Other
      /\ \A q \in DOMAIN fs : fs'[q] = fs[q]
  <2>1. Other \in Data /\ ~IsDirectory(fs, p)
    BY <1>3 DEF Data, IsDirectory
  <2> QED BY <1>1, <1>3, <1>5, <2>1, WithFileIs
<1>7. kept' \subseteq Paths \cup {Other} /\ kept' \subseteq Data /\ kept \subseteq kept'
      /\ kept' \ {Other} = kept \ {Other}
  BY <1>1, <1>3 DEF TypeOK, Data
<1>8. TypeOK'
  <2>1. writes' \in 0..MaxWrites
    BY <1>1, <1>2, FileTransferAssumption DEF TypeOK
  <2>2. bin' \subseteq Data /\ task' \in TaskType /\ taken' \subseteq Paths
    BY <1>1, <1>2 DEF TypeOK
  <2> QED BY <1>6, <1>7, <2>1, <2>2 DEF TypeOK, Typed
<1>9. RequestFits'
  BY <1>1, <1>2 DEF RequestFits, DestinationOf, Source
<1>10. NothingLost'
  <2>1. kept \subseteq {fs[q] : q \in DOMAIN fs} \cup bin
    BY <1>1, NothingLostIs
  <2>2. kept' \subseteq {fs'[q] : q \in DOMAIN fs'} \cup bin'
    BY <1>2, <1>3, <1>6, <2>1
  <2>3. DataIn(fs') = {fs'[q] : q \in DOMAIN fs'} \ {Directory}
    BY <1>8, DataInIs DEF TypeOK
  <2>4. Directory \notin kept'
    BY <1>7, NoPathIsOther
  <2> QED BY <2>2, <2>3, <2>4 DEF NothingLost
<1>11. StaysInPlace'
  <2>1. ASSUME NEW q \in kept \ {Other}, \A t \in taken : ~Within(t, q) PROVE q \in DOMAIN fs' /\ fs'[q] = q
    BY <1>1, <1>6, <2>1 DEF StaysInPlace
  <2> QED BY <1>2, <1>7, <2>1 DEF StaysInPlace
<1>12. ASSUME NEW gone, Clear(gone) PROVE Clear(gone)'
  BY <1>2, <1>7, <1>12 DEF Clear
<1>13. ASSUME NEW gone, Spare(gone), p \in gone => Doomed(p) PROVE Spare(gone)'
  <2>1. Clear(gone)'
    BY <1>12, <1>13 DEF Spare
  <2>2. kept \subseteq {fs'[q] : q \in DOMAIN fs' \ gone} \cup bin'
    BY <1>2, <1>6, <1>13 DEF Spare
  <2>3. ~Doomed(p) => Other \in {fs'[q] : q \in DOMAIN fs' \ gone}
    BY <1>6, <1>13
  <2>4. kept' \subseteq {fs'[q] : q \in DOMAIN fs' \ gone} \cup bin'
    BY <1>3, <2>2, <2>3
  <2> QED BY <2>1, <2>4 DEF Spare
<1>14. task.op \in {"none", "recycle"} => \A q \in DOMAIN fs' : fs'[q] \in {Directory, q, Other}
  BY <1>1, <1>6 DEF SparesWhatGoes
<1>15. task.stage = "replace" => Spare(Below(task.dst))'
  <2>1. PICK dst : dst = task.dst /\ dst = task'.dst
    BY <1>2
  <2>2. ASSUME task.stage = "replace" PROVE Spare(Below(dst))'
    <3>1. PICK gone : gone = Below(dst)
      OBVIOUS
    <3>2. Spare(gone) /\ (p \in gone => Doomed(p))
      BY <1>1, <2>1, <2>2, <3>1 DEF SparesWhatGoes, Doomed, Below
    <3>3. Spare(gone)'
      BY <1>13, <3>2
    <3> QED BY <3>1, <3>3 DEF Below
  <2> QED BY <2>1, <2>2
<1>16. PICK source : source = Source /\ source = Source'
  BY <1>2 DEF Source
<1>17. task.stage = "unmove" /\ task.sources # <<>> => Spare(Below(Source))'
  <2>1. ASSUME task.stage = "unmove", task.sources # <<>> PROVE Spare(Below(source))'
    <3>1. PICK gone : gone = Below(source)
      OBVIOUS
    <3>2. Spare(gone) /\ (p \in gone => Doomed(p))
      BY <1>1, <1>16, <2>1, <3>1 DEF SparesWhatGoes, RequestFits, Doomed, Below
    <3>3. Spare(gone)'
      BY <1>13, <3>2
    <3> QED BY <3>1, <3>3 DEF Below
  <2> QED BY <1>16, <2>1
<1>18. task.stage = "copy" /\ task.backup # NoPath => Clear(Below(task.backup))'
  <2>1. PICK backup : backup = task.backup /\ backup = task'.backup
    BY <1>2
  <2>2. PICK gone : gone = Below(backup)
    OBVIOUS
  <2>3. ASSUME task.stage = "copy", task.backup # NoPath PROVE Clear(gone)'
    <3>1. Clear(gone)
      BY <1>1, <2>1, <2>2, <2>3 DEF SparesWhatGoes
    <3> QED BY <1>12, <3>1
  <2> QED BY <2>1, <2>2, <2>3 DEF Below
<1>19. task.op = "rename" /\ task.sources # <<>> => Spare({task.as})'
  <2>1. PICK as : as = task.as /\ as = task'.as
    BY <1>2
  <2>2. ASSUME task.op = "rename", task.sources # <<>> PROVE Spare({as})'
    <3>1. Spare({as}) /\ (p \in {as} => Doomed(p))
      BY <1>1, <2>1, <2>2 DEF SparesWhatGoes, Doomed
    <3> QED BY <1>13, <3>1
  <2> QED BY <2>1, <2>2
<1>20. task.stage = "open" /\ task.sources # <<>> =>
         Spare({Source})' /\ (\A a \in Ancestors(Source) : IsDirectory(fs, a))'
  <2>1. ASSUME task.stage = "open", task.sources # <<>>
        PROVE  Spare({source})' /\ \A a \in Ancestors(source) : IsDirectory(fs', a)
    <3>1. Spare({source}) /\ (p \in {source} => Doomed(p)) /\ \A a \in Ancestors(source) : IsDirectory(fs, a)
      BY <1>1, <1>16, <2>1 DEF SparesWhatGoes, Doomed
    <3>2. Spare({source})'
      BY <1>13, <3>1
    <3>3. \A a \in Ancestors(source) : IsDirectory(fs', a)
      BY <1>6, <3>1 DEF IsDirectory
    <3> QED BY <3>2, <3>3
  <2> QED BY <1>16, <2>1
<1>21. SparesWhatGoes'
  BY <1>2, <1>7, <1>14, <1>15, <1>17, <1>18, <1>19, <1>20 DEF SparesWhatGoes
<1> QED BY <1>8, <1>9, <1>10, <1>11, <1>21 DEF Transferring

-----------------------------------------------------------------------------
(* Requests.                                                               *)

\* A request with its sources is one of the type.
LEMMA RequestedIs ==
  ASSUME NEW op \in {"copy", "move", "delete", "recycle", "rename", "create"},
         NEW sources \in BoundedSeq(Paths, MaxSources), NEW into \in Paths, NEW as \in Paths,
         NEW mode \in Modes
  PROVE  /\ Requested(op, sources, into, as, mode) \in TaskType
         /\ Requested(op, sources, into, as, mode).op = op
         /\ Requested(op, sources, into, as, mode).stage = "next"
         /\ Requested(op, sources, into, as, mode).sources = sources
         /\ Requested(op, sources, into, as, mode).into = into
         /\ Requested(op, sources, into, as, mode).as = as
         /\ Requested(op, sources, into, as, mode).backup = NoPath
BY RootIsPath DEF Requested, NoTask, TaskType, NoPath, Modes

LEMMA SelectionsAre ==
  ASSUME TypeOK, NEW sources \in Selections
  PROVE  /\ sources \in BoundedSeq(Paths, MaxSources)
         /\ \A i \in DOMAIN sources : sources[i] \in DOMAIN fs \ {Root}
<1>1. PICK n \in 0..MaxSources : sources \in [1..n -> DOMAIN fs \ {Root}]
  BY DEF Selections, BoundedSeq, SeqOf
<1>2. \A i \in DOMAIN sources : sources[i] \in DOMAIN fs \ {Root}
  BY <1>1
<1>3. sources \in [1..n -> Paths]
  BY <1>1 DEF TypeOK
<1> QED BY <1>1, <1>2, <1>3 DEF BoundedSeq, SeqOf

LEMMA OneSource ==
  ASSUME NEW p \in Paths
  PROVE  <<p>> \in BoundedSeq(Paths, MaxSources) /\ Len(<<p>>) = 1 /\ DOMAIN <<p>> = 1..1
         /\ <<p>>[1] = p /\ Head(<<p>>) = p
<1>1. <<p>> \in [1..1 -> Paths] /\ 1 \in 0..MaxSources
  BY FileTransferAssumption
<1> QED BY <1>1 DEF BoundedSeq, SeqOf

LEMMA TransferStep == ASSUME Transferring, Transfer PROVE Transferring'
<1>1. /\ TypeOK /\ RequestFits /\ NothingLost /\ kept \subseteq Paths \cup {Other} /\ Typed(fs)
  BY TypeIs DEF Transferring, SparesWhatGoes
<1>2. PICK op \in {"copy", "move"}, sources \in Selections, mode \in Modes, into \in Paths, as \in Paths :
        /\ into = Root \/ as = NoPath
        /\ task' = Requested(op, sources, into, as, mode)
        /\ Fits(fs, task')
        /\ ByDialog(task') \/ ByDrop(task') \/ ByCaller(task')
        /\ fs' = IF mode # "ask" THEN fs
                 ELSE WithParents(fs, IF as = NoPath THEN Append(into, torn) ELSE as)
  BY DEF Transfer
<1>3. UNCHANGED bin /\ UNCHANGED writes /\ UNCHANGED kept /\ UNCHANGED taken
  BY DEF Transfer
<1>4. sources \in BoundedSeq(Paths, MaxSources) /\ \A i \in DOMAIN sources : sources[i] \in DOMAIN fs \ {Root}
  BY <1>1, SelectionsAre
<1>5. /\ task' \in TaskType /\ task'.op = op /\ task'.stage = "next" /\ task'.sources = sources
      /\ task'.into = into /\ task'.as = as /\ task'.backup = NoPath
  <2>1. op \in {"copy", "move", "delete", "recycle", "rename", "create"}
    BY <1>2
  <2>2. mode \in Modes /\ into \in Paths /\ as \in Paths
    BY <1>2
  <2>3. PICK request : request = Requested(op, sources, into, as, mode)
    OBVIOUS
  <2>4. request \in TaskType
    BY <1>4, <2>1, <2>2, <2>3, RequestedIs
  <2>5. /\ request.op = op /\ request.stage = "next" /\ request.sources = sources
        /\ request.into = into /\ request.as = as /\ request.backup = NoPath
    BY <2>3 DEF Requested, NoTask
  <2> QED BY <1>2, <2>3, <2>4, <2>5, Zenon
<1>6. task'.mode = mode
  BY <1>2 DEF Requested, NoTask
<1>7. ASSUME NEW i \in DOMAIN sources
      PROVE  DestinationOf(task', sources[i]) \in Paths \ {Root}
  <2>1. PICK s : s = sources[i] /\ s \in DOMAIN fs \ {Root} /\ s \in Paths /\ s \in Words
    BY <1>1, <1>4, PathIsWord DEF Typed
  <2>2. PICK dst : dst = DestinationOf(task', s)
    OBVIOUS
  <2>3. dst = IF as # NoPath THEN as ELSE Append(into, Last(s))
    BY <1>5, <2>2 DEF DestinationOf
  <2>4. dst \in Words /\ dst # Root
    <3>1. CASE as # NoPath
      BY <2>3, <3>1, PathIsWord DEF NoPath
    <3>2. CASE as = NoPath
      <4>1. s \in Seq(Names) /\ Len(s) \in 1..Len(s)
        BY <2>1, PathsAreWords, FrontIs
      <4>2. Last(s) \in Names
        BY <4>1, ElementOfSeq DEF Last
      <4>3. into \in Words
        BY PathIsWord
      <4> QED BY <2>3, <3>2, <4>2, <4>3, AppendProperties DEF Words, Root
    <3> QED BY <3>1, <3>2
  <2>5. s \in At(fs, s)
    BY <2>1, WithinItself DEF At
  <2>6. Rebased(s, s, dst) \in Paths
    BY <1>2, <1>5, <2>1, <2>2, <2>5 DEF Fits
  <2>7. Rebased(s, s, dst) = dst
    BY <2>1, <2>4, RebasedSelf
  <2> QED BY <2>1, <2>2, <2>4, <2>6, <2>7
<1>8. RequestFits'
  BY <1>4, <1>5, <1>7 DEF RequestFits
<1>9. Typed(fs') /\ SameBut(fs, fs', {})
  <2>1. CASE mode # "ask"
    BY <1>1, <1>2, <2>1 DEF SameBut
  <2>2. CASE mode = "ask"
    <3>1. ByDialog(task')
      BY <1>2, <1>6, <2>2 DEF ByDrop, ByCaller
    <3>2. PICK u : u = IF as = NoPath THEN Append(into, torn) ELSE as
      OBVIOUS
    <3>3. CanHold(fs, u)
      BY <1>5, <3>1, <3>2 DEF ByDialog
    <3>4. u \in Words
      BY <3>2, InsideIs, PathIsWord
    <3>5. Ancestors(u) \subseteq Paths
      <4>1. CASE as = NoPath
        BY <3>2, <4>1, InsideIs
      <4>2. CASE as # NoPath
        BY <3>2, <3>4, <4>2, AncestorsAre, AncestorsArePaths
      <4> QED BY <4>1, <4>2
    <3>6. PICK result : result = fs' /\ result = WithParents(fs, u)
      BY <1>2, <2>2, <3>2
    <3>7. Typed(result)
      BY <1>1, <3>3, <3>4, <3>5, <3>6, WithParentsIs
    <3>8. \A q \in DOMAIN fs : q \in DOMAIN result /\ result[q] = fs[q]
      BY <3>6 DEF WithParents
    <3> QED BY <3>6, <3>7, <3>8 DEF SameBut
  <2> QED BY <2>1, <2>2
<1>10. TypeOK' /\ NothingLost' /\ StaysInPlace' /\ kept' \subseteq Paths \cup {Other}
  <2>1. Spare({})
    BY <1>1, NothingIsSpare
  <2>2. Grows /\ bin' \subseteq Data /\ taken' \subseteq Paths
    BY <1>1, <1>3 DEF Grows, TypeOK
  <2> QED BY <1>3, <1>5, <1>9, <2>1, <2>2, SpareStep
<1>11. SparesWhatGoes'
  BY <1>5, <1>10 DEF SparesWhatGoes
<1> QED BY <1>8, <1>10, <1>11 DEF Transferring

LEMMA DeleteStep == ASSUME Transferring, Delete PROVE Transferring'
<1>1. /\ TypeOK /\ SparesWhatGoes /\ task = NoTask /\ UNCHANGED <<fs, bin, writes, kept, taken>>
  BY DEF Transferring, Delete
<1>2. PICK op \in {"delete", "recycle"}, sources \in Selections :
        task' = Requested(op, sources, Root, NoPath, "ask")
  BY DEF Delete
<1>3. sources \in BoundedSeq(Paths, MaxSources) /\ \A i \in DOMAIN sources : sources[i] \in DOMAIN fs \ {Root}
  BY <1>1, SelectionsAre
<1>4. /\ task' \in TaskType /\ task'.op = op /\ task'.stage = "next" /\ task'.sources = sources
      /\ task'.backup = NoPath
  BY <1>2, <1>3, RequestedIs, RootIsPath DEF NoPath, Modes
<1>5. RequestFits'
  BY <1>3, <1>4 DEF RequestFits, Transfers
<1>6. TypeOK' /\ NothingLost' /\ StaysInPlace' /\ kept' \subseteq Paths \cup {Other}
  BY <1>1, <1>4, RequestStep
<1>7. \A q \in DOMAIN fs' : fs'[q] \in {Directory, q, Other}
  BY <1>1 DEF SparesWhatGoes, NoTask
<1>8. SparesWhatGoes'
  BY <1>4, <1>6, <1>7 DEF SparesWhatGoes
<1> QED BY <1>5, <1>6, <1>8 DEF Transferring

LEMMA CreateStep == ASSUME Transferring, Create PROVE Transferring'
<1>1. /\ TypeOK /\ SparesWhatGoes /\ task = NoTask /\ UNCHANGED <<fs, bin, writes, kept, taken>>
  BY DEF Transferring, Create
<1>2. PICK p \in Paths \ {Root} : task' = Requested("create", <<p>>, Root, NoPath, "ask")
  BY DEF Create
<1>3. PICK sources : sources = <<p>>
  OBVIOUS
<1>4. sources \in BoundedSeq(Paths, MaxSources) /\ \A i \in DOMAIN sources : sources[i] = p
  BY <1>3, OneSource
<1>5. /\ task' \in TaskType /\ task'.op = "create" /\ task'.stage = "next" /\ task'.sources = sources
      /\ task'.backup = NoPath
  BY <1>2, <1>3, <1>4, RequestedIs, RootIsPath DEF NoPath, Modes
<1>6. RequestFits'
  BY <1>4, <1>5 DEF RequestFits, Transfers
<1>7. TypeOK' /\ NothingLost' /\ StaysInPlace' /\ kept' \subseteq Paths \cup {Other}
  BY <1>1, <1>5, RequestStep
<1>8. SparesWhatGoes'
  BY <1>5, <1>7 DEF SparesWhatGoes
<1> QED BY <1>6, <1>7, <1>8 DEF Transferring

LEMMA RenameStep == ASSUME Transferring, Rename PROVE Transferring'
<1>1. /\ TypeOK /\ SparesWhatGoes /\ NothingLost /\ StaysInPlace /\ Typed(fs) /\ task = NoTask
      /\ kept \subseteq Paths \cup {Other} /\ UNCHANGED <<fs, bin, writes, kept, taken>>
  BY TypeIs DEF Transferring, SparesWhatGoes, Rename
<1>2. PICK source \in DOMAIN fs \ {Root}, as \in Paths \ DOMAIN fs :
        /\ Front(as) = Front(source) /\ task' = Requested("rename", <<source>>, Root, as, "ask")
  BY DEF Rename
<1>3. source \in Paths /\ source \in Words /\ as \in Words /\ as # Root /\ as # source
  BY <1>1, PathIsWord DEF Typed, IsTree
<1>4. Len(as) = Len(source)
  <2>1. source # Root
    BY <1>2
  <2>2. Len(Front(source)) = Len(source) - 1 /\ Len(source) \in Nat
    BY <1>3, <2>1, FrontIs, LengthOfWord
  <2>3. Len(Front(as)) = Len(as) - 1 /\ Len(as) \in Nat
    BY <1>3, FrontIs, LengthOfWord
  <2>4. Len(Front(as)) = Len(Front(source))
    BY <1>2
  <2>5. PICK n \in Nat : n = Len(as)
    BY <2>3
  <2>6. PICK m \in Nat : m = Len(source)
    BY <2>2
  <2>7. n - 1 = m - 1
    BY <2>2, <2>3, <2>4, <2>5, <2>6, Zenon
  <2>8. \A i, j \in Nat : i - 1 = j - 1 => i = j
    OBVIOUS
  <2> QED BY <2>5, <2>6, <2>7, <2>8, Zenon
<1>5. PICK sources : sources = <<source>>
  OBVIOUS
<1>6. sources \in BoundedSeq(Paths, MaxSources) /\ \A i \in DOMAIN sources : sources[i] = source
      /\ Len(sources) = 1 /\ Head(sources) = source
  BY <1>3, <1>5, OneSource
<1>7. /\ task' \in TaskType /\ task'.op = "rename" /\ task'.stage = "next" /\ task'.sources = sources
      /\ task'.backup = NoPath /\ task'.as = as
  <2>1. task' = Requested("rename", sources, Root, as, "ask")
    BY <1>2, <1>5
  <2>2. "rename" \in {"copy", "move", "delete", "recycle", "rename", "create"} /\ "ask" \in Modes
    BY DEF Modes
  <2>3. as \in Paths
    BY <1>2
  <2>4. PICK request : request = Requested("rename", sources, Root, as, "ask")
    OBVIOUS
  <2>5. request \in TaskType
    BY <1>6, <2>2, <2>3, <2>4, RequestedIs, RootIsPath
  <2>6. /\ request.op = "rename" /\ request.stage = "next" /\ request.sources = sources
        /\ request.as = as /\ request.backup = NoPath
    BY <2>4 DEF Requested, NoTask
  <2> QED BY <2>1, <2>4, <2>5, <2>6, Zenon
<1>8. Source' = source /\ Len(sources) <= 1
  BY <1>5, <1>6, <1>7, OneSource DEF Source
<1>9. RequestFits'
  BY <1>2, <1>3, <1>4, <1>6, <1>7, <1>8 DEF RequestFits, Transfers
<1>10. TypeOK' /\ NothingLost' /\ StaysInPlace' /\ kept' \subseteq Paths \cup {Other}
  BY <1>1, <1>7, RequestStep
<1>11. Spare({as})
  <2>1. Clear({as})
    BY <1>1, <1>2 DEF Clear, StaysInPlace
  <2>2. kept \subseteq {fs[q] : q \in DOMAIN fs \ {as}} \cup bin
    BY <1>1, <1>2, NothingLostIs
  <2> QED BY <2>1, <2>2 DEF Spare
<1>12. Spare({as})'
  BY <1>1, <1>11, SpareAsBefore
<1>13. SparesWhatGoes'
  <2>1. Spare({task.as})'
    BY <1>7, <1>12
  <2> QED BY <1>7, <1>10, <2>1 DEF SparesWhatGoes
<1> QED BY <1>9, <1>10, <1>13 DEF Transferring

-----------------------------------------------------------------------------
LEMMA InitTransfers == Init => Transferring
<1> SUFFICES ASSUME Init PROVE Transferring
  OBVIOUS
<1>1. PICK exist \in SUBSET {p \in Paths : Len(p) < MaxDepth}, directories \in SUBSET Paths :
        fs = [p \in exist |-> IF p \in directories THEN Directory ELSE p]
  BY DEF Init
<1>2. /\ IsTree(fs) /\ bin = {} /\ task = NoTask /\ writes = 0 /\ kept = DataIn(fs) /\ taken = {}
  BY DEF Init
<1>3. DOMAIN fs \subseteq Paths /\ \A p \in DOMAIN fs : fs[p] \in {Directory, p}
  BY <1>1
<1>4. DataIn(fs) = {fs[q] : q \in DOMAIN fs} \ {Directory}
  BY <1>3, DataInIs
<1>5. kept \subseteq Paths /\ \A p \in kept : p \in DOMAIN fs /\ fs[p] = p /\ p # Root
  BY <1>2, <1>3, <1>4 DEF Directory
<1>6. Typed(fs)
  BY <1>2, <1>3 DEF Typed, Data, Directory
<1>7. task \in TaskType
  <2>1. <<>> \in [1..0 -> Paths] /\ 0 \in 0..MaxSources
    BY FileTransferAssumption
  <2>2. <<>> \in BoundedSeq(Paths, MaxSources)
    BY <2>1 DEF BoundedSeq, SeqOf
  <2> QED BY <1>2, <2>2, RootIsPath DEF NoTask, TaskType, NoPath, Modes
<1>8. TypeOK
  <2>1. writes \in 0..MaxWrites
    BY <1>2, FileTransferAssumption
  <2> QED BY <1>2, <1>5, <1>6, <1>7, <2>1, TypeIs DEF Data
<1>9. RequestFits
  BY <1>2 DEF RequestFits, NoTask
<1>10. NothingLost /\ StaysInPlace
  BY <1>2, <1>5 DEF NothingLost, StaysInPlace
<1>11. SparesWhatGoes
  BY <1>2, <1>3, <1>5 DEF SparesWhatGoes, NoTask
<1> QED BY <1>8, <1>9, <1>10, <1>11 DEF Transferring

LEMMA StutterStep == ASSUME Transferring, UNCHANGED vars PROVE Transferring'
<1>1. UNCHANGED <<fs, bin, writes, kept, taken>> /\ UNCHANGED task
  BY DEF vars
<1>2. task' \in TaskType
  BY <1>1 DEF Transferring, TypeOK
<1>3. TypeOK' /\ NothingLost' /\ StaysInPlace' /\ kept' \subseteq Paths \cup {Other}
  BY <1>1, <1>2, RequestStep
<1>4. RequestFits'
  BY <1>1 DEF Transferring, RequestFits, DestinationOf, Source
<1>5. SparesWhatGoes'
  BY <1>1 DEF Transferring, SparesWhatGoes, Spare, Clear, Below, Source, IsDirectory
<1> QED BY <1>3, <1>4, <1>5 DEF Transferring

LEMMA NextTransfers == Transferring /\ [Next]_vars => Transferring'
<1> SUFFICES ASSUME Transferring, [Next]_vars PROVE Transferring'
  OBVIOUS
<1>1. CASE Transfer \/ Delete \/ Rename \/ Create
  BY <1>1, TransferStep, DeleteStep, RenameStep, CreateStep
<1>2. CASE Succeed \/ Cancel \/ SourceMissing \/ DestinationFree
  BY <1>2, SucceedStep, CancelStep, SourceMissingStep, DestinationFreeStep
<1>3. CASE SkipExisting \/ OverwriteExisting \/ RenameCopy \/ RenameExisting \/ Ask \/ Answer
  BY <1>3, SkipExistingStep, OverwriteExistingStep, RenameCopyStep, RenameExistingStep, AskStep,
     AnswerStep
<1>4. CASE Replace \/ CopySource \/ CopyFails \/ RemoveMoved
  BY <1>4, ReplaceStep, CopySourceStep, CopyFailsStep, RemoveMovedStep
<1>5. CASE DeletePath \/ RecyclePath \/ RenamePath
  BY <1>5, DeletePathStep, RecyclePathStep, RenamePathStep
<1>6. CASE CreateDirectory \/ CreateChecks \/ CreateFile \/ OtherWrites
  BY <1>6, CreateDirectoryStep, CreateChecksStep, CreateFileStep, OtherWritesStep
<1>7. CASE UNCHANGED vars
  BY <1>7, StutterStep
<1> QED BY <1>1, <1>2, <1>3, <1>4, <1>5, <1>6, <1>7 DEF Next

\* The inductive invariant holds: besides the properties, the request fits its
\* sources, and what the next call of run_filesystem_transfer_batch, remove, rename
\* or create may remove or write over is spare.
THEOREM TransferInvariant == Spec => []Transferring
BY InitTransfers, NextTransfers, PTL DEF Spec

\* The file system stays a tree of files and directories, whatever fails half way
\* (run_filesystem_transfer_batch and remove_path_any, which may stop anywhere).
THEOREM TransferTypeCorrect == Spec => []TypeOK
<1>1. Transferring => TypeOK
  BY DEF Transferring
<1> QED BY <1>1, TransferInvariant, PTL

\* No data is lost that was not to be overwritten or deleted, however requests
\* fail, are cancelled or meet files of another program.
THEOREM TransfersLoseNothing == Spec => []NothingLost
<1>1. Transferring => NothingLost
  BY DEF Transferring
<1> QED BY <1>1, TransferInvariant, PTL

\* Every file is where it was, unless it was moved in full or renamed as asked.
THEOREM FilesStayInPlace == Spec => []StaysInPlace
<1>1. Transferring => StaysInPlace
  BY DEF Transferring
<1> QED BY <1>1, TransferInvariant, PTL

-----------------------------------------------------------------------------
(* Archives.                                                               *)

Values == AllData \cup {Directory}
Held(tree) ==
  /\ DOMAIN tree \subseteq Paths /\ IsArchive(tree)
  /\ \A p \in DOMAIN tree : tree[p] \in Values
In(tree) == {tree[q] : q \in DOMAIN tree}

LEMMA OuterIsNoDirectory ==
  ASSUME NEW p \in Paths
  PROVE  Outer(p) \in AllData /\ Outer(p) # Directory /\ Outer(p) \in Words
<1>1. p \in Words /\ Len(p) \in Nat
  BY PathIsWord
<1>2. Outer(p) \in Words /\ Len(Outer(p)) = 1 + Len(p)
  BY <1>1, ConcatProperties DEF Outer, Words
<1>3. Len(Outer(p)) # 0
  BY <1>1, <1>2
<1> QED BY <1>2, <1>3, RootIsWord DEF AllData, Directory, Root

LEMMA DirectoryIsNoData == Directory \notin AllData
BY OuterIsNoDirectory, NoPathIsOther DEF AllData

LEMMA OtherIsData == Other \in AllData
BY DEF AllData, Data

LEMMA AboveInArchive ==
  ASSUME NEW tree, Held(tree), NEW q \in DOMAIN tree, NEW a \in DOMAIN tree, Within(a, q), a # q
  PROVE  tree[a] = Directory
<1>1. q \in Words /\ a \in Words
  BY PathIsWord DEF Held
<1>2. a \in Ancestors(q)
  BY <1>1, AncestorsAre
<1> QED BY <1>2 DEF Held, IsArchive, CanHold

LEMMA HeldIf ==
  ASSUME NEW tree, Root \notin DOMAIN tree, DOMAIN tree \subseteq Paths,
         \A p \in DOMAIN tree : tree[p] \in Values,
         \A p, a \in DOMAIN tree : Within(a, p) /\ a # p => tree[a] = Directory
  PROVE  Held(tree)
<1>1. ASSUME NEW p \in DOMAIN tree, NEW a \in Ancestors(p), a \in DOMAIN tree
      PROVE  tree[a] = Directory
  <2>1. p \in Words
    BY PathIsWord
  <2>2. Within(a, p) /\ a # p
    BY <1>1, <2>1, AncestorsAre
  <2> QED BY <1>1, <2>2
<1> QED BY <1>1 DEF Held, IsArchive, CanHold

\* With the directories that are implied.
LEMMA WithFoldersIs ==
  ASSUME NEW tree, Held(tree), NEW result, result = WithFolders(tree)
  PROVE  /\ Held(result)
         /\ \A q \in DOMAIN tree : q \in DOMAIN result /\ result[q] = tree[q]
         /\ \A q \in DOMAIN result \ DOMAIN tree :
              result[q] = Directory /\ \E p \in DOMAIN tree : Within(q, p) /\ q # p
<1>1. \A p \in DOMAIN tree : p \in Paths /\ p \in Words
  BY PathIsWord DEF Held
<1>2. PICK folders : folders = Above(tree) \ {Root}
  OBVIOUS
<1>3. /\ DOMAIN result = DOMAIN tree \cup folders
      /\ \A q \in DOMAIN result : result[q] = IF q \in DOMAIN tree THEN tree[q] ELSE Directory
  BY <1>2 DEF WithFolders
<1>4. ASSUME NEW q \in folders PROVE q # Root /\ \E p \in DOMAIN tree : q \in Ancestors(p)
  <2>1. q # Root /\ q \in Above(tree)
    BY <1>2
  <2> QED BY <2>1 DEF Above
<1>5. \A q \in folders : q \in Words /\ q \in Paths /\ \E p \in DOMAIN tree : Within(q, p) /\ q # p
  <2>1. ASSUME NEW q \in folders, NEW p \in DOMAIN tree, q \in Ancestors(p)
        PROVE  q \in Words /\ q \in Paths /\ Within(q, p) /\ q # p
    <3>1. q \in Words /\ Within(q, p) /\ q # p
      BY <1>1, <2>1, AncestorsAre
    <3> QED BY <1>1, <3>1, AncestorsArePaths
  <2> QED BY <1>4, <2>1
<1>6. ASSUME NEW p \in DOMAIN result, NEW a \in DOMAIN result, Within(a, p), a # p
      PROVE  result[a] = Directory
  <2>1. CASE a \notin DOMAIN tree
    BY <1>3, <2>1
  <2>2. CASE a \in DOMAIN tree /\ p \in DOMAIN tree
    BY <1>3, <1>6, <2>2, AboveInArchive
  <2>3. CASE a \in DOMAIN tree /\ p \in folders
    <3>1. PICK q \in DOMAIN tree : Within(p, q) /\ p # q
      BY <1>5, <2>3
    <3>2. a \in Words /\ p \in Words /\ q \in Words
      BY <1>1, <1>5, <2>3
    <3>3. Within(a, q)
      BY <1>6, <3>1, <3>2, WithinWithin
    <3>4. a # q
      BY <1>6, <3>1, <3>2, WithinIs, WithinEachOther, LengthOfWord
    <3> QED BY <1>3, <2>3, <3>3, <3>4, AboveInArchive
  <2> QED BY <1>3, <2>1, <2>2, <2>3
<1>7. Held(result)
  <2>1. Root \notin DOMAIN result
    BY <1>3, <1>4 DEF Held, IsArchive
  <2>2. DOMAIN result \subseteq Paths /\ \A p \in DOMAIN result : result[p] \in Values
    BY <1>1, <1>3, <1>5 DEF Held, Values
  <2> QED BY <1>6, <2>1, <2>2, HeldIf
<1> QED BY <1>3, <1>5, <1>7

\* What is added to the archive replaces what is there.
LEMMA MergedIs ==
  ASSUME Held(archive), NEW tree, Held(tree), Fitting(tree), NEW result, result = Merged(tree)
  PROVE  /\ Held(result)
         /\ \A q \in DOMAIN tree : q \in DOMAIN result /\ result[q] = tree[q]
         /\ \A e \in DOMAIN archive :
              /\ e \in DOMAIN result
              /\ (result[e] = Directory) <=> (archive[e] = Directory)
              /\ e \notin DOMAIN tree => result[e] = archive[e]
<1>1. /\ DOMAIN result = DOMAIN archive \cup DOMAIN tree
      /\ \A q \in DOMAIN result : result[q] = IF q \in DOMAIN tree THEN tree[q] ELSE archive[q]
  BY DEF Merged
<1>2. /\ \A q \in DOMAIN tree : CanHold(archive, q)
      /\ \A q \in DOMAIN tree \cap DOMAIN archive : (tree[q] = Directory) = (archive[q] = Directory)
      /\ \A e \in DOMAIN archive : CanHold(tree, e)
  BY DEF Fitting
<1>3. \A q \in DOMAIN result : q \in Paths /\ q \in Words
  BY <1>1, PathIsWord DEF Held
<1>4. ASSUME NEW p \in DOMAIN result, NEW a \in DOMAIN result, Within(a, p), a # p
      PROVE  result[a] = Directory
  <2>1. a \in Ancestors(p)
    BY <1>3, <1>4, AncestorsAre
  <2>2. CASE a \in DOMAIN tree
    <3>1. CanHold(tree, p)
      BY <1>1, <1>2 DEF Held, IsArchive
    <3> QED BY <1>1, <2>1, <2>2, <3>1 DEF CanHold
  <2>3. CASE a \notin DOMAIN tree
    <3>1. CanHold(archive, p) /\ a \in DOMAIN archive
      BY <1>1, <1>2, <2>3 DEF Held, IsArchive
    <3> QED BY <1>1, <2>1, <2>3, <3>1 DEF CanHold
  <2> QED BY <2>2, <2>3
<1>5. Held(result)
  <2>1. Root \notin DOMAIN result /\ \A p \in DOMAIN result : result[p] \in Values
    BY <1>1 DEF Held, IsArchive
  <2> QED BY <1>3, <1>4, <2>1, HeldIf
<1> QED BY <1>1, <1>2, <1>5

LEMMA WithoutEntries ==
  ASSUME NEW tree, Held(tree), NEW gone, NEW result, result = Without(tree, gone)
  PROVE  /\ Held(result) /\ DOMAIN result = DOMAIN tree \ gone
         /\ \A q \in DOMAIN result : result[q] = tree[q]
<1>1. DOMAIN result = DOMAIN tree \ gone /\ \A q \in DOMAIN result : result[q] = tree[q]
  BY DEF Without
<1>2. \A p, a \in DOMAIN result : Within(a, p) /\ a # p => result[a] = Directory
  BY <1>1, AboveInArchive
<1>3. Root \notin DOMAIN result /\ DOMAIN result \subseteq Paths /\ \A p \in DOMAIN result : result[p] \in Values
  BY <1>1 DEF Held, IsArchive
<1> QED BY <1>1, <1>2, <1>3, HeldIf

LEMMA RebasedOrder ==
  ASSUME NEW p \in Words, NEW r \in Words, NEW b \in Words, NEW q \in Words,
         Within(p, b), Within(p, q), Within(Rebased(b, p, r), Rebased(q, p, r)),
         Rebased(b, p, r) # Rebased(q, p, r)
  PROVE  Within(b, q) /\ b # q
<1>1. PICK v : v = Rebased(b, p, r)
  OBVIOUS
<1>2. PICK w : w = Rebased(q, p, r)
  OBVIOUS
<1>3. /\ v \in Words /\ Within(r, v) /\ Rebased(v, r, p) = b
      /\ w \in Words /\ Rebased(w, r, p) = q
  BY <1>1, <1>2, RebasedIs
<1>4. Within(v, w) /\ v # w
  BY <1>1, <1>2
<1>5. Within(Rebased(v, r, p), Rebased(w, r, p))
  BY <1>3, <1>4, RebasedWithin
<1> QED BY <1>1, <1>2, <1>3, <1>4, <1>5

\* The new name of a row is beside it.
Beside(row, new) ==
  /\ row \in Paths \ {Root} /\ new \in Paths \ {Root} /\ row # new
  /\ Len(row) = Len(new) /\ Front(row) = Front(new)

LEMMA BesideIs ==
  ASSUME NEW p, NEW r, Beside(p, r)
  PROVE  /\ p \in Words /\ r \in Words /\ Len(p) \in Nat /\ Len(r) \in Nat
         /\ ~Within(p, r) /\ ~Within(r, p)
         /\ \A a \in Words : Within(a, r) /\ a # r => Within(a, p) /\ a # p
<1>1. p \in Words /\ r \in Words /\ Len(p) \in Nat /\ Len(r) \in Nat /\ p # Root /\ r # Root
      /\ p # r /\ Len(p) = Len(r) /\ Front(p) = Front(r)
  BY PathIsWord DEF Beside
<1>2. ~Within(p, r) /\ ~Within(r, p)
  BY <1>1, WithinEachOther
<1>3. ASSUME NEW a \in Words, Within(a, r), a # r PROVE Within(a, p) /\ a # p
  <2>1. Within(a, Front(p))
    BY <1>1, <1>3, FrontIs
  <2> QED BY <1>1, <2>1, FrontIs, WithinIs, LengthOfWord
<1> QED BY <1>1, <1>2, <1>3

LEMMA RebasedBeside ==
  ASSUME NEW p, NEW r, Beside(p, r), NEW q \in Paths, Within(p, q)
  PROVE  /\ Rebased(q, p, r) \in Paths /\ Rebased(q, p, r) # Root
         /\ Within(r, Rebased(q, p, r)) /\ ~Within(p, Rebased(q, p, r))
         /\ Rebased(Rebased(q, p, r), r, p) = q
<1>1. p \in Paths /\ r \in Paths /\ r # Root /\ Len(p) = Len(r)
  BY DEF Beside
<1>2. p \in Words /\ r \in Words /\ Len(p) \in Nat /\ Len(r) \in Nat /\ ~Within(p, r) /\ ~Within(r, p)
  BY BesideIs
<1>3. q \in Words /\ Len(q) \in Nat /\ Len(q) <= MaxDepth
  BY PathIsWord, PathsAreWords
<1>4. PICK w : w = Rebased(q, p, r)
  OBVIOUS
<1>5. w \in Words /\ Within(r, w) /\ Rebased(w, r, p) = q
  BY <1>2, <1>3, <1>4, RebasedIs
<1>6. Len(r) + Len(q) - Len(p) <= MaxDepth
  BY <1>1, <1>2, <1>3
<1>7. w \in Paths
  BY <1>1, <1>4, <1>6, RebasedIsPath
<1>8. ~Within(p, w)
  BY <1>2, <1>5, WithinBoth
<1>9. w # Root
  BY <1>1, <1>2, <1>5, RootIsWord, WithinIs, WithinEachOther, LengthOfWord
<1> QED BY <1>4, <1>5, <1>7, <1>8, <1>9

\* Entries moved to a free name beside the one they had.
LEMMA RenamedEntries ==
  ASSUME NEW tree, Held(tree), NEW p, NEW r, Beside(p, r), \A e \in DOMAIN tree : ~Within(r, e),
         NEW result, result = Renamed(tree, p, r)
  PROVE  Held(result) /\ In(tree) \subseteq In(result)
<1>1. p \in Words /\ r \in Words /\ p \in Paths /\ r \in Paths
  BY BesideIs DEF Beside
<1>2. \A q \in DOMAIN tree : q \in Paths /\ q \in Words /\ q # Root
  BY PathIsWord DEF Held, IsArchive
<1>3. \A q : q \in At(tree, p) <=> q \in DOMAIN tree /\ Within(p, q)
  BY DEF At
<1>4. /\ DOMAIN result = (DOMAIN tree \ At(tree, p)) \cup {Rebased(s, p, r) : s \in At(tree, p)}
      /\ \A q \in DOMAIN result : result[q] = IF Within(r, q) THEN tree[Rebased(q, r, p)] ELSE tree[q]
  BY DEF Renamed
<1>5. ASSUME NEW q \in DOMAIN tree, ~Within(p, q) PROVE q \in DOMAIN result /\ result[q] = tree[q]
  BY <1>3, <1>4, <1>5
<1>6. ASSUME NEW q \in DOMAIN tree, Within(p, q)
      PROVE  /\ Rebased(q, p, r) \in DOMAIN result /\ result[Rebased(q, p, r)] = tree[q]
             /\ Rebased(q, p, r) \in Paths /\ Rebased(q, p, r) # Root
             /\ Within(r, Rebased(q, p, r))
  <2>1. PICK w : w = Rebased(q, p, r)
    OBVIOUS
  <2>2. w \in Paths /\ w # Root /\ Within(r, w) /\ Rebased(w, r, p) = q
    BY <1>2, <1>6, <2>1, RebasedBeside
  <2>3. w \in DOMAIN result
    BY <1>3, <1>4, <1>6, <2>1
  <2> QED BY <1>4, <2>1, <2>2, <2>3
<1>7. \A w \in DOMAIN result :
        \/ w \in DOMAIN tree /\ ~Within(p, w)
        \/ \E q \in DOMAIN tree : Within(p, q) /\ w = Rebased(q, p, r)
  BY <1>3, <1>4
<1>8. ASSUME NEW w \in DOMAIN result, NEW a \in DOMAIN result, Within(a, w), a # w
      PROVE  result[a] = Directory
  <2>1. CASE a \in DOMAIN tree /\ ~Within(p, a) /\ w \in DOMAIN tree /\ ~Within(p, w)
    BY <1>5, <1>8, <2>1, AboveInArchive
  <2>2. ASSUME a \in DOMAIN tree, ~Within(p, a),
               NEW q \in DOMAIN tree, Within(p, q), w = Rebased(q, p, r)
        PROVE  result[a] = Directory
    <3>1. Within(r, w) /\ w \in Words /\ a \in Words
      BY <1>1, <1>2, <2>2, RebasedIs
    <3>2. Within(a, r) /\ a # r
      BY <1>1, <1>8, <2>2, <3>1, WithinBoth, WithinItself
    <3>3. Within(a, p) /\ a # p
      BY <3>1, <3>2, BesideIs
    <3>4. Within(a, q) /\ a # q
      BY <1>1, <1>2, <2>2, <3>1, <3>3, WithinWithin
    <3>5. tree[a] = Directory
      BY <2>2, <3>4, AboveInArchive
    <3> QED BY <1>5, <2>2, <3>5
  <2>3. ASSUME w \in DOMAIN tree, NEW b \in DOMAIN tree, Within(p, b), a = Rebased(b, p, r)
        PROVE  FALSE
    <3>1. Within(r, a) /\ a \in Words /\ w \in Words
      BY <1>1, <1>2, <2>3, RebasedIs
    <3> QED BY <1>1, <1>8, <2>3, <3>1, WithinWithin
  <2>4. ASSUME NEW b \in DOMAIN tree, Within(p, b), a = Rebased(b, p, r),
               NEW q \in DOMAIN tree, Within(p, q), w = Rebased(q, p, r)
        PROVE  result[a] = Directory
    <3>1. b \in Words /\ q \in Words
      BY <1>2
    <3>2. Within(b, q) /\ b # q
      BY <1>1, <1>8, <2>4, <3>1, RebasedOrder
    <3>3. tree[b] = Directory
      BY <3>2, AboveInArchive
    <3> QED BY <1>6, <2>4, <3>3
  <2> QED BY <1>7, <2>1, <2>2, <2>3, <2>4
<1>9. Held(result)
  <2>1. \A w \in DOMAIN result : w \in Paths /\ w # Root /\ result[w] \in Values
    BY <1>2, <1>5, <1>6, <1>7 DEF Held
  <2> QED BY <1>8, <2>1, HeldIf
<1>10. \A q \in DOMAIN tree : \E w \in DOMAIN result : result[w] = tree[q]
  BY <1>5, <1>6
<1> QED BY <1>9, <1>10 DEF In

-----------------------------------------------------------------------------
(* The moves.                                                              *)

\* What a chain reported is in the archive, as it was.
Reported ==
  /\ \A f \in chain.files : f \in DOMAIN archive /\ archive[f] # Directory
  /\ \A d \in chain.directories : d \in DOMAIN archive /\ archive[d] = Directory

\* Out: what was reported has its data on disk, and is nothing that another task added.
OutOfArchive ==
  chain.op = "out" /\ chain.stage \in {"extract", "delete"} =>
    /\ Reported
    /\ \A e \in chain.todo : e \in DOMAIN archive /\ archive[e] # Other /\ chain.target \o e \in Paths
    /\ \A f \in chain.files : archive[f] # Other /\ (archive[f] \in owed => archive[f] \in In(disk))
    /\ chain.stage = "delete" => chain.doomed = DeleteEntries(chain)

\* Within: what was reported is in the temporary directory, and later in the
\* archive, at its new path.
Staged(row) ==
  /\ Reported
  /\ \A e \in chain.files \cup chain.directories : Within(row, e)
  /\ \A f \in chain.files : LET q == Rebased(f, row, chain.target) IN
       q \in DOMAIN temp /\ temp[q] = archive[f]
  /\ \A q \in DOMAIN temp : ~Within(row, q)
Doubled(row) ==
  /\ Reported
  /\ \A e \in chain.files \cup chain.directories : Within(row, e)
  /\ chain.doomed = DeleteEntries(chain)
  /\ \A f \in chain.files : LET q == Rebased(f, row, chain.target) IN
       q \in DOMAIN archive /\ archive[q] = archive[f]
WithinArchive ==
  chain.op = "same" /\ chain.stage \in {"extract", "add", "delete"} =>
    \E row \in Paths :
      /\ chain.selection = {row} /\ Beside(row, chain.target)
      /\ chain.stage = "add" => Staged(row)
      /\ chain.stage = "delete" => Doubled(row)

\* In: the sources are as they were, but for what was removed after it was added.
ToBeAdded ==
  /\ chain.todo \subseteq chain.selection /\ chain.selection \subseteq DOMAIN disk \ {Root}
  /\ \A p, q \in chain.todo : SameName(p, q) => p = q
  /\ \A s \in chain.todo : \A q \in At(disk, s) : Rebased(q, Front(s), chain.target) \in Paths
ToBeRemoved ==
  /\ chain.doomed \subseteq Paths \ {Root}
  /\ \A s \in chain.todo : s \in chain.doomed \/ s \notin DOMAIN disk
  /\ \A s \in chain.todo : \A q \in At(disk, s) : disk[q] \in owed => disk[q] \in In(archive)
IntoArchive ==
  /\ chain.op # "out" => \A q \in DOMAIN disk : disk[q] \in {Directory, Outer(q)}
  /\ chain.op = "in" /\ chain.stage = "add" => ToBeAdded
  /\ chain.op = "in" /\ chain.stage = "unmove" => ToBeRemoved

\* The places of a chain.
Chained ==
  /\ chain.op = "none" => chain = NoMove /\ Other \notin In(archive)
  /\ chain.op \in {"rename", "delete"} => ~chain.move
  /\ chain.stage = "delete" => chain.op \in {"out", "same", "delete"}
  /\ chain.op = "rename" /\ chain.stage = "rename" =>
       \E row \in Paths : chain.selection = {row} /\ Beside(row, chain.target)

Moving ==
  /\ MoveTypeOK /\ MoveLosesNothing /\ MovedIsGone
  /\ Chained /\ OutOfArchive /\ WithinArchive /\ IntoArchive

LEMMA MoveTypes ==
  ASSUME MoveTypeOK
  PROVE  Held(archive) /\ Held(temp) /\ TreeOf(Values, disk)
BY DEF MoveTypeOK, Held, TreeOf, Values

LEMMA ChainIs ==
  ASSUME MoveTypeOK
  PROVE  /\ chain.selection \subseteq Paths /\ chain.target \in Paths /\ chain.todo \subseteq Paths
         /\ chain.files \subseteq Paths /\ chain.directories \subseteq Paths /\ chain.doomed \subseteq Paths
         /\ (chain.move = TRUE \/ chain.move = FALSE)
BY DEF MoveTypeOK, MoveType

LEMMA MoveTypesNext ==
  ASSUME Held(archive'), Held(temp'), TreeOf(Values, disk'), chain' \in MoveType,
         additions' \in 0..MaxAdditions, owed' \subseteq AllData, overreach' \subseteq AllData
  PROVE  MoveTypeOK'
BY DEF MoveTypeOK, Held, TreeOf, Values

\* Directories are no data.
LEMMA DataHeld ==
  ASSUME NEW a, NEW d, DOMAIN a \subseteq Paths, DOMAIN d \subseteq Paths,
         NEW set, set \subseteq AllData, NEW extra
  PROVE  (set \subseteq DataIn(a) \cup DataIn(d) \cup extra) <=> (set \subseteq In(a) \cup In(d) \cup extra)
<1>1. DataIn(a) = In(a) \ {Directory} /\ DataIn(d) = In(d) \ {Directory}
  BY DataInIs DEF In
<1> QED BY <1>1, DirectoryIsNoData

LEMMA NothingLostNow ==
  ASSUME MoveTypeOK, MoveLosesNothing
  PROVE  owed \subseteq In(archive) \cup In(disk) \cup overreach
BY DataHeld DEF MoveTypeOK, MoveLosesNothing

LEMMA NothingLostNext ==
  ASSUME MoveTypeOK', owed' \subseteq In(archive') \cup In(disk') \cup overreach'
  PROVE  MoveLosesNothing'
BY DataHeld DEF MoveTypeOK, MoveLosesNothing

\* A step of the request alone.
LEMMA ChainStep ==
  ASSUME Moving, chain' \in MoveType, UNCHANGED <<archive, disk, temp, additions, owed, overreach>>
  PROVE  MoveTypeOK' /\ MoveLosesNothing'
BY DEF Moving, MoveTypeOK, MoveLosesNothing, IsArchive, IsTree

LEMMA EndOfChain ==
  ASSUME Moving, chain.op # "none", chain' = [chain EXCEPT !.stage = "failed"],
         UNCHANGED <<archive, disk, temp, additions, owed, overreach>>
  PROVE  Moving'
<1>1. chain' \in MoveType /\ chain'.stage = "failed" /\ chain'.op = chain.op /\ chain'.move = chain.move
  BY DEF Moving, MoveTypeOK, MoveType
<1>2. MoveTypeOK' /\ MoveLosesNothing'
  BY <1>1, ChainStep
<1>3. MovedIsGone' /\ Chained' /\ OutOfArchive' /\ WithinArchive'
  BY <1>1 DEF Moving, MovedIsGone, Chained, OutOfArchive, WithinArchive
<1>4. IntoArchive'
  BY <1>1 DEF Moving, IntoArchive
<1> QED BY <1>2, <1>3, <1>4 DEF Moving

LEMMA NoMoveIs ==
  ASSUME Moving, chain.stage # "request"
  PROVE  chain.op # "none"
BY DEF Moving, Chained, NoMove

LEMMA FailsStep == ASSUME Moving, Fails PROVE Moving'
BY NoMoveIs, EndOfChain DEF Fails

-----------------------------------------------------------------------------
(* Requests.                                                               *)

\* A request that begins a chain.
LEMMA BeginStep ==
  ASSUME Moving, chain = NoMove, NEW request \in MoveType, Begin(request),
         request.op # "none", request.stage \in {"extract", "add", "rename", "delete"},
         request.op \in {"rename", "delete"} => request.move = FALSE,
         request.stage = "delete" => request.op = "delete",
         request.op = "rename" => \E row \in Paths : request.selection = {row} /\ Beside(row, request.target),
         OutOfArchive', WithinArchive', (chain.op = "in" => ToBeAdded)'
  PROVE  Moving'
<1>1. chain' = request /\ UNCHANGED <<archive, disk, temp, additions, owed, overreach>>
  BY DEF Begin
<1>2. MoveTypeOK' /\ MoveLosesNothing'
  BY <1>1, ChainStep
<1>3. MovedIsGone'
  BY <1>1 DEF MovedIsGone
<1>4. Chained'
  <2>1. (chain.op = "none" => chain = NoMove /\ Other \notin In(archive))'
    BY <1>1
  <2>2. (chain.op \in {"rename", "delete"} => ~chain.move)'
    BY <1>1
  <2>3. (chain.stage = "delete" => chain.op \in {"out", "same", "delete"})'
    BY <1>1
  <2>4. (chain.op = "rename" /\ chain.stage = "rename" =>
           \E row \in Paths : chain.selection = {row} /\ Beside(row, chain.target))'
    BY <1>1
  <2> QED BY <2>1, <2>2, <2>3, <2>4 DEF Chained
<1>5. IntoArchive'
  <2>1. chain.op # "out"
    BY DEF NoMove
  <2> QED BY <1>1, <2>1 DEF Moving, IntoArchive
<1> QED BY <1>2, <1>3, <1>4, <1>5 DEF Moving

LEMMA MatchedIs ==
  ASSUME MoveTypeOK, NEW selection
  PROVE  Matched(selection) \subseteq DOMAIN archive /\ Matched(selection) \subseteq Paths
BY DEF Matched, MoveTypeOK

LEMMA FoldersAre ==
  ASSUME MoveTypeOK
  PROVE  Folders \subseteq Paths /\ \A folder : Rows(folder) \subseteq Paths \ {Root}
<1>1. ASSUME NEW p \in DOMAIN archive, NEW a \in Ancestors(p) PROVE a \in Paths
  <2>1. p \in Paths /\ p \in Words
    BY PathIsWord DEF MoveTypeOK
  <2> QED BY <1>1, <2>1, AncestorsAre, AncestorsArePaths
<1>2. Above(archive) \subseteq Paths
  BY <1>1 DEF Above
<1> QED BY <1>2, RootIsPath DEF Folders, Rows

LEMMA RequestOutStep == ASSUME Moving, chain = NoMove, RequestOut PROVE Moving'
<1>1. PICK folder \in Folders, into \in Paths :
        \E selection \in Few(Rows(folder)) :
          /\ \A e \in Matched(selection) : into \o e \in Paths
          /\ Begin([NoMove EXCEPT !.op = "out", !.stage = "extract", !.move = TRUE, !.target = into,
                                  !.selection = selection, !.todo = Matched(selection)])
  BY Zenon DEF RequestOut
<1>2. PICK selection \in Few(Rows(folder)) :
        /\ \A e \in Matched(selection) : into \o e \in Paths
        /\ Begin([NoMove EXCEPT !.op = "out", !.stage = "extract", !.move = TRUE, !.target = into,
                                !.selection = selection, !.todo = Matched(selection)])
  BY <1>1, Zenon
<1>3. MoveTypeOK
  BY DEF Moving
<1>4. PICK out : out = Matched(selection)
  OBVIOUS
<1>5. out \subseteq DOMAIN archive /\ out \subseteq Paths /\ \A e \in out : into \o e \in Paths
  BY <1>2, <1>3, <1>4, MatchedIs
<1>6. selection \subseteq Paths
  BY <1>3, FoldersAre DEF Few
<1>7. PICK request : request = [NoMove EXCEPT !.op = "out", !.stage = "extract", !.move = TRUE, !.target = into,
                                              !.selection = selection, !.todo = out]
  OBVIOUS
<1>8. /\ request \in MoveType /\ request.op = "out" /\ request.stage = "extract" /\ request.todo = out
      /\ request.files = {} /\ request.directories = {} /\ request.target = into
  BY <1>1, <1>5, <1>6, <1>7, RootIsPath DEF NoMove, MoveType
<1>9. Begin(request)
  BY <1>2, <1>4, <1>7
<1>10. chain' = request /\ archive' = archive
  BY <1>9 DEF Begin
<1>11. OutOfArchive'
  <2>1. \A e \in out : archive[e] # Other
    BY <1>5 DEF Moving, Chained, NoMove, In
  <2> QED BY <2>1, <1>5, <1>8, <1>10 DEF OutOfArchive, Reported
<1>12. WithinArchive' /\ (chain.op = "in" => ToBeAdded)'
  BY <1>8, <1>10 DEF WithinArchive
<1>13. request.op # "none" /\ request.op # "rename" /\ request.op # "delete" /\ request.stage # "delete"
  BY <1>8
<1> QED BY <1>8, <1>9, <1>11, <1>12, <1>13, BeginStep

\* The new name of a row is beside it.
LEMMA FreeRowsAre ==
  ASSUME MoveTypeOK, NEW folder, NEW row \in Rows(folder), NEW new \in FreeRows(row)
  PROVE  Beside(row, new)
<1>1. row \in Paths \ {Root} /\ Front(row) = folder
  BY DEF Rows
<1>2. new \in Paths \ {Root} /\ Front(new) = Front(row) /\ new \notin Rows(Front(row))
  BY DEF FreeRows
<1>3. row # new
  BY <1>1, <1>2
<1>4. Len(row) = Len(new)
  <2>1. row \in Words /\ new \in Words
    BY <1>1, <1>2, PathIsWord
  <2>2. Len(row) \in Nat \ {0} /\ Len(new) \in Nat \ {0}
        /\ Len(Front(row)) = Len(row) - 1 /\ Len(Front(new)) = Len(new) - 1
    BY <1>1, <1>2, <2>1, FrontIs
  <2> QED BY <1>2, <2>2
<1> QED BY <1>1, <1>2, <1>3, <1>4 DEF Beside

LEMMA RequestSameStep == ASSUME Moving, chain = NoMove, RequestSame PROVE Moving'
<1>1. PICK folder \in Folders, move \in BOOLEAN :
        \E row \in Rows(folder) : \E new \in FreeRows(row) :
          Begin([NoMove EXCEPT !.op = "same", !.stage = "extract", !.move = move,
                               !.selection = {row}, !.target = new])
  BY Zenon DEF RequestSame
<1>20. PICK row \in Rows(folder) : \E new \in FreeRows(row) :
        Begin([NoMove EXCEPT !.op = "same", !.stage = "extract", !.move = move,
                             !.selection = {row}, !.target = new])
  BY <1>1, Zenon
<1>2. PICK new \in FreeRows(row) :
        Begin([NoMove EXCEPT !.op = "same", !.stage = "extract", !.move = move,
                             !.selection = {row}, !.target = new])
  BY <1>20, Zenon
<1>3. MoveTypeOK
  BY DEF Moving
<1>4. Beside(row, new) /\ row \in Paths /\ new \in Paths
  BY <1>3, FreeRowsAre DEF Beside
<1>5. PICK request : request = [NoMove EXCEPT !.op = "same", !.stage = "extract", !.move = move,
                                              !.selection = {row}, !.target = new]
  OBVIOUS
<1>6. /\ request \in MoveType /\ request.op = "same" /\ request.stage = "extract"
      /\ request.selection = {row} /\ request.target = new
  BY <1>4, <1>5, RootIsPath DEF NoMove, MoveType
<1>7. Begin(request)
  BY <1>2, <1>5
<1>8. chain' = request
  BY <1>7 DEF Begin
<1>9. WithinArchive'
  BY <1>4, <1>6, <1>8 DEF WithinArchive
<1>10. OutOfArchive' /\ (chain.op = "in" => ToBeAdded)'
  BY <1>6, <1>8 DEF OutOfArchive
<1>11. request.op # "none" /\ request.op # "rename" /\ request.op # "delete" /\ request.stage # "delete"
  BY <1>6
<1> QED BY <1>6, <1>7, <1>9, <1>10, <1>11, BeginStep

LEMMA RequestRenameStep == ASSUME Moving, chain = NoMove, RequestRename PROVE Moving'
<1>1. PICK folder \in Folders :
        \E row \in Rows(folder) : \E new \in FreeRows(row) :
          Begin([NoMove EXCEPT !.op = "rename", !.stage = "rename", !.selection = {row}, !.target = new])
  BY Zenon DEF RequestRename
<1>20. PICK row \in Rows(folder) : \E new \in FreeRows(row) :
        Begin([NoMove EXCEPT !.op = "rename", !.stage = "rename", !.selection = {row}, !.target = new])
  BY <1>1, Zenon
<1>2. PICK new \in FreeRows(row) :
        Begin([NoMove EXCEPT !.op = "rename", !.stage = "rename", !.selection = {row}, !.target = new])
  BY <1>20, Zenon
<1>3. MoveTypeOK
  BY DEF Moving
<1>4. Beside(row, new) /\ row \in Paths /\ new \in Paths
  BY <1>3, FreeRowsAre DEF Beside
<1>5. PICK request : request = [NoMove EXCEPT !.op = "rename", !.stage = "rename",
                                              !.selection = {row}, !.target = new]
  OBVIOUS
<1>6. /\ request \in MoveType /\ request.op = "rename" /\ request.stage = "rename"
      /\ request.selection = {row} /\ request.target = new /\ request.move = FALSE
  BY <1>4, <1>5, RootIsPath DEF NoMove, MoveType
<1>7. Begin(request)
  BY <1>2, <1>5
<1>8. chain' = request
  BY <1>7 DEF Begin
<1>9. OutOfArchive' /\ WithinArchive' /\ (chain.op = "in" => ToBeAdded)'
  BY <1>6, <1>8 DEF OutOfArchive, WithinArchive
<1>10. request.op # "none" /\ request.stage # "delete"
       /\ \E r \in Paths : request.selection = {r} /\ Beside(r, request.target)
  BY <1>4, <1>6
<1> QED BY <1>6, <1>7, <1>9, <1>10, BeginStep

LEMMA RequestDeleteStep == ASSUME Moving, chain = NoMove, RequestDelete PROVE Moving'
<1>1. PICK folder \in Folders :
        \E selection \in Few(Rows(folder)) :
          Begin([NoMove EXCEPT !.op = "delete", !.stage = "delete",
                               !.selection = selection, !.doomed = selection])
  BY Zenon DEF RequestDelete
<1>2. PICK selection \in Few(Rows(folder)) :
        Begin([NoMove EXCEPT !.op = "delete", !.stage = "delete",
                             !.selection = selection, !.doomed = selection])
  BY <1>1, Zenon
<1>3. selection \subseteq Paths
  BY FoldersAre DEF Few, Moving
<1>4. PICK request : request = [NoMove EXCEPT !.op = "delete", !.stage = "delete",
                                              !.selection = selection, !.doomed = selection]
  OBVIOUS
<1>5. /\ request \in MoveType /\ request.op = "delete" /\ request.stage = "delete" /\ request.move = FALSE
  BY <1>3, <1>4, RootIsPath DEF NoMove, MoveType
<1>6. Begin(request)
  BY <1>2, <1>4
<1>7. chain' = request
  BY <1>6 DEF Begin
<1>8. OutOfArchive' /\ WithinArchive' /\ (chain.op = "in" => ToBeAdded)'
  BY <1>5, <1>7 DEF OutOfArchive, WithinArchive
<1>9. request.op # "none" /\ request.op # "rename"
  BY <1>5
<1> QED BY <1>5, <1>6, <1>8, <1>9, BeginStep

LEMMA RequestInStep == ASSUME Moving, chain = NoMove, RequestIn PROVE Moving'
<1>1. PICK folder \in Folders, move \in BOOLEAN, sources \in Few(DOMAIN disk \ {Root}) :
        \E items \in Addable(sources) :
          /\ \A s \in Irregular(sources, items) : ~IsDirectory(disk, s)
          /\ \A s \in items : \A q \in At(disk, s) : Rebased(q, Front(s), folder) \in Paths
          /\ Begin([NoMove EXCEPT !.op = "in", !.stage = "add", !.move = move, !.target = folder,
                                  !.selection = sources, !.todo = items])
  BY Zenon DEF RequestIn
<1>2. PICK items \in Addable(sources) :
        /\ \A s \in items : \A q \in At(disk, s) : Rebased(q, Front(s), folder) \in Paths
        /\ Begin([NoMove EXCEPT !.op = "in", !.stage = "add", !.move = move, !.target = folder,
                                !.selection = sources, !.todo = items])
  BY <1>1, Zenon
<1>3. MoveTypeOK
  BY DEF Moving
<1>4. folder \in Paths /\ sources \subseteq DOMAIN disk \ {Root} /\ sources \subseteq Paths
  BY <1>1, <1>3, FoldersAre DEF Few, MoveTypeOK
<1>5. items \subseteq sources /\ \A p, q \in items : SameName(p, q) => p = q
  BY <1>2 DEF Addable
<1>6. PICK request : request = [NoMove EXCEPT !.op = "in", !.stage = "add", !.move = move, !.target = folder,
                                              !.selection = sources, !.todo = items]
  OBVIOUS
<1>7. /\ request \in MoveType /\ request.op = "in" /\ request.stage = "add" /\ request.target = folder
      /\ request.selection = sources /\ request.todo = items
  BY <1>4, <1>5, <1>6, RootIsPath DEF NoMove, MoveType
<1>8. Begin(request)
  BY <1>2, <1>6
<1>9. chain' = request /\ disk' = disk
  BY <1>8 DEF Begin
<1>10. ToBeAdded'
  BY <1>2, <1>4, <1>5, <1>7, <1>9 DEF ToBeAdded
<1>11. OutOfArchive' /\ WithinArchive'
  BY <1>7, <1>9 DEF OutOfArchive, WithinArchive
<1>12. request.op # "none" /\ request.op # "rename" /\ request.op # "delete" /\ request.stage # "delete"
  BY <1>7
<1> QED BY <1>7, <1>8, <1>10, <1>11, <1>12, BeginStep

LEMMA RequestsStep == ASSUME Moving, Requests PROVE Moving'
BY RequestOutStep, RequestSameStep, RequestRenameStep, RequestDeleteStep, RequestInStep DEF Requests

-----------------------------------------------------------------------------
(* What deletes, renames and ends.                                         *)

LEMMA OverStep ==
  ASSUME Moving, chain.op # "none", chain' = [chain EXCEPT !.stage = "over"], disk' = disk,
         MoveTypeOK', MoveLosesNothing', MovedIsGone'
  PROVE  Moving'
<1>1. chain'.stage = "over" /\ chain'.op = chain.op /\ chain'.move = chain.move
  BY DEF Moving, MoveTypeOK, MoveType
<1>2. Chained' /\ OutOfArchive' /\ WithinArchive'
  BY <1>1 DEF Moving, Chained, OutOfArchive, WithinArchive
<1>3. IntoArchive'
  BY <1>1 DEF Moving, IntoArchive
<1> QED BY <1>2, <1>3 DEF Moving

\* What is to be deleted was reported; if it is nothing there were no files.
LEMMA ToDeleteIs ==
  ASSUME MoveTypeOK, NEW t, t = ToDelete(chain)
  PROVE  /\ t \in MoveType /\ t.op = chain.op /\ t.move = chain.move /\ t.selection = chain.selection
         /\ t.target = chain.target /\ t.todo = chain.todo
         /\ t.files = chain.files /\ t.directories = chain.directories
         /\ t.doomed = DeleteEntries(t)
         /\ t.stage = "delete" \/ (t.stage = "over" /\ t.files = {})
<1>1. PICK entries : entries = DeleteEntries(chain)
  OBVIOUS
<1>2. entries \subseteq Paths /\ chain.files \subseteq entries
  BY <1>1, ChainIs DEF DeleteEntries
<1>3. chain \in MoveType
  BY DEF MoveTypeOK
<1>7. PICK stage \in {"over", "delete"} : stage = IF entries = {} THEN "over" ELSE "delete"
  OBVIOUS
<1>4. t = [chain EXCEPT !.stage = stage, !.doomed = entries]
  BY <1>1, <1>7 DEF ToDelete
<1>5. /\ t \in MoveType /\ t.op = chain.op /\ t.move = chain.move /\ t.selection = chain.selection
      /\ t.target = chain.target /\ t.todo = chain.todo
      /\ t.files = chain.files /\ t.directories = chain.directories /\ t.doomed = entries
      /\ t.stage = stage
  BY <1>2, <1>3, <1>4 DEF MoveType
<1>6. DeleteEntries(t) = entries
  BY <1>1, <1>5 DEF DeleteEntries
<1> QED BY <1>2, <1>5, <1>6, <1>7

LEMMA ExtractedStep == ASSUME Moving, Extracted PROVE Moving'
<1>1. /\ chain.op = "out" /\ chain.stage = "extract" /\ chain' = ToDelete(chain)
      /\ UNCHANGED <<archive, disk, temp, additions, owed, overreach>>
  BY DEF Extracted, During
<1>2. MoveTypeOK
  BY DEF Moving
<1>3. /\ chain' \in MoveType /\ chain'.op = "out" /\ chain'.target = chain.target /\ chain'.todo = chain.todo
      /\ chain'.files = chain.files /\ chain'.directories = chain.directories
      /\ chain'.doomed = DeleteEntries(chain')
      /\ chain'.stage = "delete" \/ (chain'.stage = "over" /\ chain'.files = {})
  BY <1>1, <1>2, ToDeleteIs
<1>4. MoveTypeOK' /\ MoveLosesNothing'
  BY <1>1, <1>3, ChainStep
<1>5. MovedIsGone' /\ Chained' /\ WithinArchive' /\ IntoArchive'
  BY <1>3 DEF MovedIsGone, Chained, WithinArchive, IntoArchive
<1>6. OutOfArchive'
  <2>1. /\ Reported
        /\ \A e \in chain.todo : e \in DOMAIN archive /\ archive[e] # Other /\ chain.target \o e \in Paths
        /\ \A f \in chain.files : archive[f] # Other /\ (archive[f] \in owed => archive[f] \in In(disk))
    BY <1>1 DEF Moving, OutOfArchive
  <2>2. Reported'
    BY <1>1, <1>3, <2>1 DEF Reported
  <2> QED BY <1>1, <1>3, <2>1, <2>2 DEF OutOfArchive
<1> QED BY <1>4, <1>5, <1>6 DEF Moving

LEMMA SourcesRemovedStep == ASSUME Moving, SourcesRemoved PROVE Moving'
<1>1. /\ chain.op = "in" /\ chain.stage = "unmove" /\ chain.doomed = {}
      /\ chain' = [chain EXCEPT !.stage = "over"]
      /\ UNCHANGED <<archive, disk, temp, additions, owed, overreach>>
  BY DEF SourcesRemoved, During
<1>2. chain' \in MoveType /\ chain'.op = "in" /\ chain'.todo = chain.todo
  BY <1>1 DEF Moving, MoveTypeOK, MoveType
<1>3. MoveTypeOK' /\ MoveLosesNothing'
  BY <1>1, <1>2, ChainStep
<1>4. \A s \in chain.todo : s \notin DOMAIN disk
  BY <1>1 DEF Moving, IntoArchive, ToBeRemoved
<1>5. MovedIsGone'
  BY <1>1, <1>2, <1>4 DEF MovedIsGone
<1> QED BY <1>1, <1>3, <1>5, OverStep

LEMMA RenameEntryStep == ASSUME Moving, RenameEntry PROVE Moving'
<1>1. PICK chosen : chosen = CHOOSE s \in chain.selection : TRUE
  OBVIOUS
<1>2. /\ chain.op = "rename" /\ chain.stage = "rename" /\ Matched({chain.target}) = {}
      /\ archive' = Renamed(archive, chosen, chain.target)
      /\ chain' = [chain EXCEPT !.stage = "over"]
      /\ UNCHANGED <<disk, temp, additions, owed, overreach>>
  BY <1>1 DEF RenameEntry, During
<1>3. PICK row \in Paths : chain.selection = {row} /\ Beside(row, chain.target)
  BY <1>2 DEF Moving, Chained
<1>4. chosen = row
  BY <1>1, <1>3
<1>5. MoveTypeOK /\ Held(archive) /\ Held(temp) /\ TreeOf(Values, disk) /\ chain.move = FALSE
  <2>1. MoveTypeOK /\ ~chain.move
    BY <1>2 DEF Moving, Chained
  <2> QED BY <2>1, MoveTypes, ChainIs
<1>6. \A e \in DOMAIN archive : ~Within(chain.target, e)
  BY <1>2 DEF Matched
<1>7. Held(archive') /\ In(archive) \subseteq In(archive')
  BY <1>2, <1>3, <1>4, <1>5, <1>6, RenamedEntries
<1>8. chain' \in MoveType /\ chain'.move = FALSE
  BY <1>2, <1>5 DEF MoveTypeOK, MoveType
<1>9. MoveTypeOK'
  BY <1>2, <1>5, <1>7, <1>8, MoveTypesNext DEF MoveTypeOK
<1>10. MoveLosesNothing'
  <2>1. owed \subseteq In(archive) \cup In(disk) \cup overreach
    BY NothingLostNow DEF Moving
  <2> QED BY <1>2, <1>7, <1>9, <2>1, NothingLostNext
<1>11. MovedIsGone'
  BY <1>8 DEF MovedIsGone
<1> QED BY <1>2, <1>9, <1>10, <1>11, OverStep

\* A file of the archive that a move deletes was transferred, unless it is hidden.
LEMMA DeletedWasMoved ==
  ASSUME MoveTypeOK, Reported, chain.doomed = DeleteEntries(chain),
         NEW e \in Matched(chain.doomed), archive[e] # Directory, e \notin Hidden(Matched(chain.doomed))
  PROVE  e \in chain.files
<1>1. e \in DOMAIN archive /\ Held(archive)
  BY MoveTypes DEF Matched
<1>2. PICK x \in DeleteEntries(chain) : Within(x, e)
  BY DEF Matched
<1>3. CASE x \in chain.files
  <2>1. x \in DOMAIN archive /\ archive[x] # Directory
    BY <1>3 DEF Reported
  <2>2. x = e
    BY <1>1, <1>2, <2>1, AboveInArchive
  <2> QED BY <1>3, <2>2
<1>4. CASE x \in chain.directories /\ ~\E r \in (chain.files \cup chain.directories) \ {x} : Within(x, r)
  <2>1. x # e
    BY <1>4 DEF Reported
  <2>2. e \in Hidden(Matched(chain.doomed))
    BY <1>2, <1>4, <2>1 DEF Hidden
  <2> QED BY <2>2
<1> QED BY <1>2, <1>3, <1>4 DEF DeleteEntries

LEMMA DeleteFromArchiveStep == ASSUME Moving, DeleteFromArchive PROVE Moving'
<1>1. PICK gone : gone = Matched(chain.doomed)
  OBVIOUS
<1>2. /\ chain.stage = "delete" /\ archive' = Without(archive, gone)
      /\ owed' = IF chain.op = "delete" THEN owed \ {archive[e] : e \in gone} ELSE owed
      /\ overreach' = overreach \cup ({archive[e] : e \in Hidden(gone)} \ {Directory})
      /\ chain' = [chain EXCEPT !.stage = "over"]
      /\ UNCHANGED <<disk, temp, additions>>
  BY <1>1 DEF DeleteFromArchive
<1>3. MoveTypeOK /\ Held(archive) /\ Held(temp) /\ TreeOf(Values, disk) /\ owed \subseteq AllData
  BY MoveTypes DEF Moving, MoveTypeOK
<1>4. /\ Held(archive') /\ DOMAIN archive' = DOMAIN archive \ gone
      /\ \A q \in DOMAIN archive' : archive'[q] = archive[q]
  <2>1. PICK result : result = Without(archive, gone)
    OBVIOUS
  <2>2. /\ Held(result) /\ DOMAIN result = DOMAIN archive \ gone
        /\ \A q \in DOMAIN result : result[q] = archive[q]
    BY <1>3, <2>1, WithoutEntries
  <2> QED BY <1>2, <2>1, <2>2
<1>5. gone \subseteq DOMAIN archive /\ Hidden(gone) \subseteq gone
  BY <1>1 DEF Matched, Hidden
<1>6. /\ chain' \in MoveType /\ chain'.op = chain.op /\ chain'.move = chain.move
      /\ chain'.files = chain.files
  BY <1>2, <1>3 DEF MoveTypeOK, MoveType
<1>7. chain.op \in {"out", "same", "delete"} /\ (chain.op = "delete" => ~chain.move)
  BY <1>2 DEF Moving, Chained
<1>8. MoveTypeOK'
  <2>1. \A e \in DOMAIN archive : archive[e] \in AllData \cup {Directory}
    BY <1>3 DEF Held, Values
  <2>2. {archive[e] : e \in Hidden(gone)} \ {Directory} \subseteq AllData
    BY <1>5, <2>1
  <2>3. owed' \subseteq AllData /\ overreach' \subseteq AllData
    BY <1>2, <1>3, <2>2 DEF MoveTypeOK
  <2> QED BY <1>2, <1>3, <1>4, <1>6, <2>3, MoveTypesNext DEF MoveTypeOK
\* What a move out of or within the archive reported.
<1>9. chain.op # "delete" => Reported /\ chain.doomed = DeleteEntries(chain)
  BY <1>2, <1>7 DEF Moving, OutOfArchive, WithinArchive, Doubled
<1>10. MoveLosesNothing'
  <2>1. owed \subseteq In(archive) \cup In(disk) \cup overreach
    BY NothingLostNow DEF Moving
  <2>2. ASSUME NEW e \in gone, archive[e] \in owed'
        PROVE  archive[e] \in In(archive') \cup In(disk') \cup overreach'
    <3>1. chain.op \in {"out", "same"} /\ archive[e] \in owed /\ archive[e] # Directory
      BY <1>2, <1>3, <1>7, <2>2, DirectoryIsNoData
    <3>2. CASE e \in Hidden(gone)
      BY <1>2, <3>1, <3>2
    <3>3. CASE e \notin Hidden(gone)
      <4>1. e \in chain.files
        BY <1>1, <1>3, <1>9, <2>2, <3>1, <3>3, DeletedWasMoved
      <4>2. CASE chain.op = "out"
        <5>1. archive[e] \in In(disk)
          BY <1>2, <3>1, <4>1, <4>2 DEF Moving, OutOfArchive
        <5> QED BY <1>2, <5>1
      <4>3. CASE chain.op = "same"
        <5>1. PICK row \in Paths : Beside(row, chain.target) /\ Doubled(row)
          BY <1>2, <4>3 DEF Moving, WithinArchive
        <5>2. PICK q : q = Rebased(e, row, chain.target)
          OBVIOUS
        <5>3. q \in DOMAIN archive /\ archive[q] = archive[e] /\ Within(row, e)
          BY <4>1, <5>1, <5>2 DEF Doubled
        <5>4. e \in Paths
          BY <1>3, <4>1, ChainIs
        <5>5. ~Within(row, q)
          BY <5>1, <5>2, <5>3, <5>4, RebasedBeside
        <5>6. q \notin gone
          <6>1. ASSUME NEW d \in chain.doomed, Within(d, q) PROVE FALSE
            <7>1. d \in chain.files \cup chain.directories /\ Within(row, d)
              BY <1>9, <3>1, <5>1, <6>1 DEF DeleteEntries, Doubled
            <7>2. d \in Words /\ row \in Words /\ q \in Words
              BY <1>3, <5>3, <7>1, ChainIs, PathIsWord DEF Held
            <7> QED BY <5>5, <6>1, <7>1, <7>2, WithinWithin
          <6> QED BY <1>1, <6>1 DEF Matched
        <5>7. q \in DOMAIN archive' /\ archive'[q] = archive[e]
          BY <1>4, <5>3, <5>6
        <5> QED BY <5>7 DEF In
      <4> QED BY <3>1, <4>2, <4>3
    <3> QED BY <3>2, <3>3
  <2>3. owed' \subseteq owed /\ overreach \subseteq overreach' /\ disk' = disk
    BY <1>2
  <2>4. ASSUME NEW d \in owed' PROVE d \in In(archive') \cup In(disk') \cup overreach'
    <3>1. CASE d \in In(disk) \cup overreach
      BY <2>3, <3>1
    <3>2. ASSUME NEW e \in DOMAIN archive, d = archive[e]
          PROVE  d \in In(archive') \cup In(disk') \cup overreach'
      <4>1. CASE e \in gone
        BY <2>2, <2>4, <3>2, <4>1
      <4>2. CASE e \notin gone
        BY <1>4, <3>2, <4>2 DEF In
      <4> QED BY <4>1, <4>2
    <3> QED BY <2>1, <2>3, <2>4, <3>1, <3>2 DEF In
  <2> QED BY <1>8, <2>4, NothingLostNext
<1>11. MovedIsGone'
  <2>1. ASSUME chain.move, NEW f \in chain.files PROVE f \notin DOMAIN archive'
    <3>1. f \in chain.doomed /\ f \in Words
      BY <1>3, <1>7, <1>9, <2>1, ChainIs, PathIsWord DEF DeleteEntries
    <3>2. f \in DOMAIN archive => f \in gone
      BY <1>1, <3>1, WithinItself DEF Matched
    <3> QED BY <1>4, <3>2
  <2> QED BY <1>6, <1>7, <2>1 DEF MovedIsGone
<1>12. chain.op # "none" /\ disk' = disk
  BY <1>2, <1>7
<1> QED BY <1>2, <1>8, <1>10, <1>11, <1>12, OverStep

-----------------------------------------------------------------------------
(* What adds to the archive.                                               *)

LEMMA MergedNext ==
  ASSUME MoveTypeOK, NEW tree, Held(tree), Fitting(tree), archive' = Merged(tree)
  PROVE  /\ Held(archive')
         /\ \A q \in DOMAIN tree : q \in DOMAIN archive' /\ archive'[q] = tree[q]
         /\ \A e \in DOMAIN archive :
              /\ e \in DOMAIN archive'
              /\ (archive'[e] = Directory) <=> (archive[e] = Directory)
              /\ e \notin DOMAIN tree => archive'[e] = archive[e]
<1>1. PICK result : result = Merged(tree)
  OBVIOUS
<1>2. Held(archive)
  BY MoveTypes
<1>3. /\ Held(result)
      /\ \A q \in DOMAIN tree : q \in DOMAIN result /\ result[q] = tree[q]
      /\ \A e \in DOMAIN archive :
           /\ e \in DOMAIN result
           /\ (result[e] = Directory) <=> (archive[e] = Directory)
           /\ e \notin DOMAIN tree => result[e] = archive[e]
  BY <1>1, <1>2, MergedIs
<1>4. archive' = result
  BY <1>1
<1> QED BY <1>3, <1>4

\* What is replaced was agreed to, and all else stays.
LEMMA AddedIs ==
  ASSUME MoveTypeOK, MoveLosesNothing, NEW tree, Held(tree), Added(tree)
  PROVE  /\ Held(archive')
         /\ \A q \in DOMAIN tree : q \in DOMAIN archive' /\ archive'[q] = tree[q]
         /\ \A e \in DOMAIN archive :
              /\ e \in DOMAIN archive'
              /\ (archive'[e] = Directory) <=> (archive[e] = Directory)
              /\ e \notin DOMAIN tree => archive'[e] = archive[e]
         /\ owed' \subseteq owed /\ owed' \subseteq In(archive') \cup In(disk) \cup overreach
<1>1. Fitting(tree) /\ archive' = Merged(tree)
      /\ owed' = owed \ {archive[q] : q \in DOMAIN archive \cap DOMAIN tree}
  BY DEF Added
<1>2. /\ Held(archive')
      /\ \A q \in DOMAIN tree : q \in DOMAIN archive' /\ archive'[q] = tree[q]
      /\ \A e \in DOMAIN archive :
           /\ e \in DOMAIN archive'
           /\ (archive'[e] = Directory) <=> (archive[e] = Directory)
           /\ e \notin DOMAIN tree => archive'[e] = archive[e]
  BY <1>1, MergedNext
<1>3. owed \subseteq In(archive) \cup In(disk) \cup overreach
  BY NothingLostNow
<1>4. ASSUME NEW e \in DOMAIN archive, archive[e] \in owed' PROVE archive[e] \in In(archive')
  BY <1>1, <1>2, <1>4 DEF In
<1>5. owed' \subseteq In(archive') \cup In(disk) \cup overreach
  BY <1>1, <1>3, <1>4 DEF In
<1> QED BY <1>1, <1>2, <1>5

\* An entry of another task takes the place of none.
LEMMA OtherAddsStep == ASSUME Moving, OtherAdds PROVE Moving'
<1>1. /\ chain.stage \notin {"request", "over", "failed"}
      /\ additions < MaxAdditions /\ additions' = additions + 1
      /\ owed' = owed \cup {Other} /\ UNCHANGED <<disk, temp, chain, overreach>>
  BY DEF OtherAdds
<1>2. PICK p \in Paths \ (DOMAIN archive \cup {Root}) :
        LET tree == WithFolders([q \in {p} |-> Other]) IN Fitting(tree) /\ archive' = Merged(tree)
  BY DEF OtherAdds
<1>3. PICK entry : entry = [q \in {p} |-> Other]
  OBVIOUS
<1>4. PICK tree : tree = WithFolders(entry)
  OBVIOUS
<1>5. Fitting(tree) /\ archive' = Merged(tree)
  BY <1>2, <1>3, <1>4
<1>6. MoveTypeOK /\ Held(temp) /\ TreeOf(Values, disk)
  BY MoveTypes DEF Moving
<1>7. DOMAIN entry = {p} /\ entry[p] = Other
  BY <1>3
<1>8. Held(entry)
  <2>1. Root \notin DOMAIN entry /\ DOMAIN entry \subseteq Paths
    BY <1>7
  <2>2. \A q \in DOMAIN entry : entry[q] \in Values
    BY <1>7, OtherIsData DEF Values
  <2>3. \A q, a \in DOMAIN entry : Within(a, q) /\ a # q => entry[a] = Directory
    BY <1>7
  <2> QED BY <2>1, <2>2, <2>3, HeldIf
<1>9. /\ Held(tree) /\ p \in DOMAIN tree /\ tree[p] = Other
      /\ \A q \in DOMAIN tree \ {p} : tree[q] = Directory
  BY <1>4, <1>7, <1>8, WithFoldersIs
<1>10. /\ Held(archive')
       /\ \A q \in DOMAIN tree : q \in DOMAIN archive' /\ archive'[q] = tree[q]
       /\ \A e \in DOMAIN archive :
            /\ e \in DOMAIN archive'
            /\ (archive'[e] = Directory) <=> (archive[e] = Directory)
            /\ e \notin DOMAIN tree => archive'[e] = archive[e]
  BY <1>5, <1>6, <1>9, MergedNext
<1>11. \A e \in DOMAIN archive : e \in DOMAIN archive' /\ archive'[e] = archive[e]
  <2>1. ASSUME NEW e \in DOMAIN archive, e \in DOMAIN tree PROVE archive'[e] = archive[e]
    <3>1. archive'[e] = Directory
      BY <1>2, <1>9, <1>10, <2>1
    <3> QED BY <1>10, <3>1
  <2> QED BY <1>10, <2>1
<1>12. MoveTypeOK'
  <2>1. additions' \in 0..MaxAdditions
    BY <1>1, <1>6, ArchiveMoveAssumption DEF MoveTypeOK
  <2>2. owed' \subseteq AllData /\ overreach' \subseteq AllData /\ chain' \in MoveType
    BY <1>1, <1>6, OtherIsData DEF MoveTypeOK
  <2> QED BY <1>1, <1>6, <1>10, <2>1, <2>2, MoveTypesNext
<1>13. In(archive) \subseteq In(archive') /\ Other \in In(archive')
  <2>1. Other \in In(archive')
    BY <1>9, <1>10 DEF In
  <2> QED BY <1>11, <2>1 DEF In
<1>14. MoveLosesNothing'
  <2>1. owed \subseteq In(archive) \cup In(disk) \cup overreach
    BY NothingLostNow DEF Moving
  <2> QED BY <1>1, <1>12, <1>13, <2>1, NothingLostNext
<1>15. MovedIsGone' /\ Chained'
  <2>1. chain.op # "none"
    BY <1>1, NoMoveIs
  <2> QED BY <1>1, <2>1 DEF Moving, MovedIsGone, Chained
<1>16. Reported => Reported'
  BY <1>1, <1>11 DEF Reported
<1>17. OutOfArchive'
  <2>1. ASSUME chain.op = "out", chain.stage \in {"extract", "delete"}
        PROVE  /\ Reported'
               /\ \A e \in chain.todo : e \in DOMAIN archive' /\ archive'[e] # Other /\ chain.target \o e \in Paths
               /\ \A f \in chain.files : archive'[f] # Other /\ (archive'[f] \in owed' => archive'[f] \in In(disk))
               /\ chain.stage = "delete" => chain.doomed = DeleteEntries(chain)
    <3>1. /\ Reported
          /\ \A e \in chain.todo : e \in DOMAIN archive /\ archive[e] # Other /\ chain.target \o e \in Paths
          /\ \A f \in chain.files : archive[f] # Other /\ (archive[f] \in owed => archive[f] \in In(disk))
          /\ chain.stage = "delete" => chain.doomed = DeleteEntries(chain)
      BY <2>1 DEF Moving, OutOfArchive
    <3>2. \A f \in chain.files : f \in DOMAIN archive
      BY <3>1 DEF Reported
    <3> QED BY <1>1, <1>11, <1>16, <3>1, <3>2
  <2> QED BY <1>1, <2>1 DEF OutOfArchive
<1>18. WithinArchive'
  <2>1. ASSUME NEW row \in Paths, Staged(row) PROVE Staged(row)'
    <3>1. Reported /\ Reported'
      BY <1>16, <2>1 DEF Staged
    <3>2. \A f \in chain.files : archive'[f] = archive[f]
      BY <1>11, <3>1 DEF Reported
    <3> QED BY <1>1, <2>1, <3>1, <3>2 DEF Staged
  <2>2. ASSUME NEW row \in Paths, Doubled(row) PROVE Doubled(row)'
    <3>1. Reported /\ Reported'
      BY <1>16, <2>2 DEF Doubled
    <3>2. \A f \in chain.files : archive'[f] = archive[f]
      BY <1>11, <3>1 DEF Reported
    <3> QED BY <1>1, <1>11, <2>2, <3>1, <3>2 DEF Doubled
  <2> QED BY <1>1, <2>1, <2>2 DEF Moving, WithinArchive
<1>19. IntoArchive'
  <2>1. (chain.op # "out" => \A q \in DOMAIN disk : disk[q] \in {Directory, Outer(q)})'
    BY <1>1 DEF Moving, IntoArchive
  <2>2. ToBeAdded => ToBeAdded'
    BY <1>1 DEF ToBeAdded
  <2>3. ASSUME ToBeRemoved, \A q \in DOMAIN disk : disk[q] \in {Directory, Outer(q)} PROVE ToBeRemoved'
    <3>1. ASSUME NEW s \in chain.todo, NEW q \in At(disk, s), disk[q] \in owed' PROVE disk[q] \in In(archive')
      BY <1>1, <1>13, <2>3, <3>1 DEF ToBeRemoved
    <3> QED BY <1>1, <2>3, <3>1 DEF ToBeRemoved
  <2> QED BY <1>1, <2>1, <2>2, <2>3 DEF Moving, IntoArchive
<1> QED BY <1>12, <1>14, <1>15, <1>17, <1>18, <1>19 DEF Moving

\* The entries of the row, under its new name.
UnderNewName(row, new) ==
  [q \in {Rebased(e, row, new) : e \in Matched({row})} |-> archive[Rebased(q, new, row)]]

LEMMA RenamedOut ==
  ASSUME MoveTypeOK, NEW row, NEW new, Beside(row, new),
         NEW core, core = UnderNewName(row, new)
  PROVE  /\ Held(core)
         /\ \A q \in DOMAIN core : ~Within(row, q)
         /\ \A e \in Matched({row}) : Rebased(e, row, new) \in DOMAIN core /\ core[Rebased(e, row, new)] = archive[e]
<1>1. PICK out : out = Matched({row})
  OBVIOUS
<1>2. \A e \in out : e \in DOMAIN archive /\ Within(row, e) /\ e \in Paths /\ e \in Words
  BY <1>1, PathIsWord DEF Matched, MoveTypeOK
<1>3. /\ DOMAIN core = {Rebased(e, row, new) : e \in out}
      /\ \A q \in DOMAIN core : core[q] = archive[Rebased(q, new, row)]
  BY <1>1 DEF UnderNewName
<1>4. ASSUME NEW e \in out
      PROVE  /\ Rebased(e, row, new) \in DOMAIN core /\ core[Rebased(e, row, new)] = archive[e]
             /\ Rebased(e, row, new) \in Paths /\ Rebased(e, row, new) # Root
             /\ ~Within(row, Rebased(e, row, new))
  <2>1. /\ Rebased(e, row, new) \in Paths /\ Rebased(e, row, new) # Root
        /\ ~Within(row, Rebased(e, row, new)) /\ Rebased(Rebased(e, row, new), new, row) = e
    BY <1>2, RebasedBeside
  <2>2. PICK q : q = Rebased(e, row, new)
    OBVIOUS
  <2>3. q \in DOMAIN core
    BY <1>3, <2>2
  <2> QED BY <1>3, <2>1, <2>2, <2>3
<1>5. \A q \in DOMAIN core : \E e \in out : q = Rebased(e, row, new)
  BY <1>3
<1>6. Held(archive) /\ row \in Words /\ new \in Words
  BY MoveTypes, BesideIs
<1>7. ASSUME NEW q \in DOMAIN core, NEW a \in DOMAIN core, Within(a, q), a # q PROVE core[a] = Directory
  <2>1. PICK e \in out : q = Rebased(e, row, new)
    BY <1>5
  <2>2. PICK b \in out : a = Rebased(b, row, new)
    BY <1>5
  <2>3. e \in Words /\ b \in Words /\ Within(row, e) /\ Within(row, b)
    BY <1>2
  <2>4. Within(b, e) /\ b # e
    BY <1>6, <1>7, <2>1, <2>2, <2>3, RebasedOrder
  <2>5. archive[b] = Directory
    BY <1>2, <1>6, <2>4, AboveInArchive
  <2> QED BY <1>4, <2>2, <2>5
<1>8. Held(core)
  <2>1. Root \notin DOMAIN core /\ DOMAIN core \subseteq Paths
    BY <1>4, <1>5
  <2>2. \A q \in DOMAIN core : core[q] \in Values
    BY <1>2, <1>4, <1>5, <1>6 DEF Held
  <2> QED BY <1>7, <2>1, <2>2, HeldIf
<1> QED BY <1>1, <1>4, <1>5, <1>8

LEMMA ExtractToTempStep == ASSUME Moving, ExtractToTemp PROVE Moving'
<1>1. PICK row \in Paths : chain.selection = {row} /\ Beside(row, chain.target)
  BY DEF ExtractToTemp, During, Moving, WithinArchive
<1>2. (CHOOSE s \in chain.selection : TRUE) = row
  BY <1>1
<1>3. PICK out : out = Matched({row})
  OBVIOUS
<1>4. PICK core : core = [q \in {Rebased(e, row, chain.target) : e \in out} |-> archive[Rebased(q, chain.target, row)]]
  OBVIOUS
<1>5. /\ chain.op = "same" /\ chain.stage = "extract" /\ temp' = WithFolders(core)
      /\ chain' = [chain EXCEPT !.stage = "add",
                                !.files = {e \in out : archive[e] # Directory},
                                !.directories = {e \in out : archive[e] = Directory}]
      /\ UNCHANGED <<archive, disk, additions, owed, overreach>>
  BY <1>1, <1>2, <1>3, <1>4 DEF ExtractToTemp, During
<1>6. MoveTypeOK /\ Held(archive) /\ TreeOf(Values, disk) /\ row \in Words
  BY <1>1, MoveTypes, PathIsWord DEF Moving
<1>7. /\ Held(core)
      /\ \A q \in DOMAIN core : ~Within(row, q)
      /\ \A e \in out : Rebased(e, row, chain.target) \in DOMAIN core /\ core[Rebased(e, row, chain.target)] = archive[e]
  <2>1. PICK new : new = chain.target
    OBVIOUS
  <2>2. core = UnderNewName(row, new)
    BY <1>3, <1>4, <2>1 DEF UnderNewName
  <2>3. MoveTypeOK /\ Beside(row, new)
    BY <1>1, <1>6, <2>1
  <2>4. /\ Held(core)
        /\ \A q \in DOMAIN core : ~Within(row, q)
        /\ \A e \in Matched({row}) : Rebased(e, row, new) \in DOMAIN core /\ core[Rebased(e, row, new)] = archive[e]
    BY <2>2, <2>3, RenamedOut
  <2> QED BY <1>3, <2>1, <2>4
<1>8. PICK tree : tree = WithFolders(core)
  OBVIOUS
<1>9. /\ Held(tree)
      /\ \A q \in DOMAIN core : q \in DOMAIN tree /\ tree[q] = core[q]
      /\ \A q \in DOMAIN tree \ DOMAIN core : \E p \in DOMAIN core : Within(q, p)
  BY <1>7, <1>8, WithFoldersIs
<1>10. temp' = tree
  BY <1>5, <1>8
<1>11. \A q \in DOMAIN tree : ~Within(row, q)
  <2>1. ASSUME NEW q \in DOMAIN tree, NEW p \in DOMAIN core, Within(q, p), Within(row, q) PROVE FALSE
    <3>1. q \in Words /\ p \in Words
      BY <1>7, <1>9, PathIsWord DEF Held
    <3> QED BY <1>6, <1>7, <2>1, <3>1, WithinWithin
  <2> QED BY <1>7, <1>9, <2>1
<1>12. \A e \in out : e \in DOMAIN archive /\ e \in Paths /\ Within(row, e)
  BY <1>3, <1>6 DEF Matched, MoveTypeOK
<1>13. PICK files : files = {e \in out : archive[e] # Directory}
  OBVIOUS
<1>14. PICK directories : directories = {e \in out : archive[e] = Directory}
  OBVIOUS
<1>15. /\ files \subseteq Paths /\ directories \subseteq Paths
       /\ \A e \in files : e \in out /\ archive[e] # Directory
       /\ \A e \in directories : e \in out /\ archive[e] = Directory
  BY <1>12, <1>13, <1>14
<1>16. /\ chain' \in MoveType /\ chain'.op = "same" /\ chain'.stage = "add"
       /\ chain'.selection = chain.selection /\ chain'.target = chain.target
       /\ chain'.files = files /\ chain'.directories = directories
  <2>1. chain' = [chain EXCEPT !.stage = "add", !.files = files, !.directories = directories]
    BY <1>5, <1>13, <1>14
  <2>2. chain \in MoveType /\ chain.op = "same" /\ files \subseteq Paths /\ directories \subseteq Paths
    BY <1>5, <1>6, <1>15 DEF MoveTypeOK
  <2> QED BY <2>1, <2>2 DEF MoveType
<1>17. MoveTypeOK'
  BY <1>5, <1>6, <1>9, <1>10, <1>16, MoveTypesNext DEF MoveTypeOK
<1>18. MoveLosesNothing'
  BY <1>5 DEF Moving, MoveLosesNothing
<1>19. Staged(row)'
  <2>1. Reported'
    BY <1>5, <1>12, <1>15, <1>16 DEF Reported
  <2>2. \A e \in files \cup directories : Within(row, e)
    BY <1>12, <1>15
  <2>3. ASSUME NEW f \in files
        PROVE  Rebased(f, row, chain.target) \in DOMAIN tree /\ tree[Rebased(f, row, chain.target)] = archive[f]
    <3>1. PICK q : q = Rebased(f, row, chain.target)
      OBVIOUS
    <3>2. q \in DOMAIN core /\ core[q] = archive[f]
      BY <1>7, <1>15, <3>1
    <3> QED BY <1>9, <3>1, <3>2
  <2> QED BY <1>5, <1>10, <1>11, <1>16, <2>1, <2>2, <2>3 DEF Staged
<1>20. WithinArchive'
  BY <1>1, <1>16, <1>19 DEF WithinArchive
<1>21. MovedIsGone' /\ Chained' /\ OutOfArchive' /\ IntoArchive'
  BY <1>5, <1>16 DEF Moving, MovedIsGone, Chained, OutOfArchive, IntoArchive
<1> QED BY <1>17, <1>18, <1>20, <1>21 DEF Moving

LEMMA AddCopyStep == ASSUME Moving, AddCopy PROVE Moving'
<1>1. /\ chain.op = "same" /\ chain.stage = "add" /\ Added(temp)
      /\ chain' = IF chain.move THEN ToDelete(chain) ELSE [chain EXCEPT !.stage = "over"]
      /\ UNCHANGED <<disk, temp, additions, overreach>>
  BY DEF AddCopy, During
<1>2. MoveTypeOK /\ MoveLosesNothing /\ Held(temp) /\ TreeOf(Values, disk)
      /\ (chain.move = TRUE \/ chain.move = FALSE)
  BY MoveTypes, ChainIs DEF Moving
<1>3. PICK row \in Paths : chain.selection = {row} /\ Beside(row, chain.target) /\ Staged(row)
  BY <1>1 DEF Moving, WithinArchive
<1>4. PICK tree : tree = temp
  OBVIOUS
<1>5. Held(tree) /\ Added(tree)
  BY <1>1, <1>2, <1>4
<1>6. /\ Held(archive')
      /\ \A q \in DOMAIN tree : q \in DOMAIN archive' /\ archive'[q] = tree[q]
      /\ \A e \in DOMAIN archive :
           /\ e \in DOMAIN archive'
           /\ (archive'[e] = Directory) <=> (archive[e] = Directory)
           /\ e \notin DOMAIN tree => archive'[e] = archive[e]
      /\ owed' \subseteq owed /\ owed' \subseteq In(archive') \cup In(disk) \cup overreach
  BY <1>2, <1>5, AddedIs
<1>7. ASSUME chain' \in MoveType PROVE MoveTypeOK' /\ MoveLosesNothing'
  <2>1. owed' \subseteq AllData /\ overreach' \subseteq AllData /\ additions' \in 0..MaxAdditions
    BY <1>1, <1>2, <1>6 DEF MoveTypeOK
  <2>2. MoveTypeOK'
    BY <1>1, <1>2, <1>6, <1>7, <2>1, MoveTypesNext
  <2> QED BY <1>1, <1>6, <2>2, NothingLostNext
<1>8. CASE chain.move = FALSE
  <2>1. chain' = [chain EXCEPT !.stage = "over"]
    BY <1>1, <1>8
  <2>2. chain' \in MoveType /\ chain'.move = FALSE
    BY <1>2, <1>8, <2>1 DEF MoveTypeOK, MoveType
  <2>3. MovedIsGone'
    BY <2>2 DEF MovedIsGone
  <2> QED BY <1>1, <1>7, <2>1, <2>2, <2>3, OverStep
<1>9. CASE chain.move = TRUE
  <2>1. chain' = ToDelete(chain)
    BY <1>1, <1>9
  <2>2. /\ chain' \in MoveType /\ chain'.op = "same" /\ chain'.selection = chain.selection
        /\ chain'.target = chain.target
        /\ chain'.files = chain.files /\ chain'.directories = chain.directories
        /\ chain'.doomed = DeleteEntries(chain')
        /\ chain'.stage = "delete" \/ (chain'.stage = "over" /\ chain'.files = {})
    BY <1>1, <1>2, <2>1, ToDeleteIs
  <2>3. Doubled(row)'
    <3>1. /\ Reported /\ \A e \in chain.files \cup chain.directories : Within(row, e)
          /\ \A q \in DOMAIN tree : ~Within(row, q)
      BY <1>3, <1>4 DEF Staged
    <3>2. Reported'
      BY <1>6, <2>2, <3>1 DEF Reported
    <3>3. ASSUME NEW f \in chain.files
          PROVE  /\ Rebased(f, row, chain.target) \in DOMAIN archive'
                 /\ archive'[Rebased(f, row, chain.target)] = archive'[f]
      <4>1. PICK q : q = Rebased(f, row, chain.target)
        OBVIOUS
      <4>2. q \in DOMAIN tree /\ tree[q] = archive[f]
        BY <1>3, <1>4, <3>3, <4>1 DEF Staged
      <4>3. f \in DOMAIN archive /\ f \notin DOMAIN tree
        BY <3>1, <3>3 DEF Reported
      <4> QED BY <1>6, <4>1, <4>2, <4>3
    <3> QED BY <2>2, <3>1, <3>2, <3>3 DEF Doubled
  <2>4. WithinArchive'
    BY <1>3, <2>2, <2>3 DEF WithinArchive
  <2>5. MovedIsGone' /\ Chained' /\ OutOfArchive' /\ IntoArchive'
    BY <1>1, <2>2 DEF Moving, MovedIsGone, Chained, OutOfArchive, IntoArchive
  <2> QED BY <1>7, <2>2, <2>4, <2>5 DEF Moving
<1> QED BY <1>2, <1>8, <1>9

-----------------------------------------------------------------------------
(* What is extracted to the file system.                                   *)

LEMMA OutIs ==
  ASSUME MoveTypeOK, NEW e \in chain.todo, NEW t, t = Out(e)
  PROVE  /\ t \in MoveType /\ t.op = chain.op /\ t.stage = chain.stage /\ t.target = chain.target
         /\ t.todo = chain.todo \ {e}
         /\ t.files = IF archive[e] = Directory THEN chain.files ELSE chain.files \cup {e}
         /\ t.directories = IF archive[e] = Directory THEN chain.directories \cup {e} ELSE chain.directories
<1>1. chain \in MoveType
  BY DEF MoveTypeOK
<1>4. PICK todo : todo = chain.todo \ {e}
  OBVIOUS
<1>5. PICK files : files = chain.files \cup {e}
  OBVIOUS
<1>6. PICK directories : directories = chain.directories \cup {e}
  OBVIOUS
<1>7. todo \subseteq Paths /\ files \subseteq Paths /\ directories \subseteq Paths
  BY <1>4, <1>5, <1>6, ChainIs
<1>2. CASE archive[e] = Directory
  <2>1. t = [chain EXCEPT !.todo = todo, !.directories = directories]
    BY <1>2, <1>4, <1>6 DEF Out
  <2>2. /\ t \in MoveType /\ t.op = chain.op /\ t.stage = chain.stage /\ t.target = chain.target
        /\ t.todo = todo /\ t.files = chain.files /\ t.directories = directories
    BY <1>1, <1>7, <2>1 DEF MoveType
  <2> QED BY <1>2, <1>4, <1>6, <2>2
<1>3. CASE archive[e] # Directory
  <2>1. t = [chain EXCEPT !.todo = todo, !.files = files]
    BY <1>3, <1>4, <1>5 DEF Out
  <2>2. /\ t \in MoveType /\ t.op = chain.op /\ t.stage = chain.stage /\ t.target = chain.target
        /\ t.todo = todo /\ t.files = files /\ t.directories = chain.directories
    BY <1>1, <1>7, <2>1 DEF MoveType
  <2> QED BY <1>3, <1>4, <1>5, <2>2
<1> QED BY <1>2, <1>3

\* Where an entry goes.
LEMMA PlaceIs ==
  ASSUME Moving, During({"out"}, "extract"), NEW e \in chain.todo
  PROVE  /\ MoveTypeOK /\ Held(temp) /\ Held(archive) /\ TreeOf(Values, disk)
         /\ e \in DOMAIN archive /\ archive[e] \in Values /\ archive[e] # Other
         /\ PlaceOf(e) \in Paths /\ PlaceOf(e) \in Words
<1>1. MoveTypeOK /\ Held(temp) /\ Held(archive) /\ TreeOf(Values, disk)
  BY MoveTypes DEF Moving
<1>2. e \in DOMAIN archive /\ archive[e] # Other /\ PlaceOf(e) \in Paths
  BY DEF Moving, OutOfArchive, During, PlaceOf
<1> QED BY <1>1, <1>2, PathIsWord DEF Held

LEMMA WithParentsNow ==
  ASSUME NEW x \in Words, TreeOf(Values, disk), Ancestors(x) \subseteq Paths, CanHold(disk, x),
         NEW result, result = WithParents(disk, x)
  PROVE  /\ TreeOf(Values, result)
         /\ DOMAIN result = DOMAIN disk \cup Ancestors(x)
         /\ \A q \in DOMAIN disk : result[q] = disk[q]
         /\ \A a \in Ancestors(x) : result[a] = Directory
<1>1. PICK tree : tree = disk
  OBVIOUS
<1>2. PICK values : values = Values
  OBVIOUS
<1>3. TreeOf(values, tree) /\ CanHold(tree, x) /\ result = WithParents(tree, x)
  BY <1>1, <1>2
<1>4. TreeOf(values, result)
  BY <1>3, WithParentsOf
<1>5. /\ DOMAIN result = DOMAIN disk \cup Ancestors(x)
      /\ \A q \in DOMAIN disk : result[q] = disk[q]
  BY DEF WithParents
<1>6. \A a \in Ancestors(x) : result[a] = Directory
  BY DEF WithParents, CanHold
<1> QED BY <1>1, <1>2, <1>4, <1>5, <1>6

\* A change of the file system that keeps the data that must be kept.
LEMMA DiskChanges ==
  ASSUME Moving, During({"out"}, "extract"), TreeOf(Values, disk'), chain' \in MoveType, owed' \subseteq owed,
         \A d \in owed' : d \in In(disk) => d \in In(disk'),
         UNCHANGED <<archive, temp, additions, overreach>>
  PROVE  MoveTypeOK' /\ MoveLosesNothing'
<1>1. MoveTypeOK /\ Held(archive) /\ Held(temp)
  BY MoveTypes DEF Moving
<1>2. MoveTypeOK'
  <2>1. owed' \subseteq AllData /\ overreach' \subseteq AllData /\ additions' \in 0..MaxAdditions
    BY <1>1 DEF MoveTypeOK
  <2> QED BY <1>1, <2>1, MoveTypesNext
<1>3. owed \subseteq In(archive) \cup In(disk) \cup overreach
  BY NothingLostNow DEF Moving
<1> QED BY <1>2, <1>3, NothingLostNext

\* An entry that is out has its data on disk.
LEMMA OutStep ==
  ASSUME Moving, During({"out"}, "extract"), NEW e \in chain.todo, chain' = Out(e),
         TreeOf(Values, disk'), owed' \subseteq owed,
         \A d \in owed' : d \in In(disk) => d \in In(disk'),
         archive[e] # Directory => archive[e] \in In(disk'),
         UNCHANGED <<archive, temp, additions, overreach>>
  PROVE  Moving'
<1>1. chain.op = "out" /\ chain.stage = "extract" /\ MoveTypeOK
  BY DEF During, Moving
<1>2. PICK t : t = Out(e)
  OBVIOUS
<1>3. /\ t \in MoveType /\ t.op = "out" /\ t.stage = "extract" /\ t.target = chain.target
      /\ t.todo = chain.todo \ {e}
      /\ t.files = IF archive[e] = Directory THEN chain.files ELSE chain.files \cup {e}
      /\ t.directories = IF archive[e] = Directory THEN chain.directories \cup {e} ELSE chain.directories
  BY <1>1, <1>2, OutIs
<1>4. chain' = t
  BY <1>2
<1>5. MoveTypeOK' /\ MoveLosesNothing'
  BY <1>3, <1>4, DiskChanges
<1>6. /\ Reported
      /\ \A q \in chain.todo : q \in DOMAIN archive /\ archive[q] # Other /\ chain.target \o q \in Paths
      /\ \A f \in chain.files : archive[f] # Other /\ (archive[f] \in owed => archive[f] \in In(disk))
  BY <1>1 DEF Moving, OutOfArchive
<1>7. Reported'
  BY <1>3, <1>4, <1>6 DEF Reported
<1>8. OutOfArchive'
  BY <1>3, <1>4, <1>6, <1>7 DEF OutOfArchive
<1>9. MovedIsGone' /\ Chained' /\ WithinArchive' /\ IntoArchive'
  BY <1>3, <1>4 DEF MovedIsGone, Chained, WithinArchive, IntoArchive
<1> QED BY <1>5, <1>8, <1>9 DEF Moving

\* An entry that is skipped stays in the archive.
LEMMA SkipStep ==
  ASSUME Moving, During({"out"}, "extract"), NEW e \in chain.todo, chain' = [chain EXCEPT !.todo = @ \ {e}],
         UNCHANGED <<archive, disk, temp, additions, owed, overreach>>
  PROVE  Moving'
<1>1. chain.op = "out" /\ chain.stage = "extract" /\ MoveTypeOK
  BY DEF During, Moving
<1>2. /\ chain' \in MoveType /\ chain'.op = "out" /\ chain'.stage = "extract" /\ chain'.target = chain.target
      /\ chain'.todo = chain.todo \ {e} /\ chain'.files = chain.files /\ chain'.directories = chain.directories
  BY <1>1 DEF MoveTypeOK, MoveType
<1>3. MoveTypeOK' /\ MoveLosesNothing'
  BY <1>2, ChainStep
<1>4. /\ Reported
      /\ \A q \in chain.todo : q \in DOMAIN archive /\ archive[q] # Other /\ chain.target \o q \in Paths
      /\ \A f \in chain.files : archive[f] # Other /\ (archive[f] \in owed => archive[f] \in In(disk))
  BY <1>1 DEF Moving, OutOfArchive
<1>5. Reported'
  BY <1>2, <1>4 DEF Reported
<1>6. OutOfArchive'
  BY <1>2, <1>4, <1>5 DEF OutOfArchive
<1>7. MovedIsGone' /\ Chained' /\ WithinArchive' /\ IntoArchive'
  BY <1>2 DEF MovedIsGone, Chained, WithinArchive, IntoArchive
<1> QED BY <1>3, <1>6, <1>7 DEF Moving

LEMMA ExtractDirectoryStep == ASSUME Moving, ExtractDirectory PROVE Moving'
<1>1. PICK e \in chain.todo :
        /\ During({"out"}, "extract")
        /\ archive[e] = Directory /\ CanHold(disk, Append(PlaceOf(e), torn))
        /\ disk' = WithParents(disk, Append(PlaceOf(e), torn))
        /\ chain' = Out(e)
        /\ UNCHANGED <<archive, temp, additions, owed, overreach>>
  BY DEF ExtractDirectory
<1>2. TreeOf(Values, disk) /\ PlaceOf(e) \in Paths
  BY <1>1, PlaceIs
<1>3. PICK inside : inside = Append(PlaceOf(e), torn)
  OBVIOUS
<1>4. inside \in Words /\ Ancestors(inside) \subseteq Paths
  BY <1>2, <1>3, InsideIs
<1>5. PICK tree : tree = WithParents(disk, inside)
  OBVIOUS
<1>6. TreeOf(Values, tree) /\ \A q \in DOMAIN disk : q \in DOMAIN tree /\ tree[q] = disk[q]
  <2>1. CanHold(disk, inside)
    BY <1>1, <1>3
  <2>2. /\ TreeOf(Values, tree) /\ DOMAIN tree = DOMAIN disk \cup Ancestors(inside)
        /\ \A q \in DOMAIN disk : tree[q] = disk[q]
    BY <1>2, <1>4, <1>5, <2>1, WithParentsNow
  <2> QED BY <2>2
<1>7. disk' = tree
  BY <1>1, <1>3, <1>5
<1>8. TreeOf(Values, disk') /\ \A d \in owed' : d \in In(disk) => d \in In(disk')
  BY <1>6, <1>7 DEF In
<1> QED BY <1>1, <1>8, OutStep

LEMMA ExtractFileStep == ASSUME Moving, ExtractFile PROVE Moving'
<1>1. PICK e \in chain.todo :
        /\ During({"out"}, "extract")
        /\ archive[e] # Directory /\ PlaceOf(e) \notin DOMAIN disk /\ CanHold(disk, PlaceOf(e))
        /\ disk' = WithFile(WithParents(disk, PlaceOf(e)), PlaceOf(e), archive[e])
        /\ chain' = Out(e)
        /\ UNCHANGED <<archive, temp, additions, owed, overreach>>
  BY DEF ExtractFile
<1>2. PICK p : p = PlaceOf(e)
  OBVIOUS
<1>3. PICK data : data = archive[e]
  OBVIOUS
<1>4. /\ TreeOf(Values, disk) /\ p \in Paths /\ p \in Words /\ data \in Values
      /\ p \notin DOMAIN disk /\ CanHold(disk, p)
  BY <1>1, <1>2, <1>3, PlaceIs
<1>5. p # Root /\ Ancestors(p) \subseteq Paths /\ p \notin Ancestors(p)
  BY <1>4, AncestorsAre, AncestorsArePaths DEF TreeOf, IsTree
<1>6. PICK folders : folders = WithParents(disk, p)
  OBVIOUS
<1>7. /\ TreeOf(Values, folders) /\ DOMAIN folders = DOMAIN disk \cup Ancestors(p)
      /\ \A q \in DOMAIN disk : folders[q] = disk[q]
      /\ \A a \in Ancestors(p) : folders[a] = Directory
  BY <1>4, <1>5, <1>6, WithParentsNow
<1>8. PICK tree : tree = WithFile(folders, p, data)
  OBVIOUS
<1>9. /\ TreeOf(Values, tree) /\ DOMAIN tree = DOMAIN folders \cup {p} /\ tree[p] = data
      /\ \A q \in DOMAIN folders \ {p} : tree[q] = folders[q]
  <2>1. ~IsDirectory(folders, p) /\ \A a \in Ancestors(p) : IsDirectory(folders, a)
    BY <1>4, <1>5, <1>7 DEF IsDirectory
  <2> QED BY <1>4, <1>5, <1>7, <1>8, <2>1, WithFileOf
<1>10. disk' = tree
  BY <1>1, <1>2, <1>3, <1>6, <1>8
<1>11. \A q \in DOMAIN disk : q \in DOMAIN tree /\ tree[q] = disk[q]
  BY <1>4, <1>7, <1>9
<1>12. /\ TreeOf(Values, disk') /\ archive[e] \in In(disk')
       /\ \A d \in owed' : d \in In(disk) => d \in In(disk')
  BY <1>3, <1>9, <1>10, <1>11 DEF In
<1> QED BY <1>1, <1>12, OutStep

LEMMA FreeBesideIs ==
  ASSUME MoveTypeOK, NEW p \in DOMAIN disk \ {Root}, NEW q \in FreeBeside(p)
  PROVE  Beside(p, q) /\ q \in Paths \ {Root} /\ q \notin DOMAIN disk /\ Len(q) = Len(p) /\ Front(q) = Front(p)
<1>1. p \in Paths \ {Root} /\ q \in Paths /\ Len(q) = Len(p) /\ Front(q) = Front(p) /\ q \notin DOMAIN disk
  BY DEF FreeBeside, MoveTypeOK
<1>2. Root \in DOMAIN disk
  BY DEF MoveTypeOK, IsTree
<1> QED BY <1>1, <1>2 DEF Beside

LEMMA ExtractConflictStep == ASSUME Moving, ExtractConflict PROVE Moving'
<1>1. PICK e \in chain.todo :
        /\ During({"out"}, "extract")
        /\ archive[e] # Directory /\ PlaceOf(e) \in DOMAIN disk \ {Root}
        /\ \/ /\ disk' = WithFile(Without(disk, At(disk, PlaceOf(e))), PlaceOf(e), archive[e])
              /\ owed' = owed \ DataAt(disk, PlaceOf(e))
              /\ chain' = Out(e)
           \/ /\ chain' = [chain EXCEPT !.todo = @ \ {e}]
              /\ UNCHANGED <<disk, owed>>
           \/ /\ \E q \in FreeBeside(PlaceOf(e)) :
                   disk' \in {WithFile(disk, q, archive[e]),
                             WithFile(Renamed(disk, PlaceOf(e), q), PlaceOf(e), archive[e])}
              /\ chain' = Out(e)
              /\ UNCHANGED owed
        /\ UNCHANGED <<archive, temp, additions, overreach>>
  BY DEF ExtractConflict
<1>2. PICK p : p = PlaceOf(e)
  OBVIOUS
<1>3. PICK data : data = archive[e]
  OBVIOUS
<1>4. /\ MoveTypeOK /\ TreeOf(Values, disk) /\ p \in Paths \ {Root} /\ p \in DOMAIN disk /\ p \in Words
      /\ data \in Values
  BY <1>1, <1>2, <1>3, PlaceIs
<1>5. \A q \in DOMAIN disk : q \in Words
  BY <1>4, PathIsWord DEF TreeOf
<1>6. \A a \in Ancestors(p) : IsDirectory(disk, a) /\ a \in Words /\ Within(a, p) /\ a # p
  BY <1>4, AncestorsAre DEF TreeOf, IsTree
\* Overwritten.
<1>7. ASSUME disk' = WithFile(Without(disk, At(disk, p)), p, data), owed' = owed \ DataAt(disk, p), chain' = Out(e)
      PROVE  Moving'
  <2>1. PICK rest : rest = Without(disk, At(disk, p))
    OBVIOUS
  <2>2. DOMAIN rest = DOMAIN disk \ At(disk, p) /\ \A q \in DOMAIN rest : rest[q] = disk[q]
    BY <2>1 DEF Without
  <2>3. TreeOf(Values, rest)
    <3>1. {} \in Parts(disk, p) /\ At(disk, p) \ {} = At(disk, p)
      BY EmptyPart
    <3>2. rest = Without(disk, At(disk, p) \ {})
      BY <2>1, <3>1
    <3> QED BY <1>4, <3>1, <3>2, WithoutOf
  <2>4. \A q \in DOMAIN disk : q \in At(disk, p) <=> Within(p, q)
    BY DEF At
  <2>5. p \notin DOMAIN rest
    BY <1>4, <2>2, <2>4, WithinItself
  <2>6. \A a \in Ancestors(p) : IsDirectory(rest, a)
    <3>1. \A a \in Ancestors(p) : ~Within(p, a)
      BY <1>4, <1>6, WithinIs, WithinEachOther, LengthOfWord
    <3> QED BY <1>6, <2>2, <2>4, <3>1 DEF IsDirectory
  <2>7. PICK tree : tree = WithFile(rest, p, data)
    OBVIOUS
  <2>8. /\ TreeOf(Values, tree) /\ DOMAIN tree = DOMAIN rest \cup {p} /\ tree[p] = data
        /\ \A q \in DOMAIN rest \ {p} : tree[q] = rest[q]
    BY <1>4, <2>3, <2>5, <2>6, <2>7, WithFileOf DEF IsDirectory
  <2>9. disk' = tree
    BY <1>7, <2>1, <2>7
  <2>10. ASSUME NEW d \in owed', d \in In(disk) PROVE d \in In(disk')
    <3>1. PICK q \in DOMAIN disk : d = disk[q]
      BY <2>10 DEF In
    <3>2. d # Directory
      BY <1>4, <1>7, <2>10, DirectoryIsNoData DEF MoveTypeOK
    <3>3. q \notin At(disk, p)
      BY <1>7, <2>10, <3>1, <3>2 DEF DataAt
    <3>4. q \in DOMAIN tree /\ tree[q] = d
      BY <2>2, <2>5, <2>8, <3>1, <3>3
    <3> QED BY <2>9, <3>4 DEF In
  <2>11. TreeOf(Values, disk') /\ archive[e] \in In(disk') /\ owed' \subseteq owed
    BY <1>3, <1>7, <2>8, <2>9 DEF In
  <2> QED BY <1>1, <1>7, <2>10, <2>11, OutStep
\* Next to it.
<1>8. ASSUME NEW q \in FreeBeside(p), disk' = WithFile(disk, q, data), chain' = Out(e), owed' = owed
      PROVE  Moving'
  <2>1. Beside(p, q) /\ q \in Paths \ {Root} /\ q \notin DOMAIN disk
    BY <1>4, <1>8, FreeBesideIs
  <2>2. \A a \in Ancestors(q) : IsDirectory(disk, a)
    <3>1. \A a \in Words : Within(a, q) /\ a # q => Within(a, p) /\ a # p
      BY <2>1, BesideIs
    <3> QED BY <1>4, <1>6, <2>1, <3>1, PathIsWord, AncestorsAre
  <2>3. PICK tree : tree = WithFile(disk, q, data)
    OBVIOUS
  <2>4. /\ TreeOf(Values, tree) /\ DOMAIN tree = DOMAIN disk \cup {q} /\ tree[q] = data
        /\ \A w \in DOMAIN disk \ {q} : tree[w] = disk[w]
    BY <1>4, <2>1, <2>2, <2>3, WithFileOf DEF IsDirectory
  <2>5. disk' = tree /\ \A w \in DOMAIN disk : w \in DOMAIN tree /\ tree[w] = disk[w]
    BY <1>8, <2>1, <2>3, <2>4
  <2>6. /\ TreeOf(Values, disk') /\ archive[e] \in In(disk')
        /\ \A d \in owed' : d \in In(disk) => d \in In(disk')
    BY <1>3, <2>4, <2>5 DEF In
  <2> QED BY <1>1, <1>8, <2>6, OutStep
\* In its place, what was there is next to it.
<1>9. ASSUME NEW q \in FreeBeside(p), disk' = WithFile(Renamed(disk, p, q), p, data), chain' = Out(e), owed' = owed
      PROVE  Moving'
  <2>1. Beside(p, q) /\ q \in Paths \ {Root} /\ q \notin DOMAIN disk /\ Len(q) = Len(p) /\ Front(q) = Front(p)
    BY <1>4, <1>9, FreeBesideIs
  <2>2. PICK aside : aside = Renamed(disk, p, q)
    OBVIOUS
  <2>3. /\ TreeOf(Values, aside)
        /\ \A w \in DOMAIN disk : ~Within(p, w) => w \in DOMAIN aside /\ aside[w] = disk[w]
        /\ \A w \in DOMAIN disk : Within(p, w) =>
             Rebased(w, p, q) \in DOMAIN aside /\ aside[Rebased(w, p, q)] = disk[w]
    BY <1>4, <2>1, <2>2, RenamedOf
  <2>4. p \notin DOMAIN aside
    <3>1. DOMAIN aside = (DOMAIN disk \ At(disk, p)) \cup {Rebased(s, p, q) : s \in At(disk, p)}
      BY <2>2 DEF Renamed
    <3>2. p \in At(disk, p)
      BY <1>4, WithinItself DEF At
    <3>3. \A s \in At(disk, p) : Within(q, Rebased(s, p, q))
      BY <1>4, <1>5, <2>1, BesideIs, RebasedIs DEF At
    <3>4. ~Within(q, p)
      BY <2>1, BesideIs
    <3> QED BY <3>1, <3>2, <3>3, <3>4
  <2>5. \A a \in Ancestors(p) : IsDirectory(aside, a)
    <3>1. \A a \in Ancestors(p) : ~Within(p, a)
      BY <1>4, <1>6, WithinIs, WithinEachOther, LengthOfWord
    <3> QED BY <1>6, <2>3, <3>1 DEF IsDirectory
  <2>6. PICK tree : tree = WithFile(aside, p, data)
    OBVIOUS
  <2>7. /\ TreeOf(Values, tree) /\ DOMAIN tree = DOMAIN aside \cup {p} /\ tree[p] = data
        /\ \A w \in DOMAIN aside \ {p} : tree[w] = aside[w]
    BY <1>4, <2>3, <2>4, <2>5, <2>6, WithFileOf DEF IsDirectory
  <2>8. disk' = tree
    BY <1>9, <2>2, <2>6
  <2>9. \A w \in DOMAIN disk : \E v \in DOMAIN aside : aside[v] = disk[w]
    BY <2>3
  <2>10. \A w \in DOMAIN disk : \E v \in DOMAIN tree : tree[v] = disk[w]
    BY <2>4, <2>7, <2>9
  <2>11. /\ TreeOf(Values, disk') /\ archive[e] \in In(disk')
         /\ \A d \in owed' : d \in In(disk) => d \in In(disk')
    BY <1>3, <2>7, <2>8, <2>10 DEF In
  <2> QED BY <1>1, <1>9, <2>11, OutStep
<1>10. ASSUME chain' = [chain EXCEPT !.todo = @ \ {e}], UNCHANGED <<disk, owed>> PROVE Moving'
  BY <1>1, <1>10, SkipStep
<1> QED BY <1>1, <1>2, <1>3, <1>7, <1>8, <1>9, <1>10

-----------------------------------------------------------------------------
(* What goes into the archive.                                             *)

\* A source goes right below the folder, under its own name.
LEMMA UnderItsName ==
  ASSUME NEW s \in Words, s # Root, NEW r \in Words
  PROVE  /\ Append(r, Last(s)) \in Words /\ Len(Append(r, Last(s))) = Len(r) + 1
         /\ Append(r, Last(s))[Len(r) + 1] = Last(s)
         /\ Rebased(s, Front(s), r) = Append(r, Last(s))
<1>1. /\ Front(s) \in Words /\ Len(s) \in Nat \ {0} /\ Len(Front(s)) = Len(s) - 1 /\ Len(r) \in Nat
      /\ Within(Front(s), s)
  BY FrontIs, LengthOfWord
<1>2. PICK n \in Nat : n = Len(s) - 1
  BY <1>1
<1>3. PICK rest : rest = SubSeq(s, n + 1, Len(s))
  OBVIOUS
<1>4. rest \in Words /\ Len(rest) = 1 /\ rest[1] = s[Len(s)]
  <2>1. n \in 0..Len(s) /\ Len(s) - n = 1 /\ n + 1 = Len(s)
    BY <1>1, <1>2
  <2>2. rest \in Words /\ Len(rest) = Len(s) - n /\ \A i \in 1..Len(s) - n : rest[i] = s[n + i]
    BY <1>3, <2>1, RestIs
  <2> QED BY <2>1, <2>2
<1>5. s[Len(s)] \in Names \cup {torn, other} /\ Last(s) = s[Len(s)]
  BY <1>1, ElementOfSeq DEF Words, Last
<1>6. PICK last \in Names \cup {torn, other} : last = Last(s)
  BY <1>5
<1>7. PICK x : x = Append(r, last)
  OBVIOUS
<1>8. x \in Words /\ Len(x) = Len(r) + 1 /\ x[Len(r) + 1] = last /\ \A i \in 1..Len(r) : x[i] = r[i]
  BY <1>1, <1>7, AppendProperties DEF Words
<1>9. PICK w : w = r \o rest
  OBVIOUS
<1>10. /\ w \in Words /\ Len(w) = Len(r) + 1
       /\ \A i \in 1..Len(r) + 1 : w[i] = IF i <= Len(r) THEN r[i] ELSE rest[i - Len(r)]
  <2>1. /\ w \in Words /\ Len(w) = Len(r) + Len(rest)
        /\ \A i \in 1..Len(r) + Len(rest) : w[i] = IF i <= Len(r) THEN r[i] ELSE rest[i - Len(r)]
    BY <1>4, <1>9, ConcatProperties DEF Words
  <2> QED BY <1>4, <2>1
<1>11. \A i \in 1..Len(r) + 1 : x[i] = w[i]
  <2>1. ASSUME NEW i \in 1..Len(r) + 1, i <= Len(r) PROVE x[i] = w[i]
    BY <1>1, <1>8, <1>10, <2>1
  <2>2. w[Len(r) + 1] = rest[1]
    BY <1>1, <1>10
  <2>3. x[Len(r) + 1] = w[Len(r) + 1]
    BY <1>4, <1>5, <1>6, <1>8, <2>2
  <2> QED BY <1>1, <2>1, <2>3
<1>12. x = w
  BY <1>8, <1>10, <1>11, WordsEqual
<1>13. Rebased(s, Front(s), r) = w
  BY <1>1, <1>2, <1>3, <1>9 DEF Rebased
<1> QED BY <1>6, <1>7, <1>8, <1>12, <1>13

\* What a source becomes is below its name, and comes back from there.
LEMMA SourceGoes ==
  ASSUME NEW s \in Words, s # Root, NEW r \in Words, NEW p \in Words, Within(s, p)
  PROVE  /\ Front(s) \in Words /\ Within(Front(s), p)
         /\ Rebased(p, Front(s), r) \in Words /\ Rebased(p, Front(s), r) # Root
         /\ Rebased(Rebased(p, Front(s), r), r, Front(s)) = p
         /\ Within(Append(r, Last(s)), Rebased(p, Front(s), r))
<1>1. PICK f : f = Front(s)
  OBVIOUS
<1>2. f \in Words /\ Within(f, s) /\ f # s
  BY <1>1, FrontIs
<1>3. Within(f, p)
  BY <1>2, WithinWithin
<1>4. PICK w : w = Rebased(p, f, r)
  OBVIOUS
<1>5. w \in Words /\ Rebased(w, r, f) = p
  BY <1>2, <1>3, <1>4, RebasedIs
<1>6. PICK x : x = Append(r, Last(s))
  OBVIOUS
<1>7. x \in Words /\ Len(x) = Len(r) + 1 /\ Rebased(s, f, r) = x
  BY <1>1, <1>6, UnderItsName
<1>8. Within(x, w)
  <2>1. Within(Rebased(s, f, r), Rebased(p, f, r))
    BY <1>2, RebasedWithin
  <2> QED BY <1>4, <1>7, <2>1
<1>9. w # Root
  <2>1. Len(x) <= Len(w) /\ Len(r) \in Nat
    BY <1>5, <1>7, <1>8, WithinIs, LengthOfWord
  <2> QED BY <1>7, <2>1, RootIsWord
<1> QED BY <1>1, <1>2, <1>3, <1>4, <1>5, <1>6, <1>8, <1>9

\* It tells which source that was.
LEMMA SameSource ==
  ASSUME NEW s \in Words, s # Root, NEW t \in Words, t # Root, NEW r \in Words, NEW w \in Words,
         Within(Append(r, Last(s)), w), Within(Append(r, Last(t)), w)
  PROVE  SameName(s, t)
<1>1. PICK x : x = Append(r, Last(s))
  OBVIOUS
<1>2. PICK y : y = Append(r, Last(t))
  OBVIOUS
<1>3. /\ x \in Words /\ y \in Words /\ Len(x) = Len(r) + 1 /\ Len(y) = Len(r) + 1 /\ Len(r) \in Nat
      /\ x[Len(r) + 1] = Last(s) /\ y[Len(r) + 1] = Last(t)
  BY <1>1, <1>2, UnderItsName, LengthOfWord
<1>4. Within(x, y) \/ Within(y, x)
  BY <1>1, <1>2, <1>3, WithinBoth
<1>5. x = y
  BY <1>3, <1>4, WithinEachOther
<1> QED BY <1>3, <1>5 DEF SameName

Chosen(q) == CHOOSE s \in chain.todo : Within(Append(chain.target, Last(s)), q)
Places == UNION {{Rebased(p, Front(s), chain.target) : p \in At(disk, s)} : s \in chain.todo}
FromSources == [q \in Places |-> disk[Rebased(q, chain.target, Front(Chosen(q)))]]

LEMMA FromSourcesIs ==
  ASSUME MoveTypeOK, ToBeAdded, NEW core, core = FromSources
  PROVE  /\ Held(core)
         /\ \A s \in chain.todo : \A p \in At(disk, s) :
              Rebased(p, Front(s), chain.target) \in DOMAIN core /\ core[Rebased(p, Front(s), chain.target)] = disk[p]
<1>1. PICK r : r = chain.target
  OBVIOUS
<1>2. r \in Words /\ TreeOf(Values, disk)
  BY <1>1, MoveTypes, ChainIs, PathIsWord
<1>3. \A s \in chain.todo : s \in Words /\ s # Root
  BY PathIsWord DEF ToBeAdded, MoveTypeOK
<1>4. \A q \in DOMAIN disk : q \in Words
  BY PathIsWord DEF MoveTypeOK
<1>5. \A s \in chain.todo : \A p : p \in At(disk, s) <=> p \in DOMAIN disk /\ Within(s, p)
  BY DEF At
<1>6. ASSUME NEW s \in chain.todo, NEW p \in At(disk, s)
      PROVE  /\ Front(s) \in Words /\ Within(Front(s), p) /\ p \in Words
             /\ Rebased(p, Front(s), r) \in Words /\ Rebased(p, Front(s), r) # Root
             /\ Rebased(p, Front(s), r) \in Paths
             /\ Rebased(Rebased(p, Front(s), r), r, Front(s)) = p
             /\ Within(Append(r, Last(s)), Rebased(p, Front(s), r))
  <2>1. s \in Words /\ s # Root /\ p \in Words /\ Within(s, p)
    BY <1>3, <1>4, <1>5
  <2>2. Rebased(p, Front(s), r) \in Paths
    BY <1>1 DEF ToBeAdded
  <2> QED BY <1>2, <2>1, <2>2, SourceGoes
<1>7. ASSUME NEW s \in chain.todo, NEW t \in chain.todo, NEW w \in Words,
             Within(Append(r, Last(s)), w), Within(Append(r, Last(t)), w)
      PROVE  s = t
  <2>1. SameName(s, t)
    BY <1>2, <1>3, <1>7, SameSource
  <2> QED BY <2>1 DEF ToBeAdded
<1>8. /\ DOMAIN core = Places
      /\ \A q \in DOMAIN core : core[q] = disk[Rebased(q, r, Front(Chosen(q)))]
  BY <1>1 DEF FromSources
<1>9. \A q : q \in Places <=> \E s \in chain.todo : \E p \in At(disk, s) : q = Rebased(p, Front(s), r)
  BY <1>1 DEF Places
<1>10. ASSUME NEW s \in chain.todo, NEW p \in At(disk, s)
       PROVE  Rebased(p, Front(s), r) \in DOMAIN core /\ core[Rebased(p, Front(s), r)] = disk[p]
  <2>1. PICK w : w = Rebased(p, Front(s), r)
    OBVIOUS
  <2>2. w \in Words /\ Within(Append(r, Last(s)), w) /\ Rebased(w, r, Front(s)) = p
    BY <1>6, <2>1
  <2>3. Chosen(w) \in chain.todo /\ Within(Append(r, Last(Chosen(w))), w)
    <3>1. \E t \in chain.todo : Within(Append(chain.target, Last(t)), w)
      BY <1>1, <2>2
    <3> QED BY <1>1, <3>1 DEF Chosen
  <2>4. Chosen(w) = s
    BY <1>7, <2>2, <2>3
  <2>5. w \in DOMAIN core
    BY <1>8, <1>9, <2>1
  <2> QED BY <1>8, <2>1, <2>2, <2>4, <2>5
<1>11. ASSUME NEW q \in DOMAIN core, NEW a \in DOMAIN core, Within(a, q), a # q PROVE core[a] = Directory
  <2>1. PICK s \in chain.todo : \E p \in At(disk, s) : q = Rebased(p, Front(s), r)
    BY <1>8, <1>9
  <2>2. PICK p \in At(disk, s) : q = Rebased(p, Front(s), r)
    BY <2>1
  <2>3. PICK t \in chain.todo : \E b \in At(disk, t) : a = Rebased(b, Front(t), r)
    BY <1>8, <1>9
  <2>4. PICK b \in At(disk, t) : a = Rebased(b, Front(t), r)
    BY <2>3
  <2>5. q \in Words /\ Within(Append(r, Last(s)), q) /\ a \in Words /\ Within(Append(r, Last(t)), a)
    BY <1>6, <2>2, <2>4
  <2>6. Append(r, Last(t)) \in Words
    BY <1>2, <1>3, UnderItsName
  <2>7. Within(Append(r, Last(t)), q)
    BY <1>11, <2>5, <2>6, WithinWithin
  <2>8. s = t
    BY <1>7, <2>5, <2>7
  <2>9. Within(b, p) /\ b # p
    <3>1. PICK f : f = Front(s)
      OBVIOUS
    <3>2. f \in Words /\ Within(f, p) /\ p \in Words /\ Within(f, b) /\ b \in Words
      BY <1>6, <2>8, <3>1
    <3>3. q = Rebased(p, f, r) /\ a = Rebased(b, f, r)
      BY <2>2, <2>4, <2>8, <3>1
    <3> QED BY <1>2, <1>11, <3>2, <3>3, RebasedOrder
  <2>10. p \in DOMAIN disk /\ b \in Words
    BY <1>4, <1>5, <2>8
  <2>11. disk[b] = Directory
    BY <1>2, <2>9, <2>10, AboveInTree
  <2> QED BY <1>10, <2>4, <2>11
<1>12. Held(core)
  <2>1. Root \notin DOMAIN core /\ DOMAIN core \subseteq Paths
    BY <1>6, <1>8, <1>9
  <2>2. ASSUME NEW q \in DOMAIN core PROVE core[q] \in Values
    <3>1. PICK s \in chain.todo : \E p \in At(disk, s) : q = Rebased(p, Front(s), r)
      BY <1>8, <1>9
    <3>2. PICK p \in At(disk, s) : q = Rebased(p, Front(s), r)
      BY <3>1
    <3>3. disk[p] \in Values
      BY <1>2, <1>5 DEF TreeOf
    <3> QED BY <1>10, <3>2, <3>3
  <2> QED BY <1>11, <2>1, <2>2, HeldIf
<1> QED BY <1>1, <1>10, <1>12

LEMMA AddSourcesStep == ASSUME Moving, AddSources PROVE Moving'
<1>1. /\ chain.op = "in" /\ chain.stage = "add" /\ Added(Sources)
      /\ chain' = IF chain.move THEN [chain EXCEPT !.stage = "unmove", !.doomed = chain.selection]
                  ELSE [chain EXCEPT !.stage = "over"]
      /\ UNCHANGED <<disk, temp, additions, overreach>>
  BY DEF AddSources, During
<1>2. MoveTypeOK /\ MoveLosesNothing /\ Held(temp) /\ TreeOf(Values, disk)
      /\ (chain.move = TRUE \/ chain.move = FALSE)
  BY MoveTypes, ChainIs DEF Moving
<1>3. ToBeAdded /\ \A q \in DOMAIN disk : disk[q] \in {Directory, Outer(q)}
  BY <1>1 DEF Moving, IntoArchive
<1>4. PICK core : core = FromSources
  OBVIOUS
<1>5. /\ Held(core)
      /\ \A s \in chain.todo : \A p \in At(disk, s) :
           Rebased(p, Front(s), chain.target) \in DOMAIN core /\ core[Rebased(p, Front(s), chain.target)] = disk[p]
  BY <1>2, <1>3, <1>4, FromSourcesIs
<1>6. PICK tree : tree = WithFolders(core)
  OBVIOUS
<1>7. Held(tree) /\ \A q \in DOMAIN core : q \in DOMAIN tree /\ tree[q] = core[q]
  BY <1>5, <1>6, WithFoldersIs
<1>8. Added(tree)
  <2>1. Sources = WithFolders(FromSources)
    BY DEF Sources, FromSources, Places, Chosen
  <2> QED BY <1>1, <1>4, <1>6, <2>1
<1>9. /\ Held(archive')
      /\ \A q \in DOMAIN tree : q \in DOMAIN archive' /\ archive'[q] = tree[q]
      /\ owed' \subseteq owed /\ owed' \subseteq In(archive') \cup In(disk) \cup overreach
  BY <1>2, <1>7, <1>8, AddedIs
<1>10. ASSUME chain' \in MoveType PROVE MoveTypeOK' /\ MoveLosesNothing'
  <2>1. owed' \subseteq AllData /\ overreach' \subseteq AllData /\ additions' \in 0..MaxAdditions
    BY <1>1, <1>2, <1>9 DEF MoveTypeOK
  <2>2. MoveTypeOK'
    BY <1>1, <1>2, <1>9, <1>10, <2>1, MoveTypesNext
  <2> QED BY <1>1, <1>9, <2>2, NothingLostNext
<1>11. CASE chain.move = FALSE
  <2>1. chain' = [chain EXCEPT !.stage = "over"]
    BY <1>1, <1>11
  <2>2. chain' \in MoveType /\ chain'.move = FALSE
    BY <1>2, <1>11, <2>1 DEF MoveTypeOK, MoveType
  <2>3. MovedIsGone'
    BY <2>2 DEF MovedIsGone
  <2> QED BY <1>1, <1>10, <2>1, <2>2, <2>3, OverStep
<1>12. CASE chain.move = TRUE
  <2>1. chain' = [chain EXCEPT !.stage = "unmove", !.doomed = chain.selection]
    BY <1>1, <1>12
  <2>2. /\ chain' \in MoveType /\ chain'.op = "in" /\ chain'.stage = "unmove"
        /\ chain'.doomed = chain.selection /\ chain'.todo = chain.todo
    BY <1>1, <1>2, <2>1 DEF MoveTypeOK, MoveType
  <2>3. ToBeRemoved'
    <3>1. chain.selection \subseteq Paths \ {Root} /\ chain.todo \subseteq chain.selection
      BY <1>2, <1>3 DEF ToBeAdded, MoveTypeOK
    <3>2. ASSUME NEW s \in chain.todo, NEW p \in At(disk, s) PROVE disk[p] \in In(archive')
      <4>1. PICK w : w = Rebased(p, Front(s), chain.target)
        OBVIOUS
      <4>2. w \in DOMAIN core /\ core[w] = disk[p]
        BY <1>5, <4>1
      <4>3. w \in DOMAIN archive' /\ archive'[w] = disk[p]
        BY <1>7, <1>9, <4>2
      <4> QED BY <4>3 DEF In
    <3> QED BY <1>1, <2>2, <3>1, <3>2 DEF ToBeRemoved
  <2>4. IntoArchive'
    BY <1>1, <1>3, <2>2, <2>3 DEF IntoArchive
  <2>5. MovedIsGone' /\ Chained' /\ OutOfArchive' /\ WithinArchive'
    BY <2>2 DEF MovedIsGone, Chained, OutOfArchive, WithinArchive
  <2> QED BY <1>10, <2>2, <2>4, <2>5 DEF Moving
<1> QED BY <1>2, <1>11, <1>12

LEMMA RemoveSourceStep == ASSUME Moving, RemoveSource PROVE Moving'
<1>1. PICK s \in chain.doomed :
        /\ During({"in"}, "unmove")
        /\ \E part \in Parts(disk, s) : disk' = Without(disk, At(disk, s) \ part)
        /\ chain' = IF s \in DOMAIN disk' THEN [chain EXCEPT !.stage = "failed"]
                    ELSE [chain EXCEPT !.doomed = @ \ {s}]
        /\ overreach' = IF \E p \in chain.todo : Within(p, s) THEN overreach
                        ELSE overreach \cup {Outer(q) : q \in At(disk, s) \ DOMAIN disk'}
        /\ UNCHANGED <<archive, temp, additions, owed>>
  BY DEF RemoveSource
<1>2. PICK part \in Parts(disk, s) : disk' = Without(disk, At(disk, s) \ part)
  BY <1>1
<1>3. /\ chain.op = "in" /\ chain.stage = "unmove" /\ ToBeRemoved
      /\ \A q \in DOMAIN disk : disk[q] \in {Directory, Outer(q)}
  BY <1>1 DEF During, Moving, IntoArchive
<1>4. MoveTypeOK /\ Held(archive) /\ Held(temp) /\ TreeOf(Values, disk) /\ s \in Paths \ {Root} /\ s \in Words
  BY <1>3, MoveTypes, PathIsWord DEF Moving, ToBeRemoved
<1>5. PICK tree : tree = Without(disk, At(disk, s) \ part)
  OBVIOUS
<1>6. /\ TreeOf(Values, tree) /\ DOMAIN tree \subseteq DOMAIN disk
      /\ \A q \in DOMAIN tree : tree[q] = disk[q]
      /\ \A q \in DOMAIN disk : ~Within(s, q) => q \in DOMAIN tree
  BY <1>4, <1>5, WithoutOf
<1>7. disk' = tree
  BY <1>2, <1>5
<1>8. \A q \in DOMAIN disk : q \in Paths /\ q \in Words
  BY <1>4, PathIsWord DEF TreeOf
<1>9. overreach' \subseteq AllData /\ overreach \subseteq overreach'
  <2>1. \A q \in At(disk, s) : Outer(q) \in AllData
    BY <1>8 DEF At, AllData
  <2> QED BY <1>1, <1>4, <2>1 DEF MoveTypeOK
<1>10. ASSUME chain' \in MoveType PROVE MoveTypeOK' /\ MoveLosesNothing'
  <2>1. MoveTypeOK'
    BY <1>1, <1>4, <1>6, <1>7, <1>9, <1>10, MoveTypesNext DEF MoveTypeOK
  <2>2. owed \subseteq In(archive) \cup In(disk) \cup overreach /\ owed \subseteq AllData
    BY NothingLostNow DEF Moving, MoveTypeOK
  <2>3. ASSUME NEW q \in DOMAIN disk, disk[q] \in owed
        PROVE  disk[q] \in In(archive) \cup In(disk') \cup overreach'
    <3>1. CASE q \in DOMAIN tree
      BY <1>6, <1>7, <3>1 DEF In
    <3>2. CASE q \notin DOMAIN tree
      <4>1. Within(s, q) /\ q \in At(disk, s)
        BY <1>6, <3>2 DEF At
      <4>2. disk[q] = Outer(q)
        BY <1>3, <2>2, <2>3, DirectoryIsNoData
      <4>3. ASSUME NEW p \in chain.todo, Within(p, s) PROVE disk[q] \in In(archive)
        <5>1. p \in Words
          BY <1>4, ChainIs, PathIsWord
        <5>2. q \in At(disk, p)
          BY <1>4, <1>8, <4>1, <4>3, <5>1, WithinWithin DEF At
        <5> QED BY <1>3, <2>3, <5>2 DEF ToBeRemoved
      <4>4. CASE ~\E p \in chain.todo : Within(p, s)
        BY <1>1, <1>7, <3>2, <4>1, <4>2, <4>4
      <4> QED BY <4>3, <4>4
    <3> QED BY <3>1, <3>2
  <2>4. owed' \subseteq In(archive') \cup In(disk') \cup overreach'
    <3>1. ASSUME NEW d \in owed, d \in In(disk) PROVE d \in In(archive) \cup In(disk') \cup overreach'
      BY <2>3, <3>1 DEF In
    <3> QED BY <1>1, <1>9, <2>2, <3>1
  <2> QED BY <2>1, <2>4, NothingLostNext
<1>11. \A q \in DOMAIN disk' : disk'[q] \in {Directory, Outer(q)}
  BY <1>3, <1>6, <1>7
<1>12. CASE s \in DOMAIN disk'
  <2>1. chain' = [chain EXCEPT !.stage = "failed"]
    BY <1>1, <1>12
  <2>2. chain' \in MoveType /\ chain'.op = "in" /\ chain'.stage = "failed"
    BY <1>3, <1>4, <2>1 DEF MoveTypeOK, MoveType
  <2>3. MovedIsGone' /\ Chained' /\ OutOfArchive' /\ WithinArchive' /\ IntoArchive'
    BY <1>11, <2>2 DEF MovedIsGone, Chained, OutOfArchive, WithinArchive, IntoArchive
  <2> QED BY <1>10, <2>2, <2>3 DEF Moving
<1>13. CASE s \notin DOMAIN disk'
  <2>1. PICK doomed : doomed = chain.doomed \ {s}
    OBVIOUS
  <2>2. chain' = [chain EXCEPT !.doomed = doomed] /\ doomed \subseteq Paths
    BY <1>1, <1>4, <1>13, <2>1, ChainIs
  <2>3. /\ chain' \in MoveType /\ chain'.op = "in" /\ chain'.stage = "unmove"
        /\ chain'.doomed = doomed /\ chain'.todo = chain.todo
    BY <1>3, <1>4, <2>2 DEF MoveTypeOK, MoveType
  <2>4. ToBeRemoved'
    <3>1. doomed \subseteq Paths \ {Root}
      BY <1>3, <2>1 DEF ToBeRemoved
    <3>2. \A t \in chain.todo : t \in doomed \/ t \notin DOMAIN disk'
      BY <1>3, <1>6, <1>7, <1>13, <2>1 DEF ToBeRemoved
    <3>3. \A t \in chain.todo : \A q \in At(disk', t) : disk'[q] \in owed => disk'[q] \in In(archive)
      BY <1>3, <1>6, <1>7 DEF ToBeRemoved, At
    <3> QED BY <1>1, <2>3, <3>1, <3>2, <3>3 DEF ToBeRemoved
  <2>5. IntoArchive'
    BY <1>11, <2>3, <2>4 DEF IntoArchive
  <2>6. MovedIsGone' /\ Chained' /\ OutOfArchive' /\ WithinArchive'
    BY <2>3 DEF MovedIsGone, Chained, OutOfArchive, WithinArchive
  <2> QED BY <1>10, <2>3, <2>5, <2>6 DEF Moving
<1> QED BY <1>12, <1>13

-----------------------------------------------------------------------------
(* The behaviours of a move.                                               *)

LEMMA InitMoves == MoveInit => Moving
<1> SUFFICES ASSUME MoveInit PROVE Moving
  OBVIOUS
<1>1. PICK entries \in SUBSET (Paths \ {Root}), exist \in SUBSET (Paths \ {Root}) :
        \E d1 \in SUBSET entries, d2 \in SUBSET exist :
          /\ archive = [p \in entries |-> IF p \in d1 THEN Directory ELSE p]
          /\ disk = [p \in exist \cup {Root} |-> IF p \in d2 \cup {Root} THEN Directory ELSE Outer(p)]
  BY DEF MoveInit
<1>2. PICK d1 \in SUBSET entries, d2 \in SUBSET exist :
        /\ archive = [p \in entries |-> IF p \in d1 THEN Directory ELSE p]
        /\ disk = [p \in exist \cup {Root} |-> IF p \in d2 \cup {Root} THEN Directory ELSE Outer(p)]
  BY <1>1
<1>3. /\ IsArchive(archive) /\ IsTree(disk) /\ temp = Empty /\ chain = NoMove /\ additions = 0
      /\ owed = DataIn(archive) \cup DataIn(disk) /\ overreach = {}
  BY DEF MoveInit
<1>4. DOMAIN archive = entries /\ \A p \in entries : archive[p] \in {Directory, p}
  BY <1>2
<1>5. DOMAIN disk = exist \cup {Root} /\ \A p \in DOMAIN disk : disk[p] \in {Directory, Outer(p)}
  BY <1>2
<1>6. \A p \in entries : p \in AllData /\ p # Other
  BY <1>1, NoPathIsOther DEF AllData, Data
<1>7. \A p \in exist \cup {Root} : p \in Paths /\ Outer(p) \in AllData
  BY <1>1, RootIsPath DEF AllData
<1>8. Held(archive)
  BY <1>1, <1>3, <1>4, <1>6 DEF Held, Values
<1>9. TreeOf(Values, disk)
  BY <1>3, <1>5, <1>7 DEF TreeOf, Values
<1>10. DOMAIN temp = {} /\ Held(temp)
  <2>1. DOMAIN temp = {}
    BY <1>3 DEF Empty
  <2> QED BY <2>1 DEF Held, IsArchive
<1>11. owed \subseteq AllData
  <2>1. DataIn(archive) = In(archive) \ {Directory} /\ DataIn(disk) = In(disk) \ {Directory}
    BY <1>1, <1>4, <1>5, <1>7, DataInIs DEF In
  <2> QED BY <1>3, <1>4, <1>5, <1>6, <1>7, <2>1 DEF In
<1>12. MoveTypeOK
  <2>1. chain \in MoveType
    BY <1>3, RootIsPath DEF NoMove, MoveType
  <2>2. \A tree \in {archive, disk, temp} : \A p \in DOMAIN tree : tree[p] \in AllData \cup {Directory}
    BY <1>8, <1>9, <1>10 DEF Held, TreeOf, Values
  <2> QED BY <1>3, <1>8, <1>9, <1>10, <1>11, <2>1, <2>2, ArchiveMoveAssumption DEF MoveTypeOK, Held, TreeOf
<1>13. MoveLosesNothing
  BY <1>3 DEF MoveLosesNothing
<1>14. Other \notin In(archive)
  BY <1>4, <1>6, DirectoryIsNoData, OtherIsData DEF In
<1>15. MovedIsGone /\ Chained /\ OutOfArchive /\ WithinArchive
  BY <1>3, <1>14 DEF NoMove, MovedIsGone, Chained, OutOfArchive, WithinArchive
<1>16. IntoArchive
  BY <1>3, <1>5 DEF NoMove, IntoArchive
<1> QED BY <1>12, <1>13, <1>15, <1>16 DEF Moving

LEMMA SameStep ==
  ASSUME Moving, UNCHANGED moveVars
  PROVE  Moving'
<1>1. UNCHANGED <<archive, disk, temp, chain, additions, owed, overreach>>
  BY DEF moveVars
<1>2. MoveTypeOK' /\ MoveLosesNothing'
  BY <1>1 DEF Moving, MoveTypeOK, MoveLosesNothing, IsArchive, IsTree
<1>3. MovedIsGone' /\ Chained'
  BY <1>1 DEF Moving, MovedIsGone, Chained
<1>4. OutOfArchive'
  BY <1>1 DEF Moving, OutOfArchive, Reported
<1>5. WithinArchive'
  <2>1. ASSUME NEW row \in Paths, Staged(row) PROVE Staged(row)'
    BY <1>1, <2>1 DEF Staged, Reported
  <2>2. ASSUME NEW row \in Paths, Doubled(row) PROVE Doubled(row)'
    BY <1>1, <2>2 DEF Doubled, Reported
  <2> QED BY <1>1, <2>1, <2>2 DEF Moving, WithinArchive
<1>6. IntoArchive'
  BY <1>1 DEF Moving, IntoArchive, ToBeAdded, ToBeRemoved
<1> QED BY <1>2, <1>3, <1>4, <1>5, <1>6 DEF Moving

LEMMA NextMoves == Moving /\ [MoveNext]_moveVars => Moving'
<1> SUFFICES ASSUME Moving, [MoveNext]_moveVars PROVE Moving'
  OBVIOUS
<1>1. CASE Requests
  BY <1>1, RequestsStep
<1>2. CASE Fails
  BY <1>2, FailsStep
<1>3. CASE ExtractDirectory \/ ExtractFile \/ ExtractConflict \/ Extracted
  BY <1>3, ExtractDirectoryStep, ExtractFileStep, ExtractConflictStep, ExtractedStep
<1>4. CASE ExtractToTemp \/ AddCopy
  BY <1>4, ExtractToTempStep, AddCopyStep
<1>5. CASE AddSources \/ RemoveSource \/ SourcesRemoved
  BY <1>5, AddSourcesStep, RemoveSourceStep, SourcesRemovedStep
<1>6. CASE RenameEntry \/ DeleteFromArchive
  BY <1>6, RenameEntryStep, DeleteFromArchiveStep
<1>7. CASE OtherAdds
  BY <1>7, OtherAddsStep
<1>8. CASE UNCHANGED moveVars
  BY <1>8, SameStep
<1> QED BY <1>1, <1>2, <1>3, <1>4, <1>5, <1>6, <1>7, <1>8 DEF MoveNext

\* The invariant of the moves: what a chain reported is where it came from and where
\* it went, whatever other tasks add meanwhile, until its last task is over.
THEOREM MoveInvariant == MoveSpec => []Moving
<1>1. Moving /\ [MoveNext]_moveVars => Moving'
  BY NextMoves
<1> QED BY InitMoves, <1>1, PTL DEF MoveSpec

\* The variables of ArchiveMove have their types: the archive and the temporary
\* directory have no entry below a file, the file system is a tree.
THEOREM MoveTypeCorrect == MoveSpec => []MoveTypeOK
<1>1. Moving => MoveTypeOK
  BY DEF Moving
<1> QED BY MoveInvariant, <1>1, PTL

\* However a move is interleaved with other tasks and wherever it fails, the data of
\* every entry and file is in the archive or on disk, unless it was to be overwritten
\* or deleted, or is of those that a move deletes though it did not transfer them.
THEOREM MovesLoseNothing == MoveSpec => []MoveLosesNothing
<1>1. Moving => MoveLosesNothing
  BY DEF Moving
<1> QED BY MoveInvariant, <1>1, PTL

\* A move that ended has moved: no file that it took out is left in the archive, and
\* no source that it took in is left on disk.
THEOREM MovesMove == MoveSpec => []MovedIsGone
<1>1. Moving => MovedIsGone
  BY DEF Moving
<1> QED BY MoveInvariant, <1>1, PTL
=============================================================================
