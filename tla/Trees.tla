------------------------------- MODULE Trees -------------------------------
(***************************************************************************)
(* Trees of files: the folders of a file system, the entries of an         *)
(* archive.  A tree is a function from the paths that exist to what is     *)
(* there, a directory or the data of a file; its root is the path <<>>.    *)
(* Data is named by the path it had in the beginning.                      *)
(***************************************************************************)
EXTENDS Integers, Sequences, SequencesExt

CONSTANTS Names,     \* the names of files and directories
          MaxDepth,  \* bound: the length of a path
          torn,      \* the name of data that was written in part
          other      \* the name of data that another program wrote

ASSUME TreesAssumption == MaxDepth \in Nat /\ torn \notin Names /\ other \notin Names

Root == <<>>
Paths == UNION {[1..n -> Names] : n \in 0..MaxDepth}
NoPath == Root  \* never the path of a file, of a source or of a destination

Directory == Root
Torn == <<torn>>
Other == <<other>>
Data == (Paths \ {Root}) \cup {Torn, Other}

Within(p, q) == IsPrefix(p, q)
At(tree, p) == {q \in DOMAIN tree : Within(p, q)}
DataAt(tree, p) == {tree[q] : q \in At(tree, p)} \ {Directory}
DataIn(tree) == DataAt(tree, Root)
Ancestors(p) == {SubSeq(p, 1, n) : n \in 0..Len(p) - 1}
IsDirectory(tree, p) == p \in DOMAIN tree /\ tree[p] = Directory
IsTree(tree) ==
  Root \in DOMAIN tree /\ \A p \in DOMAIN tree : \A a \in Ancestors(p) : IsDirectory(tree, a)
\* The path q, which is within p, when p is moved to r.
Rebased(q, p, r) == r \o SubSeq(q, Len(p) + 1, Len(q))

Without(tree, gone) == [q \in DOMAIN tree \ gone |-> tree[q]]
WithFile(tree, p, data) == [q \in DOMAIN tree \cup {p} |-> IF q = p THEN data ELSE tree[q]]
Renamed(tree, p, r) ==
  [q \in (DOMAIN tree \ At(tree, p)) \cup {Rebased(s, p, r) : s \in At(tree, p)} |->
     IF Within(r, q) THEN tree[Rebased(q, r, p)] ELSE tree[q]]

\* Some of what is at p of a tree, put into another one at r.
WithPart(tree, part, from, p, r) ==
  [q \in DOMAIN tree \cup {Rebased(s, p, r) : s \in part} |->
     IF q \in DOMAIN tree THEN tree[q] ELSE from[Rebased(q, r, p)]]

\* Parts of what is at p that contain their directories: what may be there of a
\* copy that stopped, and what may be left by a removal that stopped.
Parts(tree, p) ==
  {part \in SUBSET At(tree, p) : \A q \in part : \A a \in Ancestors(q) : Within(p, a) => a \in part}

CanHold(tree, p) == \A a \in Ancestors(p) : a \in DOMAIN tree => tree[a] = Directory
WithParents(tree, p) ==
  [q \in DOMAIN tree \cup Ancestors(p) |-> IF q \in DOMAIN tree THEN tree[q] ELSE Directory]
=============================================================================
