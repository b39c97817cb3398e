----------------------------- MODULE WorkingCopy -----------------------------
(***************************************************************************)
(* A working copy as the reviewed operations of crates/git-core/src/work   *)
(* see it: trees of a few paths, the rows of git status, the guard that    *)
(* keeps local files out of an operation's way, and what Git then writes.  *)
(*                                                                         *)
(* A path is the sequence of its names, so that a file may stand where a   *)
(* directory is wanted.  A tree maps each path to its content or Absent.   *)
(* Git's own part is external and taken at its worst: it writes every path *)
(* it was asked to and removes whatever stands in the way.                 *)
(***************************************************************************)
EXTENDS Naturals, Sequences, FiniteSets, SequencesExt

CONSTANTS
  Paths,        \* the paths of the instance, sequences of names
  Texts,        \* contents of a file
  Absent,       \* there is no file
  Markers,      \* a file with conflict markers
  None,         \* no original path, no operation
  Ignored       \* the paths git status does not list unless tracked

WorkingCopyAssumption ==
  /\ Absent \notin Texts /\ Markers \notin Texts /\ Absent # Markers
  /\ Paths \subseteq Seq(STRING) \ {<<>>} /\ Ignored \subseteq Paths

FilesOf(t) == {p \in Paths : t[p] # Absent}

\* No file lies below another file.
WellFormed(t) == \A p, q \in FilesOf(t) : ~IsStrictPrefix(p, q)

Trees == {t \in [Paths -> Texts \cup {Absent}] : WellFormed(t)}

\* What a person, a program or a merge may leave.
MarkedTrees == {t \in [Paths -> Texts \cup {Absent, Markers}] : WellFormed(t)}

EmptyTree == [p \in Paths |-> Absent]

\* The files after a person or a program wrote or removed one of them.
Edits(work) ==
  {t \in {[work EXCEPT ![p] = c] : p \in Paths, c \in Texts \cup {Absent}} :
     t # work /\ WellFormed(t)}

\* No operation is reviewed.
NoPlan == [kind |-> "none"]

Changes(old, new) == {p \in Paths : old[p] # new[p]}

Related(p, q) == IsPrefix(p, q) \/ IsPrefix(q, p)

-----------------------------------------------------------------------------
(* git status --untracked-files=all of a head, an index and the files.     *)

Staged(head, index) == Changes(head, index)

Unstaged(index, work) == FilesOf(index) \cap Changes(index, work)

Untracked(index, work) == (FilesOf(work) \ FilesOf(index)) \ Ignored

Listed(head, index, work) ==
  Staged(head, index) \cup Unstaged(index, work) \cup Untracked(index, work)

\* Work only the files hold: what differs from the last commit, or was never
\* tracked.
Local(head, work) == {p \in FilesOf(work) : work[p] # head[p]}

-----------------------------------------------------------------------------
IsDirectory(work, p) == \E q \in FilesOf(work) : IsStrictPrefix(p, q)

Exists(work, p) == p \in FilesOf(work) \/ IsDirectory(work, p)

\* The walk of protect_recovery_paths along one affected path: directories are
\* passed; the first name that is missing or tracked ends it, and anything
\* else refuses.
Unobstructed(index, work, affected, path) ==
  LET Prefix(n) == SubSeq(path, 1, n)
      Passed(q) == q # path /\ IsDirectory(work, q)
      stop == {n \in 1..Len(path) : ~Passed(Prefix(n))}
      first == Prefix(CHOOSE n \in stop : \A m \in stop : n <= m)
  IN \/ ~Exists(work, first)
     \/ /\ first \in FilesOf(index)
        /\ first = path \/ first \in affected

\* Mutant: ignored files are not looked for.
ProtectedListed(head, index, work, affected) ==
  \A p \in Listed(head, index, work), q \in affected : ~Related(p, q)

\* protect_recovery_paths: nothing local overlaps what will be written.
Protected(head, index, work, affected) ==
  /\ \A p \in Listed(head, index, work), q \in affected : ~Related(p, q)
  /\ \A p \in affected : Unobstructed(index, work, affected, p)

-----------------------------------------------------------------------------
(* Git, at its worst.                                                      *)

\* The files after to's content of paths was written: what lies above or
\* below a written file is gone.
Written(work, paths, to) ==
  [p \in Paths |->
     IF p \in paths THEN to[p]
     ELSE IF \E q \in paths \cap FilesOf(to) : IsStrictPrefix(p, q) \/ IsStrictPrefix(q, p)
       THEN Absent ELSE work[p]]

\* A three-way merge: the side that changed wins, both changing is a conflict.
Conflicts(base, ours, theirs) ==
  {p \in Paths : ours[p] # base[p] /\ theirs[p] # base[p] /\ ours[p] # theirs[p]}

\* What Git leaves of a conflict: marked text, or the file one side removed.
Unmerged(ours, theirs) ==
  IF ours = Absent THEN theirs ELSE IF theirs = Absent THEN ours ELSE Markers

Merged(base, ours, theirs) ==
  [p \in Paths |->
     IF p \in Conflicts(base, ours, theirs) THEN Unmerged(ours[p], theirs[p])
     ELSE IF theirs[p] = base[p] THEN ours[p] ELSE theirs[p]]
=============================================================================
