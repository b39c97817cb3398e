---------------------------- MODULE PartialStaging ----------------------------
(***************************************************************************)
(* Publishing a partial selection beside other writers of one repository   *)
(* (GitRepository::apply_partial and PartialIndex of                       *)
(* crates/git-core/src/work.rs).  Instances of the application review a    *)
(* file and later apply what was chosen; other Git commands change the     *)
(* index under its lock; editors change the working copy at any time.      *)
(*                                                                         *)
(* The index and the working copy map files to contents.  What a selection *)
(* makes of a file (PartialDiff) is some content.  index.lock is the lock  *)
(* of the index and, while the copy it holds is edited with                *)
(* GIT_INDEX_FILE, itself an index with the lock index.lock.lock: the      *)
(* nested lock.                                                            *)
(***************************************************************************)
EXTENDS Naturals, FiniteSets

CONSTANTS
  Instances,    \* running copies of the application
  Files,
  Contents,     \* what a file can hold
  Nobody,       \* holds no lock
  Git,          \* another Git command
  MaxEdits,     \* bound: changes by editors and other Git commands
  MaxKills      \* bound: instances stopped in the middle, in total

PartialStagingAssumption ==
  /\ Nobody \notin Instances /\ Git \notin Instances /\ Nobody # Git
  /\ MaxEdits \in Nat /\ MaxKills \in Nat

VARIABLES
  index,        \* what the index records
  work,         \* what the working copy holds
  lock,         \* who created index.lock: Nobody, Git, an instance
  nested,       \* index.lock.lock exists
  orphaned,     \* the creator of index.lock was stopped
  draft,        \* the copy of the index written to index.lock by its creator
  phase,        \* per instance: where apply_partial is
  review,       \* per instance: the PartialDiff and what was chosen, or {}
  edits, kills  \* counts for the bounds

vars == <<index, work, lock, nested, orphaned, draft, phase, review, edits, kills>>

Indexes == [Files -> Contents]

Reviews == [file : Files, area : {"unstaged", "staged"},
            index : Contents, work : Contents, selected : Contents]

\* The stages of apply_partial, in their order.
Phases == {"idle", "unnested", "locked", "validated", "copied", "updating",
           "updated", "synced"}

Init ==
  /\ index \in Indexes
  /\ work \in Indexes
  /\ lock = Nobody
  /\ nested = FALSE
  /\ orphaned = FALSE
  /\ draft = index
  /\ phase = [i \in Instances |-> "idle"]
  /\ review = [i \in Instances |-> {}]
  /\ edits = 0
  /\ kills = 0

Enter(i, stage) == phase' = [phase EXCEPT ![i] = stage]

-----------------------------------------------------------------------------
(* The world outside.                                                      *)

\* An editor saves a file.  No lock stands in its way.
Edit(f) ==
  /\ edits < MaxEdits
  /\ \E c \in Contents \ {work[f]} : work' = [work EXCEPT ![f] = c]
  /\ edits' = edits + 1
  /\ UNCHANGED <<index, lock, nested, orphaned, draft, phase, review, kills>>

\* Another Git command takes the lock of the index.
GitLocks ==
  /\ edits < MaxEdits
  /\ lock = Nobody
  /\ lock' = Git
  /\ edits' = edits + 1
  /\ UNCHANGED <<index, work, nested, orphaned, draft, phase, review, kills>>

\* It renames its new index into place.
GitWrites ==
  /\ lock = Git
  /\ \E f \in Files, c \in Contents : index' = [index EXCEPT ![f] = c]
  /\ lock' = Nobody
  /\ UNCHANGED <<work, nested, orphaned, draft, phase, review, edits, kills>>

\* The person removes locks whose owner is gone, as the refusals advise: the
\* index's alone, or both.
RemoveStale ==
  /\ orphaned
  /\ lock' = Nobody
  /\ orphaned' = FALSE
  /\ nested' \in {nested, FALSE}
  /\ UNCHANGED <<index, work, draft, phase, review, edits, kills>>

\* A nested lock found on its own is removed once it has been inspected.
RemoveNested ==
  /\ nested
  /\ lock = Nobody
  /\ nested' = FALSE
  /\ UNCHANGED <<index, work, lock, orphaned, draft, phase, review, edits, kills>>

-----------------------------------------------------------------------------
(* The preview and apply_partial of one instance.                          *)

\* worktree_preview and a selection: the snapshot holds both sides.
Review(i, f, area) ==
  /\ phase[i] = "idle"
  /\ review[i] = {}
  /\ area = "unstaged" => index[f] # work[f]
  /\ \E c \in Contents \ {index[f]} :
       review' = [review EXCEPT ![i] =
                    {[file |-> f, area |-> area, index |-> index[f],
                      work |-> work[f], selected |-> c]}]
  /\ UNCHANGED <<index, work, lock, nested, orphaned, draft, phase, edits, kills>>

Reviewed(i) == CHOOSE r \in review[i] : TRUE

\* PartialIndex::acquire looks for a nested lock first.
LookForNested(i) ==
  /\ phase[i] = "idle"
  /\ review[i] # {}
  /\ IF nested
       THEN review' = [review EXCEPT ![i] = {}] /\ UNCHANGED phase
       ELSE Enter(i, "unnested") /\ UNCHANGED review
  /\ UNCHANGED <<index, work, lock, nested, orphaned, draft, edits, kills>>

\* Mutant: an existing lock is opened instead of refused.
CreateLockOpening(i) ==
  /\ phase[i] = "unnested"
  /\ Enter(i, "locked")
  /\ lock' = i
  /\ UNCHANGED <<review, index, work, nested, orphaned, draft, edits, kills>>

\* It creates index.lock, or refuses because there is one.
CreateLock(i) ==
  /\ phase[i] = "unnested"
  /\ IF lock = Nobody
       THEN Enter(i, "locked") /\ lock' = i /\ UNCHANGED review
       ELSE /\ Enter(i, "idle")
            /\ review' = [review EXCEPT ![i] = {}]
            /\ UNCHANGED lock
  /\ UNCHANGED <<index, work, nested, orphaned, draft, edits, kills>>

\* Drop of an unpublished PartialIndex: the nested lock, then the lock.
Drop(i) ==
  /\ Enter(i, "idle")
  /\ review' = [review EXCEPT ![i] = {}]
  /\ lock' = Nobody
  /\ nested' = FALSE

\* A staged row compares the index with the commit: the working file is not
\* part of its snapshot.
SnapshotHolds(r) ==
  /\ index[r.file] = r.index
  /\ r.area = "unstaged" => work[r.file] = r.work

\* The status and the preview are read again under the lock and must be the
\* reviewed ones; then the object is written, which changes nothing here.
Validate(i) ==
  /\ phase[i] = "locked"
  /\ IF SnapshotHolds(Reviewed(i))
       THEN Enter(i, "validated") /\ UNCHANGED <<lock, nested, review>>
       ELSE Drop(i)
  /\ UNCHANGED <<index, work, orphaned, draft, edits, kills>>

\* Mutant: the copy made the last time is used again.
PrepareOnce(i) ==
  /\ phase[i] = "validated"
  /\ Enter(i, "copied")
  /\ UNCHANGED <<index, work, lock, nested, orphaned, draft, review, edits, kills>>

\* prepare: index.lock becomes a copy of the index.
Prepare(i) ==
  /\ phase[i] = "validated"
  /\ draft' = index
  /\ Enter(i, "copied")
  /\ UNCHANGED <<index, work, lock, nested, orphaned, review, edits, kills>>

\* git update-index on the copy takes the nested lock, or fails for one left
\* behind.
StartUpdate(i) ==
  /\ phase[i] = "copied"
  /\ IF nested
       THEN Drop(i)
       ELSE /\ nested' = TRUE
            /\ Enter(i, "updating")
            /\ UNCHANGED <<lock, review>>
  /\ UNCHANGED <<index, work, orphaned, draft, edits, kills>>

\* It replaces the one entry and renames the nested lock to index.lock.
Update(i) ==
  /\ phase[i] = "updating"
  /\ draft' = [draft EXCEPT ![Reviewed(i).file] = Reviewed(i).selected]
  /\ nested' = FALSE
  /\ Enter(i, "updated")
  /\ UNCHANGED <<index, work, lock, orphaned, review, edits, kills>>

\* publish, its first half: the bytes reach the disk.
Sync(i) ==
  /\ phase[i] = "updated"
  /\ Enter(i, "synced")
  /\ UNCHANGED <<index, work, lock, nested, orphaned, draft, review, edits, kills>>

\* Its second half: index.lock is renamed to the index.
Publish(i) ==
  /\ phase[i] = "synced"
  /\ index' = draft
  /\ lock' = Nobody
  /\ Enter(i, "idle")
  /\ review' = [review EXCEPT ![i] = {}]
  /\ UNCHANGED <<work, nested, orphaned, draft, edits, kills>>

\* Any of these calls fails, or Git runs out of its time: Drop.
Fail(i) ==
  /\ phase[i] \notin {"idle", "unnested"}
  /\ Drop(i)
  /\ UNCHANGED <<index, work, orphaned, draft, edits, kills>>

\* The instance is stopped: nothing is cleaned up.  An update-index it had
\* started finishes or is stopped with it.
Kill(i) ==
  /\ kills < MaxKills
  /\ phase[i] # "idle"
  /\ Enter(i, "idle")
  /\ review' = [review EXCEPT ![i] = {}]
  /\ orphaned' = (orphaned \/ lock = i)
  /\ IF phase[i] = "updating"
       THEN /\ nested' \in BOOLEAN
            /\ draft' \in {draft, [draft EXCEPT ![Reviewed(i).file] =
                                     Reviewed(i).selected]}
       ELSE UNCHANGED <<nested, draft>>
  /\ kills' = kills + 1
  /\ UNCHANGED <<index, work, lock, edits>>

Apply(i) ==
  \/ LookForNested(i) \/ CreateLock(i) \/ Validate(i) \/ Prepare(i)
  \/ StartUpdate(i) \/ Update(i) \/ Sync(i) \/ Publish(i) \/ Fail(i)

Next ==
  \/ \E f \in Files : Edit(f)
  \/ GitLocks \/ GitWrites \/ RemoveStale \/ RemoveNested
  \/ \E i \in Instances :
       \/ \E f \in Files, area \in {"unstaged", "staged"} : Review(i, f, area)
       \/ Apply(i)
       \/ Kill(i)

Spec == Init /\ [][Next]_vars

-----------------------------------------------------------------------------
(***************************************************************************)
(* Types, and who may be where: an instance past the lock is its creator.  *)
(***************************************************************************)
Holding == {"locked", "validated", "copied", "updating", "updated", "synced"}

TypeOK ==
  /\ index \in Indexes /\ work \in Indexes /\ draft \in Indexes
  /\ lock \in Instances \cup {Nobody, Git}
  /\ nested \in BOOLEAN /\ orphaned \in BOOLEAN
  /\ phase \in [Instances -> Phases]
  /\ review \in [Instances -> SUBSET Reviews]
  /\ \A i \in Instances :
       /\ Cardinality(review[i]) <= 1
       /\ phase[i] # "idle" => review[i] # {}
  /\ edits \in 0..MaxEdits /\ kills \in 0..MaxKills

(***************************************************************************)
(* index.lock excludes: at most one writer is between its creation and the *)
(* rename, and an instance that got past it is the lock's creator          *)
(* (PartialIndex::acquire with create_new).                                *)
(***************************************************************************)
OneWriter ==
  \A i \in Instances : phase[i] \in Holding => lock = i /\ ~orphaned

PublishesReviewed ==
    \A i \in Instances :
        (phase[i] = "synced" /\ index' # index) =>
          LET r == Reviewed(i)
          IN /\ index[r.file] = r.index
             /\ index' = [index EXCEPT ![r.file] = r.selected]

(***************************************************************************)
(* What is published is what was reviewed: the chosen content replaces the *)
(* reviewed one in that file, and every other file's staged content stays  *)
(* what it was at that moment, although the copy was taken several steps   *)
(* earlier and editors and other Git commands kept running                 *)
(* (docs/architecture.md: "atomically publishes a copied index, preserving *)
(* unrelated entries").                                                    *)
(***************************************************************************)
PublishedAsReviewed == [][PublishesReviewed]_vars

(***************************************************************************)
(* A lock outlives only an instance that was stopped: with none stopped,   *)
(* nothing is left behind by a refusal, a failure or a time-out, and no    *)
(* nested lock is ever found without index.lock (Drop removes it first).   *)
(***************************************************************************)
LocksAreReleased ==
  /\ lock \in Instances => (orphaned \/ phase[lock] \in Holding)
  /\ kills = 0 => /\ ~orphaned
                  /\ nested => \E i \in Instances : phase[i] = "updating"

(***************************************************************************)
(* The lock file does its work: it keeps the writers apart, and nobody who  *)
(* ended as it should has left it behind.                                   *)
(***************************************************************************)
LocksExclude == OneWriter /\ LocksAreReleased

RemovesOwnLock ==
    \A i \in Instances :
        (lock # Nobody /\ lock' = Nobody /\ phase'[i] # phase[i]) => lock = i

(***************************************************************************)
(* Only what the application itself created is removed by it: Drop of one  *)
(* instance never removes the lock of another or of a Git command.         *)
(***************************************************************************)
OwnLockOnly == [][RemovesOwnLock]_vars

=============================================================================
