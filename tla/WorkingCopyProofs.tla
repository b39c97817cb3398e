------------------------- MODULE WorkingCopyProofs -------------------------
(***************************************************************************)
(* The proofs about the working copy. PartialStaging: index.lock keeps the *)
(* writers of one index apart, and a published index differs from the one  *)
(* it replaces in the reviewed entry alone, for any number of instances,   *)
(* files and contents. WorkingChanges: a run from the changes list removes *)
(* what the user reviewed and nothing else, for any paths and contents.    *)
(* Recovery: a reviewed amend, undo, cherry-pick, revert or stash command  *)
(* loses no local file, staged entry or shared commit, for any paths,      *)
(* contents and histories. Its two halves are what protect_recovery_paths  *)
(* keeps out of the way, and that the plan still is what was compared.     *)
(***************************************************************************)
EXTENDS PartialStaging, WorkingChanges, Recovery, FiniteSetTheorems, SequenceTheorems, TLAPS

-----------------------------------------------------------------------------
(* The inductive invariant of partial staging *)

\* A lock whose creator was stopped is an instance's.
OrphanIsOurs == orphaned => lock \in Instances

\* From the validation on, the index records what was reviewed of the file.
IndexIsReviewed ==
  \A i \in Instances :
    phase[i] \in {"validated", "copied", "updating", "updated", "synced"} =>
      index[Reviewed(i).file] = Reviewed(i).index

\* From the preparation on, the copy is the index, with the new entry once
\* update-index has run.
DraftIsCopy ==
  \A i \in Instances :
    /\ phase[i] \in {"copied", "updating"} => draft = index
    /\ phase[i] \in {"updated", "synced"} =>
         draft = [index EXCEPT ![Reviewed(i).file] = Reviewed(i).selected]

StagingInv ==
  /\ TypeOK
  /\ LocksExclude
  /\ OrphanIsOurs
  /\ IndexIsReviewed
  /\ DraftIsCopy

-----------------------------------------------------------------------------
(* Facts about a state *)

\* Whoever is past the creation of the lock is alone there.
LEMMA HolderAlone ==
  ASSUME PartialStagingAssumption, StagingInv
  PROVE  /\ \A i, j \in Instances : phase[i] \in Holding /\ phase[j] \in Holding => i = j
         /\ lock \notin Instances \/ orphaned => \A i \in Instances : phase[i] \notin Holding
         /\ \A i \in Instances : phase[i] \in Holding => lock = i /\ ~orphaned
         /\ \A i \in Instances :
               phase[i] \in Holding \ {"updating"} => (kills = 0 => ~nested)
<1>1. \A i \in Instances : phase[i] \in Holding => lock = i /\ ~orphaned
  BY DEF StagingInv, LocksExclude, OneWriter
<1>2. kills = 0 /\ nested => \E j \in Instances : phase[j] = "updating"
  BY DEF StagingInv, LocksExclude, LocksAreReleased
<1> QED
  BY <1>1, <1>2 DEF Holding

LEMMA ReviewedIsReview ==
  ASSUME StagingInv, NEW i \in Instances, phase[i] # "idle"
  PROVE  Reviewed(i) \in Reviews
  BY DEF StagingInv, TypeOK, Reviewed

LEMMA InitInv == ASSUME PartialStagingAssumption PROVE Init => StagingInv
<1> SUFFICES ASSUME Init PROVE StagingInv
  OBVIOUS
<1>1. TypeOK
  <2>1. /\ review \in [Instances -> SUBSET Reviews]
        /\ \A i \in Instances : Cardinality(review[i]) <= 1
    BY FS_EmptySet DEF Init
  <2>2. phase \in [Instances -> Phases] /\ \A i \in Instances : phase[i] = "idle"
    BY DEF Init, Phases
  <2>3. edits \in 0 .. MaxEdits /\ kills \in 0 .. MaxKills
    BY DEF Init, PartialStagingAssumption
  <2>4. /\ index \in Indexes /\ work \in Indexes /\ draft \in Indexes
        /\ lock = Nobody /\ nested = FALSE /\ orphaned = FALSE
    BY DEF Init
  <2> QED
    BY <2>1, <2>2, <2>3, <2>4 DEF TypeOK
<1>2. LocksExclude
  BY DEF Init, LocksExclude, OneWriter, LocksAreReleased, Holding, PartialStagingAssumption
<1>3. OrphanIsOurs /\ IndexIsReviewed /\ DraftIsCopy
  BY DEF Init, OrphanIsOurs, IndexIsReviewed, DraftIsCopy
<1> QED
  BY <1>1, <1>2, <1>3 DEF StagingInv

-----------------------------------------------------------------------------
(* The steps of one instance *)

\* An instance enters a stage; it keeps its review unless it becomes idle.
LEMMA Entering ==
  ASSUME StagingInv, NEW i \in Instances, NEW s \in Phases, Enter(i, s),
         \/ UNCHANGED review /\ (s # "idle" => review[i] # {})
         \/ review' = [review EXCEPT ![i] = {}] /\ s = "idle"
  PROVE  /\ phase' \in [Instances -> Phases] /\ phase'[i] = s
         /\ \A j \in Instances \ {i} : phase'[j] = phase[j]
         /\ review' \in [Instances -> SUBSET Reviews]
         /\ \A j \in Instances : Cardinality(review'[j]) <= 1
         /\ \A j \in Instances : phase'[j] # "idle" =>
               review'[j] # {} /\ review'[j] = review[j] /\ Reviewed(j)' = Reviewed(j)
<1> USE DEF StagingInv, TypeOK, Enter
<1>1. /\ phase' \in [Instances -> Phases] /\ phase'[i] = s
      /\ \A j \in Instances \ {i} : phase'[j] = phase[j]
  OBVIOUS
<1>2. /\ review' \in [Instances -> SUBSET Reviews]
      /\ \A j \in Instances : review'[j] = review[j] \/ review'[j] = {}
      /\ \A j \in Instances : phase'[j] # "idle" => review'[j] = review[j]
  BY <1>1
<1>3. \A j \in Instances : Cardinality(review'[j]) <= 1
  BY <1>2, FS_EmptySet
<1>4. \A j \in Instances : phase'[j] # "idle" => review'[j] # {} /\ Reviewed(j)' = Reviewed(j)
  BY <1>1, <1>2 DEF Reviewed
<1> QED
  BY <1>1, <1>2, <1>3, <1>4

LEMMA DropKeeps ==
  ASSUME PartialStagingAssumption, StagingInv, NEW i \in Instances, phase[i] \in Holding,
         Drop(i), UNCHANGED <<index, work, orphaned, draft, edits, kills>>
  PROVE  StagingInv'
<1>1. /\ phase' \in [Instances -> Phases] /\ phase'[i] = "idle"
      /\ \A j \in Instances \ {i} : phase'[j] = phase[j]
      /\ review' \in [Instances -> SUBSET Reviews]
      /\ \A j \in Instances : Cardinality(review'[j]) <= 1
      /\ \A j \in Instances : phase'[j] # "idle" =>
            review'[j] # {} /\ review'[j] = review[j] /\ Reviewed(j)' = Reviewed(j)
  BY Entering DEF Drop, Phases
<1>2. ~orphaned /\ \A j \in Instances : phase'[j] \notin Holding
  BY <1>1, HolderAlone DEF Holding
<1>3. TypeOK'
  BY <1>1 DEF Drop, StagingInv, TypeOK
<1>4. LocksExclude'
  BY <1>2 DEF Drop, LocksExclude, OneWriter, LocksAreReleased, PartialStagingAssumption
<1>5. OrphanIsOurs' /\ IndexIsReviewed' /\ DraftIsCopy'
  BY <1>2 DEF OrphanIsOurs, IndexIsReviewed, DraftIsCopy, Holding
<1> QED
  BY <1>3, <1>4, <1>5 DEF StagingInv

\* A holder of the lock goes on to the next stage: the lock stays its own, and
\* only its own copy may have changed.
LEMMA HolderKeeps ==
  ASSUME PartialStagingAssumption, StagingInv, NEW i \in Instances, phase[i] \in Holding,
         NEW s \in Holding, Enter(i, s),
         UNCHANGED <<index, work, lock, orphaned, review, edits, kills>>,
         draft' \in Indexes, nested' \in BOOLEAN, kills = 0 /\ nested' => s = "updating",
         s # "locked" => index[Reviewed(i).file] = Reviewed(i).index,
         s \in {"copied", "updating"} => draft' = index,
         s \in {"updated", "synced"} =>
             draft' = [index EXCEPT ![Reviewed(i).file] = Reviewed(i).selected]
  PROVE  StagingInv'
<1>1. /\ phase' \in [Instances -> Phases] /\ phase'[i] = s
      /\ \A j \in Instances \ {i} : phase'[j] = phase[j]
      /\ review' \in [Instances -> SUBSET Reviews]
      /\ \A j \in Instances : Cardinality(review'[j]) <= 1
      /\ \A j \in Instances : phase'[j] # "idle" =>
            review'[j] # {} /\ review'[j] = review[j] /\ Reviewed(j)' = Reviewed(j)
  <2>1. s \in Phases /\ review[i] # {}
    BY DEF Holding, Phases, StagingInv, TypeOK
  <2> QED
    BY <2>1, Entering
<1>2. /\ lock = i /\ ~orphaned
      /\ \A j \in Instances : phase'[j] \in Holding => j = i
  BY <1>1, HolderAlone
<1>3. TypeOK'
  BY <1>1 DEF StagingInv, TypeOK
<1>4. LocksExclude'
  BY <1>1, <1>2 DEF LocksExclude, OneWriter, LocksAreReleased
<1>5. OrphanIsOurs'
  BY <1>2 DEF OrphanIsOurs
<1>6. IndexIsReviewed' /\ DraftIsCopy'
  <2> SUFFICES ASSUME NEW j \in Instances, phase'[j] \in Holding
               PROVE  /\ phase'[j] # "locked" =>
                            index[Reviewed(j).file]' = Reviewed(j).index'
                      /\ phase'[j] \in {"copied", "updating"} => draft' = index'
                      /\ phase'[j] \in {"updated", "synced"} =>
                           draft' = [index EXCEPT ![Reviewed(j).file] = Reviewed(j).selected]'
    BY DEF IndexIsReviewed, DraftIsCopy, Holding
  <2>1. j = i /\ phase'[j] = s /\ Reviewed(j)' = Reviewed(i)
    BY <1>1, <1>2 DEF Holding
  <2> QED
    BY <2>1
<1> QED
  BY <1>3, <1>4, <1>5, <1>6 DEF StagingInv

\* A step of an instance that holds nothing, and leaves the repository alone.
LEMMA OutsideKeeps ==
  ASSUME PartialStagingAssumption, StagingInv, NEW i \in Instances, phase[i] \notin Holding,
         phase' \in [Instances -> Phases], phase'[i] \notin Holding,
         \A j \in Instances \ {i} : phase'[j] = phase[j],
         review' \in [Instances -> SUBSET Reviews],
         \A j \in Instances : Cardinality(review'[j]) <= 1,
         \A j \in Instances : phase'[j] # "idle" => review'[j] # {},
         \A j \in Instances \ {i} : review'[j] = review[j],
         UNCHANGED <<index, work, lock, nested, orphaned, draft, edits, kills>>
  PROVE  StagingInv'
<1>1. TypeOK'
  BY DEF StagingInv, TypeOK
<1>2. LocksExclude'
  BY DEF StagingInv, LocksExclude, OneWriter, LocksAreReleased, Holding
<1>3. OrphanIsOurs'
  BY DEF StagingInv, OrphanIsOurs
<1>4. IndexIsReviewed' /\ DraftIsCopy'
  <2> SUFFICES ASSUME NEW j \in Instances, phase'[j] \in Holding
               PROVE  /\ phase'[j] # "locked" =>
                            index[Reviewed(j).file]' = Reviewed(j).index'
                      /\ phase'[j] \in {"copied", "updating"} => draft' = index'
                      /\ phase'[j] \in {"updated", "synced"} =>
                           draft' = [index EXCEPT ![Reviewed(j).file] = Reviewed(j).selected]'
    BY DEF IndexIsReviewed, DraftIsCopy, Holding
  <2>1. j # i /\ phase'[j] = phase[j] /\ Reviewed(j)' = Reviewed(j)
    BY DEF Reviewed
  <2> QED
    BY <2>1 DEF StagingInv, IndexIsReviewed, DraftIsCopy, Holding
<1> QED
  BY <1>1, <1>2, <1>3, <1>4 DEF StagingInv

LEMMA ReviewKeeps ==
  ASSUME PartialStagingAssumption, StagingInv, NEW i \in Instances, NEW f \in Files,
         NEW area \in {"unstaged", "staged"}, Review(i, f, area)
  PROVE  StagingInv'
<1>1. PICK c \in Contents :
        review' = [review EXCEPT ![i] = {[file |-> f, area |-> area, index |-> index[f],
                                          work |-> work[f], selected |-> c]}]
  BY DEF Review
<1>2. [file |-> f, area |-> area, index |-> index[f], work |-> work[f], selected |-> c] \in Reviews
  BY DEF Reviews, StagingInv, TypeOK, Indexes
<1>3. /\ phase[i] = "idle" /\ UNCHANGED phase
      /\ UNCHANGED <<index, work, lock, nested, orphaned, draft, edits, kills>>
  BY DEF Review
<1>4. /\ review' \in [Instances -> SUBSET Reviews]
      /\ \A j \in Instances \ {i} : review'[j] = review[j]
      /\ review'[i] = {[file |-> f, area |-> area, index |-> index[f],
                        work |-> work[f], selected |-> c]}
  BY <1>1, <1>2 DEF StagingInv, TypeOK
<1>5. \A j \in Instances : Cardinality(review'[j]) <= 1
  <2>1. Cardinality(review'[i]) = 1
    BY <1>4, FS_Singleton
  <2>2. \A j \in Instances \ {i} : Cardinality(review'[j]) <= 1
    BY <1>4 DEF StagingInv, TypeOK
  <2>3. Cardinality(review'[i]) <= 1
    BY <2>1
  <2> QED
    BY <2>2, <2>3
<1> QED
  BY <1>3, <1>4, <1>5, OutsideKeeps DEF Holding, StagingInv, TypeOK

LEMMA CreateLockKeeps ==
  ASSUME PartialStagingAssumption, StagingInv, NEW i \in Instances, CreateLock(i)
  PROVE  StagingInv'
<1>0. /\ phase[i] = "unnested" /\ review[i] # {} /\ phase[i] \notin Holding
      /\ UNCHANGED <<index, work, nested, orphaned, draft, edits, kills>>
  BY DEF CreateLock, StagingInv, TypeOK, Holding
<1>1. CASE lock = Nobody
  <2>1. Enter(i, "locked") /\ lock' = i /\ UNCHANGED review
    BY <1>1 DEF CreateLock
  <2>2. /\ phase' \in [Instances -> Phases] /\ phase'[i] = "locked"
        /\ \A j \in Instances \ {i} : phase'[j] = phase[j]
        /\ review' \in [Instances -> SUBSET Reviews]
        /\ \A j \in Instances : Cardinality(review'[j]) <= 1
        /\ \A j \in Instances : phase'[j] # "idle" =>
              review'[j] # {} /\ review'[j] = review[j] /\ Reviewed(j)' = Reviewed(j)
    BY <1>0, <2>1, Entering DEF Phases
  <2>3. ~orphaned /\ \A j \in Instances : phase[j] \notin Holding
    BY <1>1, HolderAlone DEF StagingInv, OrphanIsOurs, PartialStagingAssumption
  <2>4. TypeOK'
    BY <1>0, <2>1, <2>2 DEF StagingInv, TypeOK
  <2>5. LocksExclude'
    BY <1>0, <2>1, <2>2, <2>3
       DEF StagingInv, LocksExclude, OneWriter, LocksAreReleased, Holding
  <2>6. OrphanIsOurs' /\ IndexIsReviewed' /\ DraftIsCopy'
    BY <1>0, <2>2, <2>3 DEF OrphanIsOurs, IndexIsReviewed, DraftIsCopy, Holding
  <2> QED
    BY <2>4, <2>5, <2>6 DEF StagingInv
<1>2. CASE lock # Nobody
  <2>1. Enter(i, "idle") /\ review' = [review EXCEPT ![i] = {}] /\ UNCHANGED lock
    BY <1>2 DEF CreateLock
  <2> QED
    BY <1>0, <2>1, Entering, OutsideKeeps DEF Phases, Holding, StagingInv, TypeOK
<1> QED
  BY <1>1, <1>2

LEMMA PublishKeeps ==
  ASSUME PartialStagingAssumption, StagingInv, NEW i \in Instances, Publish(i)
  PROVE  StagingInv'
<1>1. /\ phase' \in [Instances -> Phases] /\ phase'[i] = "idle"
      /\ \A j \in Instances \ {i} : phase'[j] = phase[j]
      /\ review' \in [Instances -> SUBSET Reviews]
      /\ \A j \in Instances : Cardinality(review'[j]) <= 1
      /\ \A j \in Instances : phase'[j] # "idle" => review'[j] # {}
  BY Entering DEF Publish, Phases
<1>2. ~orphaned /\ \A j \in Instances : phase'[j] \notin Holding
  BY <1>1, HolderAlone DEF Publish, Holding
<1>3. TypeOK'
  BY <1>1 DEF Publish, StagingInv, TypeOK
<1>4. LocksExclude'
  <2>1. kills = 0 => ~nested
    BY HolderAlone DEF StagingInv, LocksExclude, LocksAreReleased, Publish, Holding
  <2> QED
    BY <1>2, <2>1 DEF Publish, LocksExclude, OneWriter, LocksAreReleased, PartialStagingAssumption
<1>5. OrphanIsOurs' /\ IndexIsReviewed' /\ DraftIsCopy'
  BY <1>2 DEF Publish, OrphanIsOurs, IndexIsReviewed, DraftIsCopy, Holding
<1> QED
  BY <1>3, <1>4, <1>5 DEF StagingInv

LEMMA KillKeeps ==
  ASSUME PartialStagingAssumption, StagingInv, NEW i \in Instances, Kill(i)
  PROVE  StagingInv'
<1>1. /\ phase' \in [Instances -> Phases] /\ phase'[i] = "idle"
      /\ \A j \in Instances \ {i} : phase'[j] = phase[j]
      /\ review' \in [Instances -> SUBSET Reviews]
      /\ \A j \in Instances : Cardinality(review'[j]) <= 1
      /\ \A j \in Instances : phase'[j] # "idle" =>
            review'[j] # {} /\ review'[j] = review[j] /\ Reviewed(j)' = Reviewed(j)
  BY Entering DEF Kill, Phases
<1>2. /\ kills' = kills + 1 /\ kills < MaxKills /\ UNCHANGED <<index, work, lock, edits>>
      /\ orphaned' = (orphaned \/ lock = i)
  BY DEF Kill
<1>3. kills' \in 0 .. MaxKills /\ kills' # 0
  BY <1>2 DEF StagingInv, TypeOK, PartialStagingAssumption
<1>4. draft' \in Indexes /\ nested' \in BOOLEAN
  <2>1. Reviewed(i) \in Reviews
    BY ReviewedIsReview DEF Kill
  <2> QED
    BY <2>1 DEF Kill, StagingInv, TypeOK, Indexes, Reviews
<1>5. TypeOK'
  BY <1>1, <1>2, <1>3, <1>4 DEF StagingInv, TypeOK
<1>6. \A j \in Instances : phase'[j] \in Holding =>
          j # i /\ phase[j] = phase'[j] /\ lock = j /\ phase[i] \notin Holding
  BY <1>1, HolderAlone DEF Holding
<1>7. LocksExclude'
  <2>1. OneWriter'
    BY <1>2, <1>6 DEF OneWriter, StagingInv, LocksExclude
  <2>2. lock' \in Instances => orphaned' \/ phase'[lock'] \in Holding
    BY <1>1, <1>2 DEF StagingInv, LocksExclude, LocksAreReleased
  <2> QED
    BY <1>3, <2>1, <2>2 DEF LocksExclude, LocksAreReleased
<1>8. OrphanIsOurs'
  BY <1>2 DEF StagingInv, OrphanIsOurs
<1>9. IndexIsReviewed' /\ DraftIsCopy'
  <2> SUFFICES ASSUME NEW j \in Instances, phase'[j] \in Holding
               PROVE  /\ phase'[j] # "locked" =>
                            index[Reviewed(j).file]' = Reviewed(j).index'
                      /\ phase'[j] \in {"copied", "updating"} => draft' = index'
                      /\ phase'[j] \in {"updated", "synced"} =>
                           draft' = [index EXCEPT ![Reviewed(j).file] = Reviewed(j).selected]'
    BY DEF IndexIsReviewed, DraftIsCopy, Holding
  <2>1. phase[j] = phase'[j] /\ Reviewed(j)' = Reviewed(j) /\ UNCHANGED draft
    BY <1>1, <1>6 DEF Kill, Holding
  <2> QED
    BY <1>2, <2>1 DEF StagingInv, IndexIsReviewed, DraftIsCopy, Holding
<1> QED
  BY <1>5, <1>7, <1>8, <1>9 DEF StagingInv

LEMMA ApplyKeeps ==
  ASSUME PartialStagingAssumption, StagingInv, NEW i \in Instances, Apply(i)
  PROVE  StagingInv'
<1>0. /\ draft \in Indexes /\ index \in Indexes /\ nested \in BOOLEAN
      /\ phase[i] # "idle" => review[i] # {}
  BY DEF StagingInv, TypeOK
<1>1. CASE LookForNested(i)
  <2>1. \/ Enter(i, "unnested") /\ UNCHANGED review
        \/ UNCHANGED phase /\ review' = [review EXCEPT ![i] = {}]
    BY <1>1 DEF LookForNested
  <2>2. phase[i] = "idle" /\ review[i] # {}
        /\ UNCHANGED <<index, work, lock, nested, orphaned, draft, edits, kills>>
    BY <1>1 DEF LookForNested
  <2>3. CASE Enter(i, "unnested") /\ UNCHANGED review
    BY <2>2, <2>3, Entering, OutsideKeeps DEF Phases, Holding
  <2>4. CASE UNCHANGED phase /\ review' = [review EXCEPT ![i] = {}]
    <3>1. phase' = [phase EXCEPT ![i] = "idle"]
      BY <2>2, <2>4 DEF StagingInv, TypeOK
    <3> QED
      BY <2>2, <2>4, <3>1, Entering, OutsideKeeps DEF Enter, Phases, Holding
  <2> QED
    BY <2>1, <2>3, <2>4
<1>2. CASE CreateLock(i)
  BY <1>2, CreateLockKeeps
<1>3. CASE Validate(i)
  <2>1. CASE SnapshotHolds(Reviewed(i))
    <3>1. index[Reviewed(i).file] = Reviewed(i).index
      BY <2>1 DEF SnapshotHolds
    <3>2. phase[i] = "locked" /\ Enter(i, "validated") /\ kills = 0 => ~nested
      BY <1>3, <2>1, HolderAlone DEF Validate, Holding
    <3> QED
      BY <1>0, <1>3, <2>1, <3>1, <3>2, HolderAlone, HolderKeeps DEF Validate, Holding
  <2>2. CASE ~SnapshotHolds(Reviewed(i))
    BY <1>3, <2>2, DropKeeps DEF Validate, Holding
  <2> QED
    BY <2>1, <2>2
<1>4. CASE Prepare(i)
  BY <1>0, <1>4, HolderAlone, HolderKeeps DEF Prepare, Holding, StagingInv, IndexIsReviewed
<1>5. CASE StartUpdate(i)
  <2>1. CASE nested
    BY <1>5, <2>1, DropKeeps DEF StartUpdate, Holding
  <2>2. CASE ~nested
    <3>1. /\ phase[i] = "copied" /\ draft = index
          /\ index[Reviewed(i).file] = Reviewed(i).index
      BY <1>5 DEF StartUpdate, StagingInv, IndexIsReviewed, DraftIsCopy
    <3> QED
      BY <1>0, <1>5, <2>2, <3>1, HolderKeeps DEF StartUpdate, Holding
  <2> QED
    BY <2>1, <2>2
<1>6. CASE Update(i)
  <2>1. /\ phase[i] = "updating" /\ draft = index /\ Reviewed(i) \in Reviews
        /\ index[Reviewed(i).file] = Reviewed(i).index
    BY <1>6, ReviewedIsReview DEF Update, StagingInv, IndexIsReviewed, DraftIsCopy
  <2>2. draft' \in Indexes /\ draft' = [index EXCEPT ![Reviewed(i).file] = Reviewed(i).selected]
    BY <1>0, <1>6, <2>1 DEF Update, Indexes, Reviews
  <2> QED
    BY <1>6, <2>1, <2>2, HolderKeeps DEF Update, Holding
<1>7. CASE Sync(i)
  <2>1. /\ phase[i] = "updated" /\ index[Reviewed(i).file] = Reviewed(i).index
        /\ draft = [index EXCEPT ![Reviewed(i).file] = Reviewed(i).selected]
    BY <1>7 DEF Sync, StagingInv, IndexIsReviewed, DraftIsCopy
  <2> QED
    BY <1>0, <1>7, <2>1, HolderAlone, HolderKeeps DEF Sync, Holding
<1>8. CASE Publish(i)
  BY <1>8, PublishKeeps
<1>9. CASE Fail(i)
  <2>1. phase[i] \in Holding
    BY <1>9 DEF Fail, StagingInv, TypeOK, Phases, Holding
  <2> QED
    BY <1>9, <2>1, DropKeeps DEF Fail
<1> QED
  BY <1>1, <1>2, <1>3, <1>4, <1>5, <1>6, <1>7, <1>8, <1>9 DEF Apply

-----------------------------------------------------------------------------
(* The steps of the others *)

\* A step that leaves the instances and the copy of the index alone.
LEMMA OthersKeep ==
  ASSUME PartialStagingAssumption, StagingInv, UNCHANGED <<draft, phase, review, kills>>,
         work' \in Indexes, index' \in Indexes, edits' \in 0 .. MaxEdits,
         nested' \in BOOLEAN, nested' => nested,
         \/ UNCHANGED <<index, lock, orphaned>>
         \/ /\ \A i \in Instances : phase[i] \notin Holding
            /\ lock' \in {Nobody, Git} /\ ~orphaned' /\ orphaned' \in BOOLEAN
  PROVE  StagingInv'
<1>1. TypeOK'
  BY DEF StagingInv, TypeOK
<1>2. CASE UNCHANGED <<index, lock, orphaned>>
  <2>1. LocksExclude' /\ OrphanIsOurs'
    BY <1>2 DEF StagingInv, LocksExclude, OneWriter, LocksAreReleased, OrphanIsOurs
  <2>2. IndexIsReviewed' /\ DraftIsCopy'
    BY <1>2 DEF StagingInv, IndexIsReviewed, DraftIsCopy, Reviewed
  <2> QED
    BY <1>1, <2>1, <2>2 DEF StagingInv
<1>3. CASE /\ \A i \in Instances : phase[i] \notin Holding
           /\ lock' \in {Nobody, Git} /\ ~orphaned' /\ orphaned' \in BOOLEAN
  <2>1. LocksExclude' /\ OrphanIsOurs'
    BY <1>3 DEF StagingInv, LocksExclude, OneWriter, LocksAreReleased, OrphanIsOurs, Holding,
       PartialStagingAssumption
  <2>2. IndexIsReviewed' /\ DraftIsCopy'
    BY <1>3 DEF IndexIsReviewed, DraftIsCopy, Holding
  <2> QED
    BY <1>1, <2>1, <2>2 DEF StagingInv
<1> QED
  BY <1>2, <1>3

LEMMA StepInv ==
  ASSUME PartialStagingAssumption, StagingInv, [Next]_vars PROVE StagingInv'
<1>0. /\ index \in Indexes /\ work \in Indexes /\ nested \in BOOLEAN
      /\ edits \in 0 .. MaxEdits /\ MaxEdits \in Nat /\ orphaned \in BOOLEAN
  BY DEF StagingInv, TypeOK, PartialStagingAssumption
<1>1. CASE \E f \in Files : Edit(f)
  <2>1. PICK f \in Files : Edit(f)
    BY <1>1
  <2>2. work' \in Indexes /\ edits' \in 0 .. MaxEdits
    BY <1>0, <2>1 DEF Edit, Indexes
  <2> QED
    BY <1>0, <2>1, <2>2, OthersKeep DEF Edit
<1>2. CASE GitLocks
  <2>1. edits' \in 0 .. MaxEdits
    BY <1>0, <1>2 DEF GitLocks
  <2>2. lock = Nobody /\ Nobody \notin Instances
    BY <1>2 DEF GitLocks, PartialStagingAssumption
  <2>3. ~orphaned /\ \A i \in Instances : phase[i] \notin Holding
    BY <2>2, HolderAlone DEF StagingInv, OrphanIsOurs
  <2> QED
    BY <1>0, <1>2, <2>1, <2>3, OthersKeep DEF GitLocks
<1>3. CASE GitWrites
  <2>1. index' \in Indexes
    BY <1>0, <1>3 DEF GitWrites, Indexes
  <2>2. lock = Git /\ Git \notin Instances
    BY <1>3 DEF GitWrites, PartialStagingAssumption
  <2>3. ~orphaned /\ \A i \in Instances : phase[i] \notin Holding
    BY <2>2, HolderAlone DEF StagingInv, OrphanIsOurs
  <2> QED
    BY <1>0, <1>3, <2>1, <2>3, OthersKeep DEF GitWrites
<1>4. CASE RemoveStale
  <2>1. \A i \in Instances : phase[i] \notin Holding
    BY <1>4, HolderAlone DEF RemoveStale
  <2>2. nested' = nested \/ nested' = FALSE
    BY <1>4 DEF RemoveStale
  <2>3. nested' \in BOOLEAN
    BY <1>0, <2>2
  <2>4. ASSUME nested' PROVE nested
    BY <2>2, <2>4
  <2> QED
    BY <1>0, <1>4, <2>1, <2>3, <2>4, OthersKeep DEF RemoveStale
<1>5. CASE RemoveNested
  BY <1>0, <1>5, OthersKeep DEF RemoveNested
<1>6. CASE UNCHANGED vars
  BY <1>0, <1>6, OthersKeep DEF vars
<1> QED
  BY <1>1, <1>2, <1>3, <1>4, <1>5, <1>6, ReviewKeeps, ApplyKeeps, KillKeeps DEF Next

-----------------------------------------------------------------------------
(* The theorems of partial staging *)

\* StagingInv is an invariant of partial staging.
THEOREM Invariance == ASSUME PartialStagingAssumption PROVE Spec => []StagingInv
<1>1. Init => StagingInv
  BY InitInv
<1>2. StagingInv /\ [Next]_vars => StagingInv'
  BY StepInv
<1> QED
  BY <1>1, <1>2, PTL DEF Spec

\* Every variable keeps its type, and an instance that applies has exactly one
\* review.
THEOREM TypeCorrect == ASSUME PartialStagingAssumption PROVE Spec => []TypeOK
<1>1. StagingInv => TypeOK
  BY DEF StagingInv
<1> QED
  BY <1>1, Invariance, PTL

\* Between the creation of index.lock and the rename there is at most one
\* writer, who created the lock; and only one that was stopped leaves it.
THEOREM LockExcludes == ASSUME PartialStagingAssumption PROVE Spec => []LocksExclude
<1>1. StagingInv => LocksExclude
  BY DEF StagingInv
<1> QED
  BY <1>1, Invariance, PTL

\* A published index differs from the one it replaces in the reviewed entry
\* alone, whose content until then was the reviewed one.
THEOREM PublishedIsReviewed == ASSUME PartialStagingAssumption PROVE Spec => PublishedAsReviewed
<1>1. StagingInv /\ [Next]_vars => [PublishesReviewed]_vars
  <2> SUFFICES ASSUME PartialStagingAssumption, StagingInv, Next, NEW i \in Instances,
                      phase[i] = "synced", index' # index
               PROVE  /\ index[Reviewed(i).file] = Reviewed(i).index
                      /\ index' = [index EXCEPT ![Reviewed(i).file] = Reviewed(i).selected]
    BY DEF PublishesReviewed
  <2>1. /\ index[Reviewed(i).file] = Reviewed(i).index
        /\ draft = [index EXCEPT ![Reviewed(i).file] = Reviewed(i).selected]
    BY DEF StagingInv, IndexIsReviewed, DraftIsCopy
  <2>2. lock = i /\ \A j \in Instances : phase[j] = "synced" => j = i
    BY HolderAlone DEF Holding
  <2>3. ~GitWrites
    BY <2>2 DEF GitWrites, PartialStagingAssumption
  <2>4. \E j \in Instances : Publish(j)
    BY <2>3 DEF Next, Edit, GitLocks, RemoveStale, RemoveNested, Review, Kill, Apply, LookForNested,
       CreateLock, Validate, Prepare, StartUpdate, Update, Sync, Fail
  <2> QED
    BY <2>1, <2>4 DEF Publish
<1> QED
  BY <1>1, Invariance, PTL DEF Spec, PublishedAsReviewed

\* An instance removes no lock but its own: neither that of another instance
\* nor that of a Git command.
THEOREM OnlyOwnLockIsRemoved == ASSUME PartialStagingAssumption PROVE Spec => OwnLockOnly
<1>1. StagingInv /\ [Next]_vars => [RemovesOwnLock]_vars
  <2> SUFFICES ASSUME PartialStagingAssumption, StagingInv, Next, NEW i \in Instances,
                      lock # Nobody, lock' = Nobody, phase'[i] # phase[i]
               PROVE  lock = i
    BY DEF RemovesOwnLock
  <2>1. PICK j \in Instances : Validate(j) \/ StartUpdate(j) \/ Publish(j) \/ Fail(j)
    BY DEF Next, Edit, GitLocks, GitWrites, RemoveStale, RemoveNested, Review, Kill, Apply,
       LookForNested, CreateLock, Prepare, Update, Sync
  <2>2. phase[j] \in Holding
    BY <2>1 DEF Validate, StartUpdate, Publish, Fail, StagingInv, TypeOK, Phases, Holding
  <2>3. j = i
    BY <2>1 DEF Validate, StartUpdate, Publish, Fail, Drop, Enter, StagingInv, TypeOK
  <2> QED
    BY <2>2, <2>3, HolderAlone
<1> QED
  BY <1>1, Invariance, PTL DEF Spec, OwnLockOnly

-----------------------------------------------------------------------------
(* Trees of the working copy *)

\* A path is a prefix of itself, so a path that is given is matched.
LEMMA PrefixOfItself ==
  ASSUME WorkingCopyAssumption, NEW p \in Paths
  PROVE  IsPrefix(p, p)
<1>1. p \in Seq(STRING)
  BY DEF WorkingCopyAssumption
<1>2. Len(p) \in Nat
  BY <1>1
<1> QED
  BY <1>2 DEF IsPrefix

\* Paths are taken from another tree, and what stands in their way is gone.
Overlays(t, old, paths, to) ==
  \A p \in Paths :
    IF p \in paths THEN t[p] = to[p]
    ELSE \/ t[p] = Absent
         \/ /\ t[p] = old[p]
            /\ \A q \in paths \cap FilesOf(to) :
                 ~IsStrictPrefix(p, q) /\ ~IsStrictPrefix(q, p)

LEMMA OverlayIsWellFormed ==
  ASSUME NEW old, NEW to, WellFormed(old), WellFormed(to), NEW paths, NEW t,
         Overlays(t, old, paths, to)
  PROVE  WellFormed(t)
<1> USE DEF Overlays
<1>1. ASSUME NEW p \in FilesOf(t), NEW q \in FilesOf(t)
      PROVE  ~IsStrictPrefix(p, q)
  <2>1. p \in Paths /\ q \in Paths /\ t[p] # Absent /\ t[q] # Absent
    BY DEF FilesOf
  <2>2. CASE p \in paths /\ q \in paths
    <3>1. p \in FilesOf(to) /\ q \in FilesOf(to)
      BY <2>1, <2>2 DEF FilesOf
    <3> QED
      BY <3>1 DEF WellFormed
  <2>3. CASE p \notin paths /\ q \notin paths
    <3>1. p \in FilesOf(old) /\ q \in FilesOf(old)
      BY <2>1, <2>3 DEF FilesOf
    <3> QED
      BY <3>1 DEF WellFormed
  <2>4. CASE p \in paths /\ q \notin paths
    <3>1. p \in paths \cap FilesOf(to)
      BY <2>1, <2>4 DEF FilesOf
    <3> QED
      BY <2>1, <2>4, <3>1
  <2>5. CASE p \notin paths /\ q \in paths
    <3>1. q \in paths \cap FilesOf(to)
      BY <2>1, <2>5 DEF FilesOf
    <3> QED
      BY <2>1, <2>5, <3>1
  <2> QED
    BY <2>2, <2>3, <2>4, <2>5
<1> QED
  BY <1>1 DEF WellFormed

LEMMA OverlayIsTree ==
  ASSUME NEW old \in Trees, NEW to \in Trees, NEW paths,
         NEW t \in [Paths -> Texts \cup {Absent}], Overlays(t, old, paths, to)
  PROVE  t \in Trees
BY OverlayIsWellFormed DEF Trees

LEMMA WrittenIsTree ==
  ASSUME NEW old \in Trees, NEW to \in Trees, NEW paths \in SUBSET Paths
  PROVE  Written(old, paths, to) \in Trees
<1> DEFINE t == Written(old, paths, to)
<1>1. old \in [Paths -> Texts \cup {Absent}] /\ to \in [Paths -> Texts \cup {Absent}]
  BY DEF Trees
<1>2. t \in [Paths -> Texts \cup {Absent}]
  BY <1>1 DEF Written
<1>3. Overlays(t, old, paths, to)
  BY DEF Overlays, Written
<1> HIDE DEF t
<1>4. t \in Trees
  BY <1>2, <1>3, OverlayIsTree
<1> QED
  BY <1>4 DEF t

LEMMA TakenIsTree ==
  ASSUME entries \in Trees, NEW to \in Trees, NEW paths \in SUBSET Paths
  PROVE  Taken(paths, to) \in Trees
<1> DEFINE t == Taken(paths, to)
<1>1. entries \in [Paths -> Texts \cup {Absent}] /\ to \in [Paths -> Texts \cup {Absent}]
  BY DEF Trees
<1>2. t \in [Paths -> Texts \cup {Absent}]
  BY <1>1 DEF Taken
<1>3. Overlays(t, entries, paths, to)
  BY DEF Overlays, Taken, FilesOf
<1> HIDE DEF t
<1>4. t \in Trees
  BY <1>2, <1>3, OverlayIsTree
<1> QED
  BY <1>4 DEF t

\* A file that is removed, or replaced by nothing that stands in a way.
LEMMA RemovedIsTree ==
  ASSUME NEW old \in Trees, NEW p
  PROVE  [old EXCEPT ![p] = Absent] \in Trees
<1> DEFINE t == [old EXCEPT ![p] = Absent]
<1>1. t \in [Paths -> Texts \cup {Absent}] /\ \A q \in Paths : t[q] \in {old[q], Absent}
  BY DEF Trees
<1> HIDE DEF t
<1>2. FilesOf(t) \subseteq FilesOf(old)
  BY <1>1 DEF FilesOf
<1>3. t \in Trees
  BY <1>1, <1>2 DEF Trees, WellFormed
<1> QED
  BY <1>3 DEF t

LEMMA MatchedIs ==
  ASSUME WorkingCopyAssumption, NEW paths, NEW candidates \in SUBSET Paths
  PROVE  /\ Matched(paths, candidates) \in SUBSET Paths
         /\ \A p \in paths \cap candidates : p \in Matched(paths, candidates)
BY PrefixOfItself DEF Matched

LEMMA IndexesAreTrees ==
  ASSUME WorkingCopyAssumption, head \in Trees, entries \in Trees, files \in Trees, NEW paths
  PROVE  Added(paths) \in Trees /\ Restored(paths) \in Trees
<1>1. /\ FilesOf(entries) \in SUBSET Paths /\ FilesOf(files) \in SUBSET Paths
      /\ FilesOf(head) \in SUBSET Paths
  BY DEF FilesOf
<1>2. /\ Matched(paths, FilesOf(entries) \cup (FilesOf(files) \ Ignored)) \in SUBSET Paths
      /\ Matched(paths, FilesOf(entries) \cup FilesOf(head)) \in SUBSET Paths
  BY <1>1 DEF Matched
<1>3. /\ Taken(Matched(paths, FilesOf(entries) \cup (FilesOf(files) \ Ignored)), files) \in Trees
      /\ Taken(Matched(paths, FilesOf(entries) \cup FilesOf(head)), head) \in Trees
  BY <1>2, TakenIsTree
<1> QED
  BY <1>3 DEF Added, Restored

-----------------------------------------------------------------------------
(* The changes list: rows *)

LEMMA OneRename ==
  ASSUME NEW pair \in Renames
  PROVE  /\ Renames = {pair}
         /\ pair = <<pair[1], pair[2]>>
         /\ pair[1] \in FilesOf(head) \ FilesOf(entries)
         /\ pair[2] \in FilesOf(entries) \ FilesOf(head)
<1> DEFINE removed == FilesOf(head) \ FilesOf(entries)
           added == FilesOf(entries) \ FilesOf(head)
           pairs == {r \in removed \X added : head[r[1]] = entries[r[2]]}
<1>1. Renames = IF pairs = {} THEN {} ELSE {CHOOSE r \in pairs : TRUE}
  BY DEF Renames
<1>2. pairs # {} /\ Renames = {CHOOSE r \in pairs : TRUE}
  BY <1>1
<1>3. (CHOOSE r \in pairs : TRUE) \in pairs
  BY <1>2
<1>4. pair \in pairs /\ Renames = {pair}
  BY <1>2, <1>3
<1>5. pair \in removed \X added
  BY <1>4
<1> HIDE DEF pairs
<1> QED
  BY <1>4, <1>5

\* The three kinds of rows.
LEMMA RowIs ==
  ASSUME WorkingChangesAssumption, NEW row \in Rows
  PROVE  \/ /\ row.untracked /\ row.original = None
            /\ row.path \in Untracked(entries, files)
         \/ /\ ~row.untracked /\ row.original = None
            /\ row.path \in Staged(head, entries) \cup Unstaged(entries, files)
            /\ row = Row(row.path, None)
            /\ \A pair \in Renames : row.path # pair[1] /\ row.path # pair[2]
         \/ /\ ~row.untracked
            /\ \E pair \in Renames : /\ row.original = pair[1] /\ row.path = pair[2]
                                     /\ row = Row(pair[2], pair[1])
<1>1. CASE row \in UntrackedRows
  BY <1>1 DEF UntrackedRows
<1>2. ASSUME NEW p \in Staged(head, entries) \cup Unstaged(entries, files),
             \A pair \in Renames : p # pair[1] /\ p # pair[2],
             row = Row(p, None)
      PROVE  /\ ~row.untracked /\ row.original = None /\ row.path = p
             /\ row = Row(row.path, None)
  BY <1>2 DEF Row
<1>3. ASSUME NEW pair \in Renames, row = Row(pair[2], pair[1])
      PROVE  ~row.untracked /\ row.original = pair[1] /\ row.path = pair[2]
  BY <1>3 DEF Row
<1>4. CASE row \in TrackedRows
  <2>1. CASE \E pair \in Renames : row = Row(pair[2], pair[1])
    BY <1>3, <2>1
  <2>2. CASE \E p \in {q \in Staged(head, entries) \cup Unstaged(entries, files) :
                         \A pair \in Renames : q # pair[1] /\ q # pair[2]} : row = Row(p, None)
    <3>1. PICK p \in Staged(head, entries) \cup Unstaged(entries, files) :
            (\A pair \in Renames : p # pair[1] /\ p # pair[2]) /\ row = Row(p, None)
      BY <2>2
    <3>2. /\ ~row.untracked /\ row.original = None /\ row.path = p
          /\ row = Row(row.path, None)
      BY <1>2, <3>1
    <3> QED
      BY <3>1, <3>2
  <2> QED
    BY <1>4, <2>1, <2>2 DEF TrackedRows
<1> QED
  BY <1>1, <1>4 DEF Rows

\* No path has two tracked rows.
LEMMA RowsAreDisjoint ==
  ASSUME WorkingChangesAssumption, NEW row \in Rows, NEW other \in Rows, row # other,
         ~row.untracked, ~other.untracked
  PROVE  RowPaths(row) \cap RowPaths(other) = {}
<1>1. ASSUME NEW r \in Rows, ~r.untracked
      PROVE  \/ /\ r.original = None /\ r = Row(r.path, None) /\ RowPaths(r) = {r.path}
                /\ \A pair \in Renames : r.path # pair[1] /\ r.path # pair[2]
             \/ \E pair \in Renames : /\ RowPaths(r) \subseteq {pair[1], pair[2]}
                                      /\ r = Row(pair[2], pair[1])
  BY <1>1, RowIs DEF RowPaths
<1>2. CASE \E pair \in Renames : /\ row = Row(pair[2], pair[1])
                                 /\ RowPaths(row) \subseteq {pair[1], pair[2]}
  <2>1. PICK pair \in Renames : /\ row = Row(pair[2], pair[1])
                                /\ RowPaths(row) \subseteq {pair[1], pair[2]}
    BY <1>2
  <2>2. ~\E p \in Renames : other = Row(p[2], p[1])
    BY <2>1, OneRename
  <2>3. RowPaths(other) = {other.path} /\ other.path # pair[1] /\ other.path # pair[2]
    BY <1>1, <2>1, <2>2
  <2> QED
    BY <2>1, <2>3
<1>3. CASE ~\E pair \in Renames : /\ row = Row(pair[2], pair[1])
                                  /\ RowPaths(row) \subseteq {pair[1], pair[2]}
  <2>1. /\ row = Row(row.path, None) /\ RowPaths(row) = {row.path}
        /\ \A pair \in Renames : row.path # pair[1] /\ row.path # pair[2]
    BY <1>1, <1>3
  <2>2. CASE \E pair \in Renames : /\ other = Row(pair[2], pair[1])
                                   /\ RowPaths(other) \subseteq {pair[1], pair[2]}
    BY <2>1, <2>2
  <2>3. CASE other = Row(other.path, None) /\ RowPaths(other) = {other.path}
    <3>1. row.path # other.path
      BY <2>1, <2>3
    <3> QED
      BY <2>1, <2>3, <3>1
  <2> QED
    BY <1>1, <2>2, <2>3
<1> QED
  BY <1>2, <1>3

\* The paths of a tracked row are in the last commit or in the index.
LEMMA RowPathsAre ==
  ASSUME WorkingChangesAssumption, WorkingCopyAssumption,
         head \in Trees, entries \in Trees, files \in Trees, NEW row \in Rows
  PROVE  /\ RowPaths(row) \subseteq Paths /\ row.path \in RowPaths(row)
         /\ ~row.untracked =>
              /\ RowPaths(row) \subseteq FilesOf(entries) \cup FilesOf(head)
              /\ row.index = entries[row.path]
              /\ row.present <=> row.path \in FilesOf(entries) /\ row.path \in FilesOf(files)
<1>1. row.path \in RowPaths(row)
  BY DEF RowPaths
<1>2. /\ FilesOf(entries) \subseteq Paths /\ FilesOf(files) \subseteq Paths
      /\ FilesOf(head) \subseteq Paths
  BY DEF FilesOf
<1>3. CASE row.untracked /\ row.original = None /\ row.path \in Untracked(entries, files)
  BY <1>1, <1>2, <1>3 DEF RowPaths, Untracked
<1>4. CASE /\ ~row.untracked /\ row.original = None
           /\ row.path \in Staged(head, entries) \cup Unstaged(entries, files)
           /\ row = Row(row.path, None)
  <2>1. RowPaths(row) = {row.path}
    BY <1>4 DEF RowPaths
  <2>2. row.path \in FilesOf(entries) \cup FilesOf(head)
    BY <1>4 DEF Staged, Unstaged, Changes, FilesOf
  <2>3. PICK p : p = row.path
    OBVIOUS
  <2>4. row.index = entries[p] /\ (row.present <=> p \in FilesOf(entries) /\ p \in FilesOf(files))
    <3>1. row = Row(p, None)
      BY <1>4, <2>3
    <3>2. row.index = entries[p]
      BY <3>1 DEF Row
    <3>3. row.present = (p \in FilesOf(entries) /\ p \in FilesOf(files))
      BY <3>1 DEF Row
    <3> QED
      BY <3>2, <3>3
  <2> QED
    BY <1>1, <1>2, <1>4, <2>1, <2>2, <2>3, <2>4
<1>5. CASE ~row.untracked /\ \E pair \in Renames : /\ row.original = pair[1] /\ row.path = pair[2]
                                                  /\ row = Row(pair[2], pair[1])
  <2>1. PICK pair \in Renames : /\ row.original = pair[1] /\ row.path = pair[2]
                                /\ row = Row(pair[2], pair[1])
    BY <1>5
  <2>2. pair[1] \in FilesOf(head) /\ pair[2] \in FilesOf(entries)
    BY OneRename
  <2>3. RowPaths(row) \subseteq {pair[1], pair[2]}
    BY <2>1 DEF RowPaths
  <2>4. /\ row.index = entries[pair[2]]
        /\ row.present <=> pair[2] \in FilesOf(entries) /\ pair[2] \in FilesOf(files)
    BY <2>1 DEF Row
  <2> QED
    BY <1>1, <1>2, <1>5, <2>1, <2>2, <2>3, <2>4
<1> QED
  BY <1>3, <1>4, <1>5, RowIs

\* Unstaging rows that are still right leaves none of their paths staged.
LEMMA UnstagingLeaves ==
  ASSUME WorkingChangesAssumption, WorkingCopyAssumption,
         head \in Trees, entries \in Trees, files \in Trees,
         NEW rows \in SUBSET Rows, \A row \in rows : row.staged, NEW row \in rows
  PROVE  {row.path, row.original} \cap Staged(head, Restored(PathsOf(rows))) = {}
<1> DEFINE paths == PathsOf(rows)
           known == FilesOf(entries) \cup FilesOf(head)
           new == Taken(Matched(paths, known), head)
<1>1. \A r \in rows : ~r.untracked
  BY RowIs DEF Rows, UntrackedRows, TrackedRows, Row
<1>2. paths \subseteq known
  BY <1>1, RowPathsAre DEF PathsOf
<1>3. known \in SUBSET Paths
  BY DEF FilesOf
<1>4. \A p \in paths : p \in Matched(paths, known) /\ p \in Paths /\ p \in Matched({p}, known)
  <2>1. ASSUME NEW p \in paths
        PROVE  p \in Matched(paths, known) /\ p \in Paths /\ p \in Matched({p}, known)
    <3>1. p \in paths \cap known /\ p \in {p} \cap known
      BY <1>2
    <3> HIDE DEF paths, known
    <3> QED
      BY <1>3, <3>1, MatchedIs
  <2> QED
    BY <2>1
<1>5. ~\E p \in paths : Matched({p}, known) = {}
  BY <1>4
<1>6. Restored(paths) = new
  BY <1>5 DEF Restored
<1>7. \A p \in paths : new[p] = head[p]
  BY <1>4 DEF Taken
<1>8. \A p \in paths : p \notin Staged(head, new)
  BY <1>7 DEF Staged, Changes
<1>9. row.path \in paths /\ (row.original # None => row.original \in paths)
  BY DEF PathsOf, RowPaths
<1>10. None \notin Staged(head, new)
  BY DEF Staged, Changes, WorkingChangesAssumption
<1> HIDE DEF new, paths
<1> QED
  BY <1>6, <1>8, <1>9, <1>10 DEF paths

-----------------------------------------------------------------------------
(* The inductive invariant of the changes list *)

\* A plan that was compared is that of its paths as they are: they are the ones of
\* its row, nothing stands above or below them, and Git will not match others.
PlanHolds ==
  LET row == plan.row
      paths == RowPaths(row)
  IN /\ row.path \in paths /\ paths \subseteq Paths
     /\ plan.head = head
     /\ \A p \in paths : plan.working[p] = files[p]
     /\ \A p \in paths, q \in FilesOf(files) : ~IsStrictPrefix(p, q) /\ ~IsStrictPrefix(q, p)
     /\ row.untracked => paths = {row.path} /\ row.path \notin FilesOf(entries)
     /\ ~row.untracked =>
          /\ paths \subseteq FilesOf(entries) \cup FilesOf(head)
          /\ Matched(paths, FilesOf(entries)) \subseteq paths
          /\ Matched(paths, FilesOf(head)) \subseteq paths
          /\ row.index = entries[row.path]
          /\ \A p \in paths \cap FilesOf(files) : p \in FilesOf(entries)

ChangesInvariant ==
  /\ head \in Trees /\ entries \in Trees /\ files \in Trees
  /\ stage \in {"idle", "reviewed", "checked"}
  /\ (plan = NoPlan) <=> (stage = "idle")
  /\ stage # "idle" => plan.kind = "discard" /\ plan.head \in Trees
  /\ stage = "checked" /\ ~raced => PlanHolds

\* What a plan that is made now is about.
LEMMA PlansHold ==
  ASSUME WorkingChangesAssumption, WorkingCopyAssumption,
         head \in Trees, entries \in Trees, files \in Trees, plan \in Plans(plan.row)
  PROVE  PlanHolds
<1> DEFINE row == plan.row
           paths == RowPaths(row)
<1>1. /\ row \in Rows
      /\ \A p \in paths : Reachable(p) /\ ~IsDirectory(files, p)
      /\ IF row.untracked THEN files[row.path] # Absent
         ELSE SingleFile(paths) /\ \A p \in paths : Unoccupied(row, p)
      /\ plan = [kind |-> "discard", row |-> row, head |-> head,
                 working |-> [p \in paths |-> files[p]]]
  BY DEF Plans
<1>2. plan.head = head /\ \A p \in paths : plan.working[p] = files[p]
  BY <1>1
<1>3. \A p \in paths, q \in FilesOf(files) : ~IsStrictPrefix(p, q) /\ ~IsStrictPrefix(q, p)
  BY <1>1 DEF Reachable, IsDirectory
<1>4. /\ paths \subseteq Paths /\ row.path \in paths
      /\ ~row.untracked =>
           /\ paths \subseteq FilesOf(entries) \cup FilesOf(head)
           /\ row.index = entries[row.path]
           /\ row.present <=> row.path \in FilesOf(entries) /\ row.path \in FilesOf(files)
  BY <1>1, RowPathsAre
<1>5. row.untracked => paths = {row.path} /\ row.path \notin FilesOf(entries)
  BY <1>1, RowIs DEF RowPaths, Untracked
<1>6. ASSUME ~row.untracked
      PROVE  /\ Matched(paths, FilesOf(entries)) \subseteq paths
             /\ Matched(paths, FilesOf(head)) \subseteq paths
             /\ \A p \in paths \cap FilesOf(files) : p \in FilesOf(entries)
  <2>1. SingleFile(paths) /\ \A p \in paths : Unoccupied(row, p)
    BY <1>1, <1>6
  <2>2. Matched(paths, FilesOf(entries)) \subseteq paths
    BY <2>1 DEF SingleFile
  <2>3. Matched(paths, FilesOf(head)) \subseteq paths
    BY <2>1 DEF SingleFile, IsDirectory, Matched, IsStrictPrefix
  <2>4. ASSUME NEW p \in paths \cap FilesOf(files)
        PROVE  p \in FilesOf(entries)
    <3>1. files[p] # Absent
      BY <2>4 DEF FilesOf
    <3>2. p # row.original /\ row.present
      BY <2>1, <3>1 DEF Unoccupied
    <3>3. p = row.path
      BY <3>2 DEF RowPaths
    <3> QED
      BY <1>4, <1>6, <3>2, <3>3
  <2> QED
    BY <2>2, <2>3, <2>4
<1> QED
  BY <1>2, <1>3, <1>4, <1>5, <1>6 DEF PlanHolds

LEMMA ChangesInitInv ==
  ASSUME ChangesInit
  PROVE  ChangesInvariant
BY DEF ChangesInit, ChangesInvariant

\* A plan depends on the trees only.
LEMMA PlanStays ==
  ASSUME PlanHolds, UNCHANGED <<head, entries, files, plan>>
  PROVE  PlanHolds'
BY DEF PlanHolds

\* The index is changed while nothing is reviewed.
LEMMA IdleStep ==
  ASSUME ChangesInvariant, WorkingCopyAssumption,
         StageRows \/ UnstageRows \/ StageAll \/ UnstageAll \/ CommitStaged
  PROVE  ChangesInvariant'
<1>1. /\ stage = "idle" /\ UNCHANGED <<files, shown, plan, stage, raced>>
      /\ head' \in {head, entries}
  BY DEF StageRows, UnstageRows, StageAll, UnstageAll, CommitStaged
<1>2. entries' \in Trees
  <2>1. CASE StageRows \/ UnstageRows
    BY <2>1, IndexesAreTrees DEF StageRows, UnstageRows, ChangesInvariant
  <2>2. CASE StageAll
    <3>1. FilesOf(entries) \cup (FilesOf(files) \ Ignored) \in SUBSET Paths
      BY DEF FilesOf
    <3> QED
      BY <2>2, <3>1, TakenIsTree DEF StageAll, ChangesInvariant
  <2>3. CASE UnstageAll \/ CommitStaged
    BY <2>3 DEF UnstageAll, CommitStaged, ChangesInvariant
  <2> QED
    BY <2>1, <2>2, <2>3
<1> QED
  BY <1>1, <1>2 DEF ChangesInvariant

LEMMA RunDiscardStep ==
  ASSUME ChangesInvariant, WorkingCopyAssumption, RunDiscard
  PROVE  ChangesInvariant'
<1> DEFINE matched == Matched(RowPaths(plan.row), FilesOf(entries) \cup FilesOf(plan.head))
<1>1. /\ stage = "checked" /\ stage' = "idle" /\ plan' = NoPlan
      /\ head' = head /\ plan.head \in Trees
  BY DEF RunDiscard, ChangesInvariant
<1>2. matched \in SUBSET Paths
  BY DEF Matched, FilesOf
<1>3. CASE plan.row.untracked
  <2>1. entries' = entries /\ files' \in {files, [files EXCEPT ![plan.row.path] = Absent]}
    BY <1>3 DEF RunDiscard, ChangesInvariant, Trees
  <2>2. files \in Trees /\ [files EXCEPT ![plan.row.path] = Absent] \in Trees
    BY RemovedIsTree DEF ChangesInvariant
  <2>3. entries' \in Trees /\ files' \in Trees
    BY <2>1, <2>2 DEF ChangesInvariant
  <2> QED
    BY <1>1, <2>3 DEF ChangesInvariant
<1>4. CASE ~plan.row.untracked
  <2>1. entries' = Taken(matched, plan.head) /\ files' = Written(files, matched, plan.head)
    BY <1>4 DEF RunDiscard
  <2> HIDE DEF matched
  <2>2. entries' \in Trees /\ files' \in Trees
    BY <1>1, <1>2, <2>1, TakenIsTree, WrittenIsTree DEF ChangesInvariant
  <2> QED
    BY <1>1, <2>2 DEF ChangesInvariant
<1> QED
  BY <1>3, <1>4

LEMMA OutsideStep ==
  ASSUME ChangesInvariant, WorkingCopyAssumption, Outside
  PROVE  ChangesInvariant'
<1>1. UNCHANGED <<plan, stage>> /\ raced' = (raced \/ stage = "checked")
  BY DEF Outside
<1>2. CASE EditFile
  <2>1. head' = head /\ entries' = entries /\ files' \in Trees
    BY <1>2 DEF EditFile, Edits, ChangesInvariant, Trees
  <2> QED
    BY <1>1, <2>1 DEF ChangesInvariant
<1>3. CASE AddOutside
  <2>1. PICK p \in Paths : entries' = Taken({p}, files)
    BY <1>3 DEF AddOutside
  <2>2. entries' \in Trees
    BY <2>1, TakenIsTree DEF ChangesInvariant
  <2> QED
    BY <1>1, <1>3, <2>2 DEF AddOutside, ChangesInvariant
<1>4. CASE CommitOutside
  BY <1>1, <1>4 DEF CommitOutside, ChangesInvariant
<1> QED
  BY <1>2, <1>3, <1>4 DEF Outside

LEMMA ReviewStep ==
  ASSUME ChangesInvariant, WorkingChangesAssumption, WorkingCopyAssumption,
         ReviewDiscard \/ Cancel \/ Check \/ Refresh
  PROVE  ChangesInvariant'
<1>1. head' = head /\ entries' = entries /\ files' = files
  BY DEF ReviewDiscard, Cancel, Check, Refresh
<1>2. CASE ReviewDiscard
  <2>1. PICK row \in shown : plan' \in Plans(row)
    BY <1>2 DEF ReviewDiscard
  <2>2. plan'.kind = "discard" /\ plan'.head = head /\ plan' # NoPlan
    BY <2>1 DEF Plans, NoPlan
  <2> QED
    BY <1>1, <1>2, <2>2 DEF ReviewDiscard, ChangesInvariant
<1>3. CASE Cancel
  BY <1>1, <1>3 DEF Cancel, ChangesInvariant
<1>4. CASE Check
  <2>1. CASE plan \in Plans(plan.row)
    <3>1. PlanHolds
      BY <2>1, PlansHold DEF ChangesInvariant
    <3>2. stage' = "checked" /\ plan' = plan /\ stage = "reviewed"
      BY <1>4, <2>1 DEF Check
    <3>3. PlanHolds'
      BY <1>1, <3>1, <3>2, PlanStays
    <3> QED
      BY <1>1, <3>2, <3>3 DEF ChangesInvariant
  <2>2. CASE plan \notin Plans(plan.row)
    BY <1>1, <1>4, <2>2 DEF Check, ChangesInvariant
  <2> QED
    BY <2>1, <2>2
<1>5. CASE Refresh
  <2>1. UNCHANGED <<plan, stage, raced>>
    BY <1>5 DEF Refresh
  <2>2. PlanHolds => PlanHolds'
    BY <1>1, <2>1, PlanStays
  <2> QED
    BY <1>1, <2>1, <2>2 DEF ChangesInvariant
<1> QED
  BY <1>2, <1>3, <1>4, <1>5

LEMMA ChangesStep ==
  ASSUME ChangesInvariant, WorkingChangesAssumption, WorkingCopyAssumption,
         [ChangesNext]_changesVars
  PROVE  ChangesInvariant'
<1>1. CASE ChangesNext
  BY <1>1, IdleStep, RunDiscardStep, OutsideStep, ReviewStep DEF ChangesNext
<1>2. CASE UNCHANGED changesVars
  <2>1. UNCHANGED <<head, entries, files, plan, stage, raced>>
    BY <1>2 DEF changesVars
  <2>2. PlanHolds => PlanHolds'
    BY <2>1, PlanStays
  <2> QED
    BY <2>1, <2>2 DEF ChangesInvariant
<1> QED
  BY <1>1, <1>2

-----------------------------------------------------------------------------
(* The changes list: what a discard does *)

\* Git is given the reviewed paths and matches no other.
LEMMA MatchesReviewed ==
  ASSUME ChangesInvariant, WorkingCopyAssumption, PlanHolds, ~plan.row.untracked
  PROVE  Matched(RowPaths(plan.row), FilesOf(entries) \cup FilesOf(plan.head)) = RowPaths(plan.row)
<1> DEFINE paths == RowPaths(plan.row)
           known == FilesOf(entries) \cup FilesOf(head)
<1>1. /\ Matched(paths, FilesOf(entries)) \subseteq paths
      /\ Matched(paths, FilesOf(head)) \subseteq paths
      /\ paths \subseteq known /\ plan.head = head
  BY DEF PlanHolds
<1>2. known \in SUBSET Paths
  BY DEF FilesOf
<1>3. Matched(paths, known) \subseteq paths
  BY <1>1 DEF Matched
<1>4. paths \subseteq Matched(paths, known)
  BY <1>1, <1>2, MatchedIs
<1> QED
  BY <1>1, <1>3, <1>4

LEMMA DiscardKeepsOthers ==
  ASSUME ChangesInvariant, WorkingCopyAssumption, RunDiscard, PlanHolds, ~plan.row.untracked
  PROVE  /\ \A p \in Paths \ RowPaths(plan.row) :
              /\ files'[p] = files[p]
              /\ entries'[p] # entries[p] => \E q \in RowPaths(plan.row) : IsStrictPrefix(p, q)
         /\ \A p \in RowPaths(plan.row) : entries'[p] = head[p] /\ files'[p] = head[p]
<1> DEFINE paths == RowPaths(plan.row)
<1>1. plan.head = head /\ paths \subseteq Paths
  BY DEF PlanHolds
<1>2. entries' = Taken(paths, head) /\ files' = Written(files, paths, head)
  BY <1>1, MatchesReviewed DEF RunDiscard
<1>3. \A p \in paths : entries'[p] = head[p] /\ files'[p] = head[p]
  BY <1>1, <1>2 DEF Taken, Written
<1>4. ASSUME NEW p \in Paths \ paths
      PROVE  files'[p] = files[p]
  <2>1. CASE p \in FilesOf(files)
    <3>1. \A q \in paths : ~IsStrictPrefix(p, q) /\ ~IsStrictPrefix(q, p)
      BY <2>1 DEF PlanHolds
    <3> QED
      BY <1>2, <3>1 DEF Written
  <2>2. CASE files[p] = Absent
    BY <1>2, <2>2 DEF Written
  <2> QED
    BY <2>1, <2>2 DEF FilesOf
<1>5. ASSUME NEW p \in Paths \ paths, entries'[p] # entries[p]
      PROVE  \E q \in paths : IsStrictPrefix(p, q)
  <2>1. PICK q \in paths : /\ IsStrictPrefix(q, p) \/ IsStrictPrefix(p, q)
                           /\ entries'[p] = Absent
    BY <1>2, <1>5 DEF Taken
  <2>2. p \in FilesOf(entries) /\ p \notin Matched(paths, FilesOf(entries))
    BY <1>5, <2>1 DEF FilesOf, PlanHolds
  <2>3. ~IsStrictPrefix(q, p)
    BY <2>2 DEF Matched, IsStrictPrefix
  <2> QED
    BY <2>1, <2>3
<1> QED
  BY <1>3, <1>4, <1>5

LEMMA DiscardsAreReviewed ==
  ASSUME ChangesInvariant, WorkingCopyAssumption, ChangesNext
  PROVE  DiscardsReviewed /\ DiscardMatchesHead
<1> SUFFICES ASSUME stage = "checked", stage' = "idle", ~raced
             PROVE  DiscardsReviewed /\ DiscardMatchesHead
  BY DEF DiscardsReviewed, DiscardMatchesHead
<1>1. RunDiscard
  BY DEF ChangesNext, Refresh, StageRows, UnstageRows, StageAll, UnstageAll, CommitStaged,
         ReviewDiscard, Cancel, Check, Outside
<1>2. PlanHolds
  BY DEF ChangesInvariant
<1>3. CASE plan.row.untracked
  <2>1. RowPaths(plan.row) = {plan.row.path} /\ plan.row.path \notin FilesOf(entries)
    BY <1>2, <1>3 DEF PlanHolds
  <2>2. \A p \in RowPaths(plan.row) : plan.working[p] = files[p]
    BY <1>2 DEF PlanHolds
  <2>3. \A p \in Paths : files'[p] # files[p] => p = plan.row.path
    BY <1>1, <1>3 DEF RunDiscard, ChangesInvariant, Trees, FilesOf
  <2>4. entries' = entries
    BY <1>1, <1>3 DEF RunDiscard
  <2> QED
    BY <1>3, <2>1, <2>2, <2>3, <2>4 DEF DiscardsReviewed, DiscardMatchesHead, Changes
<1>4. CASE ~plan.row.untracked
  <2>1. /\ \A p \in Paths \ RowPaths(plan.row) :
             /\ files'[p] = files[p]
             /\ entries'[p] # entries[p] => \E q \in RowPaths(plan.row) : IsStrictPrefix(p, q)
        /\ \A p \in RowPaths(plan.row) : entries'[p] = head[p] /\ files'[p] = head[p]
    BY <1>1, <1>2, <1>4, DiscardKeepsOthers
  <2>2. /\ \A p \in RowPaths(plan.row) : plan.working[p] = files[p]
        /\ \A p \in RowPaths(plan.row) \cap FilesOf(files) : p \in FilesOf(entries)
        /\ entries[plan.row.path] = plan.row.index
    BY <1>2, <1>4 DEF PlanHolds
  <2>3. DiscardsReviewed
    BY <1>4, <2>1, <2>2 DEF DiscardsReviewed, Changes
  <2>4. DiscardMatchesHead
    BY <2>1, <2>2 DEF DiscardMatchesHead
  <2> QED
    BY <2>3, <2>4
<1> QED
  BY <1>3, <1>4

\* Unstaging uses the last commit, which it leaves.
LEMMA RowsAreUnstaged ==
  ASSUME ChangesInvariant, WorkingChangesAssumption, WorkingCopyAssumption
  PROVE  UnstagedLeave
<1> SUFFICES ASSUME NEW rows \in Chosen("staged"), rows \subseteq Rows,
                    entries' = Restored(PathsOf(rows)), NEW row \in rows
             PROVE  {row.path, row.original} \cap Staged(head, entries') = {}
  BY DEF UnstagedLeave
<1>1. rows \in SUBSET Rows /\ \A r \in rows : r.staged
  BY DEF Chosen
<1>2. {row.path, row.original} \cap Staged(head, Restored(PathsOf(rows))) = {}
  BY <1>1, UnstagingLeaves DEF ChangesInvariant
<1> QED
  BY <1>2

LEMMA ChangesTypes ==
  ASSUME ChangesInvariant, WorkingChangesAssumption
  PROVE  ChangesTypeOK
BY RowsAreDisjoint DEF ChangesInvariant, ChangesTypeOK, Trees

(***************************************************************************)
(* A discard loses what was reviewed and nothing else, creates no other    *)
(* file and changes no other entry but one above its path, and unstaging   *)
(* rows leaves nothing of them staged (execute_discard,                    *)
(* WriteCommand::Unstage): for any paths, contents, ignored files and      *)
(* trees.                                                                  *)
(***************************************************************************)
THEOREM DiscardsLoseNothing ==
  ASSUME WorkingCopyAssumption, WorkingChangesAssumption
  PROVE  ChangesSpec => OnlyReviewedIsDiscarded
<1>1. ChangesInit => ChangesInvariant
  BY ChangesInitInv
<1>2. ChangesInvariant /\ [ChangesNext]_changesVars => ChangesInvariant'
  BY ChangesStep
<1>3. ChangesInvariant /\ [ChangesNext]_changesVars =>
        [ /\ ChangesTypeOK /\ DiscardsReviewed /\ DiscardMatchesHead
          /\ UnstagedLeave ]_changesVars
  BY ChangesTypes, DiscardsAreReviewed, RowsAreUnstaged
<1> QED
  BY <1>1, <1>2, <1>3, PTL DEF ChangesSpec, OnlyReviewedIsDiscarded

-----------------------------------------------------------------------------
(* Recovery: the names of a path *)

\* The names a path begins with.
LEMMA FirstNames ==
  ASSUME WorkingCopyAssumption, NEW p \in Paths
  PROVE  /\ p \in Seq(STRING) /\ Len(p) \in Nat \ {0} /\ p = SubSeq(p, 1, Len(p))
         /\ \A n \in 1..Len(p) :
              /\ SubSeq(p, 1, n) \in Seq(STRING) /\ Len(SubSeq(p, 1, n)) = n
              /\ \A i \in 1..n : SubSeq(p, 1, n)[i] = p[i]
<1>1. p \in Seq(STRING) /\ p # <<>>
  BY DEF WorkingCopyAssumption
<1>2. Len(p) \in Nat \ {0}
  BY <1>1, EmptySeq, LenProperties
<1>3. ASSUME NEW n \in 1..Len(p)
      PROVE  /\ SubSeq(p, 1, n) \in Seq(STRING) /\ Len(SubSeq(p, 1, n)) = n
             /\ \A i \in 1..n : SubSeq(p, 1, n)[i] = p[i]
  <2>1. n \in Int /\ \A i \in 1..n : p[i] \in STRING
    BY <1>1, <1>2, ElementOfSeq
  <2>2. /\ SubSeq(p, 1, n) \in Seq(STRING)
        /\ Len(SubSeq(p, 1, n)) = IF 1 <= n THEN n - 1 + 1 ELSE 0
        /\ \A i \in 1..(n - 1 + 1) : SubSeq(p, 1, n)[i] = p[1 + i - 1]
    BY <2>1, SubSeqProperties
  <2> QED
    BY <1>2, <2>2
<1>4. p = SubSeq(p, 1, Len(p))
  BY <1>1, SubSeqFull
<1> QED
  BY <1>1, <1>2, <1>3, <1>4

LEMMA PrefixIs ==
  ASSUME WorkingCopyAssumption, NEW p \in Paths, NEW q \in Paths
  PROVE  /\ IsPrefix(p, q) <=> Len(p) <= Len(q) /\ SubSeq(q, 1, Len(p)) = p
         /\ IsPrefix(p, q) => \A n \in 1..Len(p) : SubSeq(p, 1, n) = SubSeq(q, 1, n)
<1>1. /\ p \in Seq(STRING) /\ Len(p) \in Nat \ {0} /\ p = SubSeq(p, 1, Len(p))
      /\ q \in Seq(STRING) /\ Len(q) \in Nat \ {0}
  BY FirstNames
<1>2. IsPrefix(p, q) <=> Len(p) <= Len(q) /\ SubSeq(q, 1, Len(p)) = p
  BY <1>1 DEF IsPrefix
<1>3. ASSUME IsPrefix(p, q), NEW n \in 1..Len(p)
      PROVE  SubSeq(p, 1, n) = SubSeq(q, 1, n)
  <2> DEFINE s == SubSeq(p, 1, n)
             t == SubSeq(q, 1, n)
  <2>1. n \in 1..Len(q)
    BY <1>1, <1>2, <1>3
  <2>2. \A i \in 1..Len(p) : p[i] = q[i]
    BY <1>1, <1>2, <1>3, FirstNames
  <2>3. /\ s \in Seq(STRING) /\ Len(s) = n /\ \A i \in 1..n : s[i] = p[i]
        /\ t \in Seq(STRING) /\ Len(t) = n /\ \A i \in 1..n : t[i] = q[i]
    BY <2>1, FirstNames
  <2>4. \A i \in 1..n : s[i] = t[i]
    BY <1>1, <2>2, <2>3
  <2> HIDE DEF s, t
  <2>5. s = t
    BY <2>3, <2>4, SeqEqual
  <2> QED
    BY <2>5 DEF s, t
<1> QED
  BY <1>2, <1>3

\* The names above a path.
LEMMA StrictPrefixIs ==
  ASSUME WorkingCopyAssumption, NEW p \in Paths, NEW q \in Paths
  PROVE  /\ IsStrictPrefix(p, q) => Len(p) < Len(q)
         /\ IsPrefix(p, q) <=> IsStrictPrefix(p, q) \/ p = q
<1>1. Len(p) \in Nat /\ Len(q) \in Nat /\ q = SubSeq(q, 1, Len(q)) /\ p = SubSeq(p, 1, Len(p))
  BY FirstNames
<1>2. IsPrefix(p, q) <=> Len(p) <= Len(q) /\ SubSeq(q, 1, Len(p)) = p
  BY PrefixIs
<1> QED
  BY <1>1, <1>2 DEF IsStrictPrefix

LEMMA AboveIsPrefix ==
  ASSUME WorkingCopyAssumption, NEW q \in Paths, NEW n \in 1..Len(q), n < Len(q)
  PROVE  IsStrictPrefix(SubSeq(q, 1, n), q)
<1> DEFINE s == SubSeq(q, 1, n)
<1>1. /\ s \in Seq(STRING) /\ Len(s) = n /\ Len(q) \in Nat
      /\ q = SubSeq(q, 1, Len(q))
  BY FirstNames
<1>2. SubSeq(s, 1, Len(s)) = s
  BY <1>1, SubSeqFull
<1> HIDE DEF s
<1>3. SubSeq(s, 1, Len(s)) = SubSeq(q, 1, Len(s))
  BY <1>1, <1>2 DEF s
<1>4. IsStrictPrefix(s, q)
  BY <1>1, <1>3 DEF IsPrefix, IsStrictPrefix
<1> QED
  BY <1>4 DEF s

-----------------------------------------------------------------------------
(* What protect_recovery_paths protects *)

\* The walk along a path ends at its first name that is no directory on the way.
LEMMA WalkEnds ==
  ASSUME WorkingCopyAssumption, NEW found, NEW indexed, NEW affected, NEW q \in Paths,
         NEW k \in 1..Len(q),
         \A n \in 1..Len(q) : n < k => IsDirectory(found, SubSeq(q, 1, n)),
         SubSeq(q, 1, k) = q \/ ~IsDirectory(found, SubSeq(q, 1, k)),
         Exists(found, SubSeq(q, 1, k)), Unobstructed(indexed, found, affected, q)
  PROVE  SubSeq(q, 1, k) \in FilesOf(indexed)
<1> DEFINE Prefix(n) == SubSeq(q, 1, n)
           Passed(r) == r # q /\ IsDirectory(found, r)
           stop == {n \in 1..Len(q) : ~Passed(Prefix(n))}
           first == CHOOSE n \in stop : \A m \in stop : n <= m
<1>1. Len(q) \in Nat
  BY FirstNames
<1>2. k \in stop
  OBVIOUS
<1>3. \A m \in stop : k <= m
  <2>1. ASSUME NEW m \in 1..Len(q), m < k
        PROVE  Passed(Prefix(m))
    <3>1. Len(Prefix(m)) = m /\ m < Len(q)
      BY <1>1, <2>1, FirstNames
    <3> QED
      BY <2>1, <3>1
  <2> HIDE DEF Passed
  <2> QED
    BY <1>1, <2>1
<1>4. \A n \in stop : n \in Int
  BY <1>1
<1> HIDE DEF stop
<1>5. first = k
  <2>1. first \in stop /\ \A m \in stop : first <= m
    BY <1>2, <1>3
  <2>2. first <= k /\ k <= first /\ first \in Int /\ k \in Int
    BY <1>2, <1>3, <1>4, <2>1
  <2> HIDE DEF first
  <2> QED
    BY <2>2
<1>6. \/ ~Exists(found, Prefix(first))
      \/ Prefix(first) \in FilesOf(indexed)
  BY DEF Unobstructed, stop
<1> HIDE DEF first
<1> QED
  BY <1>5, <1>6

\* No file with work of its own is, lies above or lies below an affected path.
LEMMA LocalIsApart ==
  ASSUME WorkingCopyAssumption, NEW commit, NEW indexed, NEW found, WellFormed(found),
         NEW affected \in SUBSET Paths, Protected(commit, indexed, found, affected),
         NEW p \in Local(commit, found), NEW q \in affected
  PROVE  ~Related(p, q)
<1>1. /\ p \in Paths /\ p \in FilesOf(found) /\ found[p] # Absent /\ found[p] # commit[p]
      /\ q \in Paths /\ p # <<>>
  BY DEF Local, FilesOf, WorkingCopyAssumption
<1>2. Len(p) \in Nat \ {0} /\ Len(q) \in Nat \ {0}
  BY <1>1, FirstNames
<1>3. CASE p \in Listed(commit, indexed, found)
  BY <1>3 DEF Protected
<1>4. CASE p \notin Listed(commit, indexed, found)
  <2>1. p \notin FilesOf(indexed)
    <3>1. commit[p] = indexed[p]
      BY <1>1, <1>4 DEF Listed, Staged, Changes
    <3> QED
      BY <1>1, <1>4, <3>1 DEF Listed, Unstaged, Changes
  <2>2. Unobstructed(indexed, found, affected, q)
    BY DEF Protected
  <2>3. ASSUME IsPrefix(p, q)
        PROVE  FALSE
    <3>1. /\ Len(p) <= Len(q) /\ SubSeq(q, 1, Len(p)) = p
          /\ \A n \in 1..Len(p) : SubSeq(p, 1, n) = SubSeq(q, 1, n)
      BY <1>1, <2>3, PrefixIs
    <3>2. \A n \in 1..Len(q) : n < Len(p) => IsDirectory(found, SubSeq(q, 1, n))
      <4> SUFFICES ASSUME NEW n \in 1..Len(q), n < Len(p)
                   PROVE  IsDirectory(found, SubSeq(q, 1, n))
        OBVIOUS
      <4>1. n \in 1..Len(p)
        BY <1>2
      <4>2. IsStrictPrefix(SubSeq(p, 1, n), p)
        BY <1>1, <4>1, AboveIsPrefix
      <4> QED
        BY <1>1, <3>1, <4>1, <4>2 DEF IsDirectory
    <3>3. ~IsDirectory(found, p)
      BY <1>1 DEF IsDirectory, WellFormed
    <3>4. Exists(found, p)
      BY <1>1 DEF Exists
    <3>5. Len(p) \in 1..Len(q)
      BY <1>2, <3>1
    <3>6. p \in FilesOf(indexed)
      BY <1>1, <2>2, <3>1, <3>2, <3>3, <3>4, <3>5, WalkEnds
    <3> QED
      BY <2>1, <3>6
  <2>4. ASSUME IsStrictPrefix(q, p)
        PROVE  FALSE
    <3>1. IsPrefix(q, p) /\ Len(q) < Len(p)
      BY <1>1, <2>4, StrictPrefixIs DEF IsStrictPrefix
    <3>2. /\ SubSeq(q, 1, Len(q)) = q
          /\ \A n \in 1..Len(q) : SubSeq(q, 1, n) = SubSeq(p, 1, n)
      BY <1>1, <3>1, PrefixIs, FirstNames
    <3>3. \A n \in 1..Len(q) : IsDirectory(found, SubSeq(q, 1, n))
      <4> SUFFICES ASSUME NEW n \in 1..Len(q)
                   PROVE  IsDirectory(found, SubSeq(q, 1, n))
        OBVIOUS
      <4>1. n \in 1..Len(p) /\ n < Len(p)
        BY <1>2, <3>1
      <4>2. IsStrictPrefix(SubSeq(p, 1, n), p)
        BY <1>1, <4>1, AboveIsPrefix
      <4> QED
        BY <1>1, <3>2, <4>2 DEF IsDirectory
    <3>4. Len(q) \in 1..Len(q)
      BY <1>2
    <3>5. Exists(found, q)
      BY <3>2, <3>3, <3>4 DEF Exists
    <3>6. q \in FilesOf(indexed)
      BY <1>1, <2>2, <3>2, <3>3, <3>4, <3>5, WalkEnds
    <3>7. q \notin FilesOf(found)
      BY <1>1, <2>4 DEF WellFormed
    <3>8. q \in Listed(commit, indexed, found)
      BY <1>1, <3>6, <3>7 DEF Listed, Unstaged, Changes, FilesOf
    <3>9. IsPrefix(q, q)
      BY <1>1, StrictPrefixIs
    <3> QED
      BY <3>8, <3>9 DEF Protected, Related
  <2> QED
    BY <1>1, <2>3, <2>4, StrictPrefixIs DEF Related
<1> QED
  BY <1>3, <1>4

\* Writing paths that are protected leaves such files alone.
LEMMA ProtectedKeeps ==
  ASSUME WorkingCopyAssumption, NEW commit, NEW indexed, NEW found, WellFormed(found),
         NEW affected \in SUBSET Paths, Protected(commit, indexed, found, affected),
         NEW paths \in SUBSET affected, NEW to, NEW p \in Local(commit, found)
  PROVE  Written(found, paths, to)[p] = found[p]
<1>1. p \in Paths
  BY DEF Local, FilesOf
<1>2. \A q \in affected : ~Related(p, q)
  BY LocalIsApart
<1>3. IsPrefix(p, p)
  BY <1>1, StrictPrefixIs
<1>4. p \notin paths /\ \A q \in paths : ~IsStrictPrefix(p, q) /\ ~IsStrictPrefix(q, p)
  BY <1>2, <1>3 DEF Related, IsStrictPrefix
<1> QED
  BY <1>1, <1>4 DEF Written

-----------------------------------------------------------------------------
(* Trees with conflict markers *)

\* What a path of a tree may hold.
TreeContents == Texts \cup {Absent, Markers}

LEMMA WrittenIsMarked ==
  ASSUME NEW old \in MarkedTrees, NEW to \in MarkedTrees, NEW paths \in SUBSET Paths
  PROVE  Written(old, paths, to) \in MarkedTrees
<1> DEFINE t == Written(old, paths, to)
<1>1. old \in [Paths -> TreeContents] /\ to \in [Paths -> TreeContents]
  BY DEF MarkedTrees, TreeContents
<1>2. t \in [Paths -> TreeContents]
  BY <1>1 DEF Written, TreeContents
<1>3. Overlays(t, old, paths, to)
  BY DEF Overlays, Written
<1>4. WellFormed(old) /\ WellFormed(to)
  BY DEF MarkedTrees
<1> HIDE DEF t
<1>5. t \in MarkedTrees
  BY <1>2, <1>3, <1>4, OverlayIsWellFormed DEF MarkedTrees, TreeContents
<1> QED
  BY <1>5 DEF t

\* A tree with some files only.
LEMMA FewerFiles ==
  ASSUME NEW old \in MarkedTrees, NEW t \in [Paths -> TreeContents],
         \A p \in Paths : t[p] \in {old[p], Absent}
  PROVE  t \in MarkedTrees
<1>1. FilesOf(t) \subseteq FilesOf(old)
  BY DEF FilesOf
<1> QED
  BY <1>1 DEF MarkedTrees, WellFormed, TreeContents

\* What a merge leaves of a path.
LEMMA MergedIs ==
  ASSUME NEW base \in [Paths -> TreeContents], NEW ours \in [Paths -> TreeContents],
         NEW theirs \in [Paths -> TreeContents], WorkingCopyAssumption
  PROVE  /\ Merged(base, ours, theirs) \in [Paths -> TreeContents]
         /\ Conflicts(base, ours, theirs) \subseteq FilesOf(Merged(base, ours, theirs))
         /\ \A p \in Paths : theirs[p] = base[p] =>
              /\ Merged(base, ours, theirs)[p] = ours[p]
              /\ p \notin Conflicts(base, ours, theirs)
<1>1. ASSUME NEW p \in Paths
      PROVE  Unmerged(ours[p], theirs[p]) \in TreeContents
  BY DEF Unmerged, TreeContents
<1>2. Merged(base, ours, theirs) \in [Paths -> TreeContents]
  BY <1>1 DEF Merged
<1>3. ASSUME NEW p \in Conflicts(base, ours, theirs)
      PROVE  p \in FilesOf(Merged(base, ours, theirs))
  <2>1. p \in Paths /\ ours[p] # theirs[p]
    BY DEF Conflicts
  <2>2. Unmerged(ours[p], theirs[p]) # Absent
    BY <2>1 DEF Unmerged, WorkingCopyAssumption
  <2>3. Merged(base, ours, theirs)[p] = Unmerged(ours[p], theirs[p])
    BY <2>1 DEF Merged
  <2> QED
    BY <2>1, <2>2, <2>3 DEF FilesOf
<1>4. ASSUME NEW p \in Paths, theirs[p] = base[p]
      PROVE  /\ Merged(base, ours, theirs)[p] = ours[p]
             /\ p \notin Conflicts(base, ours, theirs)
  BY <1>4 DEF Merged, Conflicts
<1> QED
  BY <1>2, <1>3, <1>4

-----------------------------------------------------------------------------
(* The inductive invariant of recovery *)

\* The entries of the stash.
Entries == [n : Nat, base : MarkedTrees, index : MarkedTrees, work : MarkedTrees,
            untracked : MarkedTrees]

\* Commits have older parents.
OlderParents == \A c \in 1..Len(hist) : ToSet(hist[c].parents) \subseteq 1..(c - 1)

HistoryInv ==
  /\ hist \in Seq(Commits) /\ OlderParents
  /\ tip \in 1..Len(hist) /\ remote \in 0..Len(hist)

TreesInv ==
  indexTree \in MarkedTrees /\ workTree \in MarkedTrees /\ unresolved \subseteq Paths

\* Entries are numbered downwards.
Numbered == \A i, j \in 1..Len(stash) : i < j => stash[j].n < stash[i].n

StashInv ==
  stash \in Seq(Entries) /\ Len(stash) <= MaxStash /\ Numbered

RepositoryInv == HistoryInv /\ TreesInv /\ StashInv

\* What a proposal says stays true of the commits that were there.
ProposalTypes ==
  /\ progress \in {"idle", "reviewed", "checked"}
  /\ progress = "idle" => proposal = NoPlan
  /\ progress # "idle" => proposal.kind \in Kinds \cup {"stash", "apply", "drop"}
  /\ proposal.kind \in Kinds =>
       proposal.target \in 1..Len(hist) /\ proposal.mainline \in Mainlines(proposal.target)
  /\ proposal.kind = "undo" => Len(hist[proposal.target].parents) = 1
  /\ proposal.kind = "apply" =>
       LET entry == proposal.log[proposal.entry]
       IN /\ {entry.base, entry.index, entry.work, entry.untracked} \subseteq MarkedTrees
          /\ proposal.staged \in BOOLEAN
  /\ proposal.kind = "drop" => proposal.entry \in Nat \ {0}

\* What a comparison finds, as the repository is.
ProposalHolds ==
  /\ proposal.kind # "drop" => proposal.current = Current
  /\ proposal.kind \in Kinds => ~elsewhere
  /\ proposal.kind = "undo" => proposal.target = tip /\ ~Published(tip)
  /\ proposal.kind \in {"revert", "cherry-pick"} =>
       /\ Staged(LastTree, indexTree) = {}
       /\ Protected(LastTree, indexTree, workTree,
                    Changes(ParentTree(proposal.target, proposal.mainline),
                            TreeOf(proposal.target)))
  /\ proposal.kind = "stash" =>
       /\ Readable(Included(proposal.untracked))
       /\ proposal.affected = Included(proposal.untracked)
       /\ proposal.token = Token(proposal.affected)
  /\ proposal.kind = "apply" =>
       Protected(LastTree, indexTree, workTree, SavedPaths(stash[proposal.entry]))
  /\ proposal.kind \in {"apply", "drop"} =>
       proposal.entry \in 1..Len(stash) /\ proposal.log = Log(proposal.entry)

\* The repository is in order, and between the comparison and Git's run the
\* plan fits it unless others changed it meanwhile.
RecoveryInvariant ==
  /\ RepositoryInv
  /\ ProposalTypes
  /\ progress = "checked" /\ ~overtaken => ProposalHolds

-----------------------------------------------------------------------------
(* Recovery: plans *)

LEMMA CommitPlanIs ==
  ASSUME NEW kind \in Kinds, NEW c, NEW n, NEW p \in CommitPlans(kind, c, n)
  PROVE  /\ p.kind = kind /\ p.target = c /\ p.mainline = n /\ p.current = Current
         /\ ~elsewhere /\ n \in Mainlines(c)
         /\ kind = "undo" => c = tip /\ Len(hist[c].parents) = 1 /\ ~Published(c)
         /\ kind \in {"revert", "cherry-pick"} =>
              /\ Staged(LastTree, indexTree) = {}
              /\ Protected(LastTree, indexTree, workTree, Changes(ParentTree(c, n), TreeOf(c)))
<1>1. /\ ~elsewhere /\ n \in Mainlines(c) /\ Allowed(kind, c)
      /\ kind \in {"revert", "cherry-pick"} =>
           Protected(LastTree, indexTree, workTree, Affected(kind, c, n))
  BY DEF CommitPlans
<1>2. p = [kind |-> kind, current |-> Current, target |-> c, mainline |-> n,
           affected |-> Affected(kind, c, n), published |-> Published(c)]
  BY DEF CommitPlans
<1>3. p.kind = kind /\ p.target = c /\ p.mainline = n /\ p.current = Current
  BY <1>2
<1>4. kind = "undo" => c = tip /\ Len(hist[c].parents) = 1 /\ ~Published(c)
  BY <1>1 DEF Allowed
<1>5. ASSUME kind \in {"revert", "cherry-pick"}
      PROVE  /\ Staged(LastTree, indexTree) = {}
             /\ Affected(kind, c, n) = Changes(ParentTree(c, n), TreeOf(c))
  <2>1. kind # "amend" /\ kind # "undo"
    BY <1>5
  <2>2. Staged(LastTree, indexTree) = {}
    BY <1>1, <2>1 DEF Allowed
  <2>3. Affected(kind, c, n) = Changes(ParentTree(c, n), TreeOf(c)) \cup {}
    BY <2>1 DEF Affected
  <2> QED
    BY <2>2, <2>3
<1> QED
  BY <1>1, <1>3, <1>4, <1>5

LEMMA StashPlanIs ==
  ASSUME NEW untracked, NEW p \in StashPlans(untracked)
  PROVE  /\ p.kind = "stash" /\ p.untracked = untracked /\ p.current = Current
         /\ p.affected = Included(untracked) /\ p.token = Token(Included(untracked))
         /\ Readable(Included(untracked))
<1>1. /\ Readable(Included(untracked))
      /\ p = [kind |-> "stash", current |-> Current, untracked |-> untracked,
              affected |-> Included(untracked), token |-> Token(Included(untracked))]
  BY DEF StashPlans
<1> QED
  BY <1>1

LEMMA ApplyPlanIs ==
  ASSUME NEW n, NEW staged, NEW p \in ApplyPlans(n, staged)
  PROVE  /\ p.kind = "apply" /\ p.entry = n /\ p.log = Log(n) /\ p.current = Current
         /\ p.staged = staged
         /\ n \in 1..Len(stash)
         /\ Protected(LastTree, indexTree, workTree, SavedPaths(stash[n]))
<1>1. /\ n \in 1..Len(stash)
      /\ Protected(LastTree, indexTree, workTree, SavedPaths(stash[n]))
      /\ p = [kind |-> "apply", current |-> Current, entry |-> n, log |-> Log(n),
              staged |-> staged, affected |-> SavedPaths(stash[n])]
  BY DEF ApplyPlans
<1> QED
  BY <1>1

LEMMA DropPlanIs ==
  ASSUME NEW n, NEW p \in DropPlans(n)
  PROVE  p.kind = "drop" /\ p.entry = n /\ p.log = Log(n) /\ n \in 1..Len(stash)
<1>1. n \in 1..Len(stash) /\ p = [kind |-> "drop", entry |-> n, log |-> Log(n)]
  BY DEF DropPlans
<1> QED
  BY <1>1

\* The log holds the entries' trees.
LEMMA LogIs ==
  ASSUME StashInv, NEW n \in 1..Len(stash)
  PROVE  /\ Log(n)[n] = Object(stash[n]) /\ stash[n] \in Entries
         /\ {Log(n)[n].base, Log(n)[n].index, Log(n)[n].work, Log(n)[n].untracked}
              \subseteq MarkedTrees
<1>1. stash[n] \in Entries
  BY ElementOfSeq DEF StashInv
<1>2. Log(n)[n] = Object(stash[n])
  BY DEF Log
<1> QED
  BY <1>1, <1>2 DEF Object, Entries

\* A comparison that succeeds.
LEMMA AgainHolds ==
  ASSUME ProposalTypes, progress # "idle", proposal \in Again(proposal)
  PROVE  ProposalHolds
<1>1. CASE proposal.kind \in Kinds
  <2>1. proposal \in CommitPlans(proposal.kind, proposal.target, proposal.mainline)
    BY <1>1 DEF Again, Kinds
  <2> QED
    BY <1>1, <2>1, CommitPlanIs DEF ProposalHolds, Kinds
<1>2. CASE proposal.kind = "stash"
  <2>1. proposal \in StashPlans(proposal.untracked)
    BY <1>2 DEF Again, Kinds
  <2> QED
    BY <1>2, <2>1, StashPlanIs DEF ProposalHolds, Kinds
<1>3. CASE proposal.kind = "apply"
  <2>1. proposal \in ApplyPlans(proposal.entry, proposal.staged)
    BY <1>3 DEF Again, Kinds
  <2> QED
    BY <1>3, <2>1, ApplyPlanIs DEF ProposalHolds, Kinds
<1>4. CASE proposal.kind = "drop"
  <2>1. proposal \in DropPlans(proposal.entry)
    BY <1>4 DEF Again, Kinds
  <2> QED
    BY <1>4, <2>1, DropPlanIs DEF ProposalHolds, Kinds
<1> QED
  BY <1>1, <1>2, <1>3, <1>4 DEF ProposalTypes

LEMMA RecoveryInitInv ==
  ASSUME WorkingCopyAssumption, RecoveryAssumption, RecoveryInit
  PROVE  RecoveryInvariant
<1>1. /\ hist \in Seq(Commits) /\ hist # <<>>
      /\ \A i \in 1..Len(hist) : ToSet(hist[i].parents) \subseteq 1..(i - 1)
  BY DEF RecoveryInit, RecoveryAssumption
<1>2. Len(hist) \in 1..Len(hist)
  BY <1>1, LenProperties, EmptySeq
<1>3. indexTree \in MarkedTrees
  <2>1. hist[Len(hist)] \in Commits
    BY <1>1, <1>2, ElementOfSeq
  <2> QED
    BY <2>1 DEF RecoveryInit, TreeOf, Commits
<1>4. workTree \in MarkedTrees
  BY DEF RecoveryInit, Trees, MarkedTrees
<1>5. stash \in Seq(Entries) /\ Len(stash) = 0 /\ MaxStash \in Nat
  BY EmptySeq DEF RecoveryInit, RecoveryAssumption
<1>6. RepositoryInv
  BY <1>1, <1>2, <1>3, <1>4, <1>5
     DEF RepositoryInv, HistoryInv, OlderParents, TreesInv, StashInv, Numbered, RecoveryInit
<1>7. ProposalTypes
  BY DEF ProposalTypes, RecoveryInit, NoPlan, Kinds
<1> QED
  BY <1>6, <1>7 DEF RecoveryInvariant, RecoveryInit

-----------------------------------------------------------------------------
(* Recovery: commits and the stash *)

LEMMA CommitsAre ==
  ASSUME HistoryInv, NEW c \in 1..Len(hist)
  PROVE  /\ hist[c] = [tree |-> TreeOf(c), parents |-> hist[c].parents]
         /\ TreeOf(c) \in MarkedTrees /\ hist[c].parents \in Seq(Nat)
         /\ \A i \in 1..Len(hist[c].parents) : hist[c].parents[i] \in 1..(c - 1)
<1>1. hist[c] \in Commits /\ ToSet(hist[c].parents) \subseteq 1..(c - 1)
  BY ElementOfSeq DEF HistoryInv, OlderParents
<1>2. hist[c].parents \in Seq(Nat) /\ hist[c].tree \in MarkedTrees
  BY <1>1 DEF Commits
<1>3. DOMAIN hist[c].parents = 1..Len(hist[c].parents)
  BY <1>2, LenProperties
<1>4. \A i \in 1..Len(hist[c].parents) : hist[c].parents[i] \in 1..(c - 1)
  BY <1>1, <1>3 DEF ToSet
<1> QED
  BY <1>1, <1>2, <1>4 DEF TreeOf, Commits

LEMMA EmptyIsTree == EmptyTree \in MarkedTrees
<1>1. EmptyTree \in [Paths -> TreeContents] /\ FilesOf(EmptyTree) = {}
  BY DEF EmptyTree, TreeContents, FilesOf
<1> QED
  BY <1>1 DEF MarkedTrees, WellFormed, TreeContents

\* The parent that a plan names has a tree.
LEMMA ParentTrees ==
  ASSUME HistoryInv, NEW c \in 1..Len(hist), NEW n \in Mainlines(c)
  PROVE  ParentTree(c, n) \in MarkedTrees
<1> DEFINE parents == hist[c].parents
<1>1. /\ parents \in Seq(Nat) /\ Len(hist) \in Nat
      /\ \A i \in 1..Len(parents) : parents[i] \in 1..(c - 1)
  BY CommitsAre, LenProperties DEF HistoryInv
<1>2. CASE parents = <<>>
  BY <1>2, EmptyIsTree DEF ParentTree
<1>3. CASE parents # <<>>
  <2>1. Len(parents) \in Nat \ {0}
    BY <1>1, <1>3, LenProperties, EmptySeq
  <2>2. n \in 1..Len(parents)
    BY <2>1 DEF Mainlines
  <2>3. parents[n] \in 1..Len(hist)
    BY <1>1, <2>2
  <2> QED
    BY <1>3, <2>3, CommitsAre DEF ParentTree
<1> QED
  BY <1>2, <1>3

LEMMA LastIsTree ==
  ASSUME HistoryInv
  PROVE  LastTree \in MarkedTrees
BY CommitsAre DEF HistoryInv, LastTree

\* Commits are only added.
Grows ==
  /\ Len(hist) <= Len(hist')
  /\ \A c \in 1..Len(hist) : hist'[c] = hist[c]

LEMMA NewCommitIs ==
  ASSUME HistoryInv, NEW tree \in MarkedTrees, NEW parents \in Seq(Nat),
         ToSet(parents) \subseteq 1..Len(hist), hist' = NewCommit(tree, parents)
  PROVE  /\ hist' \in Seq(Commits) /\ Len(hist') = Len(hist) + 1 /\ Len(hist) \in Nat
         /\ hist'[Len(hist')].tree = tree
         /\ OlderParents' /\ Grows
<1> DEFINE new == [tree |-> tree, parents |-> parents]
<1>1. hist \in Seq(Commits) /\ Len(hist) \in Nat
  BY LenProperties DEF HistoryInv
<1>2. new \in Commits
  BY DEF Commits
<1>3. hist' = Append(hist, new)
  BY DEF NewCommit
<1>4. /\ hist' \in Seq(Commits) /\ Len(hist') = Len(hist) + 1
      /\ \A i \in 1..Len(hist) : hist'[i] = hist[i]
      /\ hist'[Len(hist) + 1] = new
  <2> HIDE DEF new
  <2> QED
    BY <1>1, <1>2, <1>3, AppendProperties
<1>5. ASSUME NEW c \in 1..Len(hist')
      PROVE  ToSet(hist'[c].parents) \subseteq 1..(c - 1)
  <2>1. CASE c \in 1..Len(hist)
    BY <1>4, <2>1 DEF HistoryInv, OlderParents
  <2>2. CASE c = Len(hist) + 1
    <3>1. hist'[c].parents = parents /\ c - 1 = Len(hist)
      BY <1>1, <1>4, <2>2
    <3> QED
      BY <3>1
  <2> QED
    BY <1>1, <1>4, <2>1, <2>2
<1>6. Grows
  BY <1>1, <1>4 DEF Grows
<1> QED
  BY <1>1, <1>4, <1>5, <1>6 DEF OlderParents

LEMMA PushedIs ==
  ASSUME StashInv, NEW entry \in Entries, entry.n = NextNumber,
         stash' = <<entry>> \o stash
  PROVE  /\ stash' \in Seq(Entries) /\ Len(stash') = Len(stash) + 1 /\ Len(stash) \in Nat
         /\ stash'[1] = entry
         /\ \A i \in 1..Len(stash) : stash'[i + 1] = stash[i]
         /\ Numbered'
<1>1. stash \in Seq(Entries) /\ Len(stash) \in Nat /\ <<entry>> \in Seq(Entries)
  BY LenProperties DEF StashInv
<1>2. /\ stash' \in Seq(Entries) /\ Len(stash') = 1 + Len(stash)
      /\ \A i \in 1..(1 + Len(stash)) : stash'[i] = IF i <= 1 THEN <<entry>>[i] ELSE stash[i - 1]
  <2>1. Len(<<entry>>) = 1
    OBVIOUS
  <2> QED
    BY <1>1, <2>1, ConcatProperties
<1>3. stash'[1] = entry /\ \A i \in 1..Len(stash) : stash'[i + 1] = stash[i]
  BY <1>1, <1>2
<1>4. \A i \in 1..Len(stash) : stash[i].n \in Nat
  <2>1. \A i \in 1..Len(stash) : stash[i] \in Entries
    BY <1>1, ElementOfSeq
  <2> QED
    BY <2>1 DEF Entries
<1>5. \A i \in 1..Len(stash) : stash[i].n < entry.n
  <2> SUFFICES ASSUME NEW i \in 1..Len(stash)
               PROVE  stash[i].n < entry.n
    OBVIOUS
  <2>1. 1 \in 1..Len(stash) /\ stash # <<>>
    BY <1>1, EmptySeq
  <2>2. entry.n = 1 + stash[1].n
    BY <2>1 DEF NextNumber
  <2>3. i = 1 \/ stash[i].n < stash[1].n
    BY <1>1, <2>1 DEF StashInv, Numbered
  <2> QED
    BY <1>4, <2>1, <2>2, <2>3
<1>6. ASSUME NEW i \in 1..Len(stash'), NEW j \in 1..Len(stash'), i < j
      PROVE  stash'[j].n < stash'[i].n
  <2>1. j - 1 \in 1..Len(stash) /\ stash'[j] = stash[j - 1]
    BY <1>1, <1>2, <1>6
  <2>2. CASE i = 1
    BY <1>3, <1>5, <2>1, <2>2
  <2>3. CASE i # 1
    <3>1. i - 1 \in 1..Len(stash) /\ stash'[i] = stash[i - 1] /\ i - 1 < j - 1
      BY <1>1, <1>2, <1>6, <2>3
    <3> QED
      BY <2>1, <3>1 DEF StashInv, Numbered
  <2> QED
    BY <2>2, <2>3
<1> QED
  BY <1>1, <1>2, <1>3, <1>6 DEF Numbered

LEMMA DroppedIs ==
  ASSUME StashInv, NEW n \in 1..Len(stash), stash' = RemoveAt(stash, n)
  PROVE  /\ stash' \in Seq(Entries) /\ Len(stash') = Len(stash) - 1 /\ Len(stash) \in Nat
         /\ \A i \in 1..Len(stash) : i # n => stash[i] \in ToSet(stash')
         /\ Numbered'
<1> DEFINE newer == SubSeq(stash, 1, n - 1)
           older == SubSeq(stash, n + 1, Len(stash))
           len == Len(stash)
<1>1. stash \in Seq(Entries) /\ len \in Nat /\ n \in 1..len
  BY LenProperties DEF StashInv
<1>2. \A i \in 1..len : stash[i] \in Entries
  BY <1>1, ElementOfSeq
<1>3. /\ newer \in Seq(Entries) /\ Len(newer) = n - 1
      /\ \A i \in 1..(n - 1) : newer[i] = stash[i]
  <2>1. \A i \in 1..(n - 1) : stash[i] \in Entries
    BY <1>1, <1>2
  <2>2. /\ newer \in Seq(Entries)
        /\ Len(newer) = IF 1 <= n - 1 THEN (n - 1) - 1 + 1 ELSE 0
        /\ \A i \in 1..((n - 1) - 1 + 1) : newer[i] = stash[1 + i - 1]
    BY <1>1, <2>1, SubSeqProperties
  <2> QED
    BY <1>1, <2>2
<1>4. /\ older \in Seq(Entries) /\ Len(older) = len - n
      /\ \A i \in 1..(len - n) : older[i] = stash[n + i]
  <2>1. \A i \in (n + 1)..len : stash[i] \in Entries
    BY <1>1, <1>2
  <2>2. /\ older \in Seq(Entries)
        /\ Len(older) = IF n + 1 <= len THEN len - (n + 1) + 1 ELSE 0
        /\ \A i \in 1..(len - (n + 1) + 1) : older[i] = stash[(n + 1) + i - 1]
    BY <1>1, <2>1, SubSeqProperties
  <2> QED
    BY <1>1, <2>2
<1>5. stash' = newer \o older
  BY DEF RemoveAt
<1> HIDE DEF newer, older, len
<1>6. /\ stash' \in Seq(Entries) /\ Len(stash') = len - 1
      /\ \A i \in 1..(len - 1) : stash'[i] = IF i < n THEN stash[i] ELSE stash[i + 1]
  <2>1. /\ stash' \in Seq(Entries) /\ Len(stash') = Len(newer) + Len(older)
        /\ \A i \in 1..(Len(newer) + Len(older)) :
             stash'[i] = IF i <= Len(newer) THEN newer[i] ELSE older[i - Len(newer)]
    <3>1. newer \in Seq(Entries) /\ older \in Seq(Entries)
      BY <1>3, <1>4
    <3>2. /\ newer \o older \in Seq(Entries)
          /\ Len(newer \o older) = Len(newer) + Len(older)
          /\ \A i \in 1..(Len(newer) + Len(older)) : (newer \o older)[i] =
               IF i <= Len(newer) THEN newer[i] ELSE older[i - Len(newer)]
      BY <3>1, ConcatProperties
    <3> QED
      BY <1>5, <3>2
  <2> QED
    BY <1>1, <1>3, <1>4, <2>1
<1>7. ASSUME NEW i \in 1..len, i # n
      PROVE  stash[i] \in ToSet(stash')
  <2>1. DOMAIN stash' = 1..(len - 1)
    BY <1>6, LenProperties
  <2>2. CASE i < n
    BY <1>1, <1>6, <2>1, <2>2 DEF ToSet
  <2>3. CASE i > n
    <3>1. i - 1 \in 1..(len - 1) /\ stash'[i - 1] = stash[i]
      BY <1>1, <1>6, <2>3
    <3> QED
      BY <2>1, <3>1 DEF ToSet
  <2> QED
    BY <1>1, <1>7, <2>2, <2>3
<1>8. ASSUME NEW i \in 1..Len(stash'), NEW j \in 1..Len(stash'), i < j
      PROVE  stash'[j].n < stash'[i].n
  <2> DEFINE was(k) == IF k < n THEN k ELSE k + 1
  <2>1. /\ was(i) \in 1..len /\ was(j) \in 1..len /\ was(i) < was(j)
        /\ stash'[i] = stash[was(i)] /\ stash'[j] = stash[was(j)]
    BY <1>1, <1>6, <1>8
  <2> HIDE DEF was
  <2> QED
    BY <2>1 DEF StashInv, Numbered, len
<1> QED
  BY <1>1, <1>6, <1>7, <1>8 DEF Numbered, len

-----------------------------------------------------------------------------
(* Recovery: the commands keep the repository in order *)

LEMMA SameStash == ASSUME StashInv, UNCHANGED stash PROVE StashInv'
BY DEF StashInv, Numbered

LEMMA SameHistory == ASSUME HistoryInv, UNCHANGED <<hist, tip, remote>> PROVE HistoryInv'
BY DEF HistoryInv, OlderParents

LEMMA SameTrees ==
  ASSUME TreesInv, UNCHANGED <<indexTree, workTree, unresolved>>
  PROVE  TreesInv'
BY DEF TreesInv

\* A new commit becomes the tip.
LEMMA NewTip ==
  ASSUME HistoryInv, NEW tree \in MarkedTrees, NEW parents \in Seq(Nat),
         ToSet(parents) \subseteq 1..Len(hist), hist' = NewCommit(tree, parents),
         tip' = Len(hist'), remote' \in 0..Len(hist)
  PROVE  /\ HistoryInv' /\ Grows
         /\ tip' > tip /\ hist'[tip'].tree = tree
<1>1. /\ hist' \in Seq(Commits) /\ Len(hist') = Len(hist) + 1 /\ Len(hist) \in Nat
      /\ hist'[Len(hist')].tree = tree
      /\ OlderParents' /\ Grows
  BY NewCommitIs
<1>2. tip \in 1..Len(hist)
  BY DEF HistoryInv
<1> QED
  BY <1>1, <1>2 DEF HistoryInv

LEMMA OneParent ==
  ASSUME HistoryInv
  PROVE  <<tip>> \in Seq(Nat) /\ ToSet(<<tip>>) \subseteq 1..Len(hist)
BY DEF ToSet, HistoryInv

LEMMA AmendStep ==
  ASSUME RepositoryInv, Amend, UNCHANGED remote
  PROVE  /\ RepositoryInv' /\ tip' > tip /\ hist'[tip'].tree = indexTree
<1>1. indexTree \in MarkedTrees /\ tip \in 1..Len(hist) /\ Len(hist) \in Nat
  BY LenProperties DEF RepositoryInv, HistoryInv, TreesInv
<1>2. /\ hist[tip].parents \in Seq(Nat)
      /\ \A i \in 1..Len(hist[tip].parents) : hist[tip].parents[i] \in 1..(tip - 1)
  BY <1>1, CommitsAre DEF RepositoryInv
<1>3. DOMAIN hist[tip].parents = 1..Len(hist[tip].parents)
  BY <1>2, LenProperties
<1>4. ToSet(hist[tip].parents) \subseteq 1..Len(hist)
  BY <1>1, <1>2, <1>3 DEF ToSet
<1>5. HistoryInv' /\ tip' > tip /\ hist'[tip'].tree = indexTree
  <2>1. remote' \in 0..Len(hist)
    BY DEF RepositoryInv, HistoryInv
  <2>2. hist' = NewCommit(indexTree, hist[tip].parents) /\ tip' = Len(hist')
    BY DEF Amend
  <2> QED
    BY <1>1, <1>2, <1>4, <2>1, <2>2, NewTip DEF RepositoryInv
<1>6. StashInv' /\ TreesInv'
  BY SameStash, SameTrees DEF RepositoryInv, Amend
<1> QED
  BY <1>5, <1>6 DEF RepositoryInv

LEMMA UndoStep ==
  ASSUME RepositoryInv, ProposalTypes, proposal.kind = "undo", Undo, UNCHANGED remote
  PROVE  RepositoryInv' /\ tip' < proposal.target
<1>1. proposal.target \in 1..Len(hist) /\ Len(hist[proposal.target].parents) = 1
  BY DEF ProposalTypes, Kinds
<1>2. hist[proposal.target].parents[1] \in 1..(proposal.target - 1)
  <2>1. PICK c : c = proposal.target
    OBVIOUS
  <2>2. \A i \in 1..Len(hist[c].parents) : hist[c].parents[i] \in 1..(c - 1)
    BY <1>1, <2>1, CommitsAre DEF RepositoryInv
  <2> QED
    BY <1>1, <2>1, <2>2
<1>3. Len(hist) \in Nat
  BY LenProperties DEF RepositoryInv, HistoryInv, TreesInv
<1>4. tip' \in 1..Len(hist) /\ tip' < proposal.target
  BY <1>1, <1>2, <1>3 DEF Undo
<1>5. HistoryInv'
  BY <1>4 DEF Undo, RepositoryInv, HistoryInv, OlderParents
<1>6. StashInv' /\ TreesInv'
  BY SameStash, SameTrees DEF RepositoryInv, Undo
<1> QED
  BY <1>4, <1>5, <1>6 DEF RepositoryInv

LEMMA MarkedIs ==
  ASSUME NEW t
  PROVE  t \in MarkedTrees <=> t \in [Paths -> TreeContents] /\ WellFormed(t)
BY DEF MarkedTrees, TreeContents

LEMMA ReplayStep ==
  ASSUME RepositoryInv, WorkingCopyAssumption, NEW base \in MarkedTrees,
         NEW theirs \in MarkedTrees, ReplayCommit(base, theirs), UNCHANGED remote
  PROVE  /\ RepositoryInv' /\ tip' >= tip
         /\ \E result : \E paths \in SUBSET Changes(base, theirs) :
              workTree' = Written(workTree, paths, result)
<1> DEFINE result == Merged(base, LastTree, theirs)
           conflicts == Conflicts(base, LastTree, theirs)
           paths == Changes(LastTree, result)
<1>1. /\ indexTree \in MarkedTrees /\ workTree \in MarkedTrees /\ LastTree \in MarkedTrees
      /\ tip \in 1..Len(hist) /\ Len(hist) \in Nat /\ remote \in 0..Len(hist)
  BY LastIsTree, LenProperties DEF RepositoryInv, HistoryInv, TreesInv
<1>2. /\ result \in [Paths -> TreeContents] /\ conflicts \subseteq FilesOf(result)
      /\ \A p \in Paths : theirs[p] = base[p] => result[p] = LastTree[p]
  BY <1>1, MarkedIs, MergedIs
<1>3. /\ WellFormed(result)
      /\ workTree' = Written(workTree, paths, result)
      /\ indexTree' = [p \in Paths |-> IF p \in conflicts THEN indexTree[p] ELSE result[p]]
      /\ \/ /\ hist' = NewCommit(result, <<tip>>) /\ tip' = Len(hist')
            /\ UNCHANGED unresolved
         \/ unresolved' = conflicts /\ UNCHANGED <<hist, tip>>
      /\ UNCHANGED stash
  BY DEF ReplayCommit
<1> HIDE DEF result, conflicts
<1>4. result \in MarkedTrees
  BY <1>2, <1>3, MarkedIs
<1>5. paths \in SUBSET Changes(base, theirs) /\ paths \in SUBSET Paths
  BY <1>2 DEF Changes
<1> HIDE DEF paths
<1>6. workTree' \in MarkedTrees
  BY <1>1, <1>3, <1>4, <1>5, WrittenIsMarked
<1>7. indexTree' \in MarkedTrees
  <2>1. indexTree \in [Paths -> TreeContents]
    BY <1>1, MarkedIs
  <2>2. indexTree' \in [Paths -> TreeContents]
    BY <1>2, <1>3, <2>1
  <2>3. FilesOf(indexTree') \subseteq FilesOf(result)
    BY <1>2, <1>3 DEF FilesOf
  <2>4. WellFormed(indexTree')
    BY <1>3, <2>3 DEF WellFormed
  <2> QED
    BY <2>2, <2>4, MarkedIs
<1>8. unresolved' \subseteq Paths
  BY <1>2, <1>3 DEF FilesOf, RepositoryInv, TreesInv
<1>9. TreesInv' /\ StashInv'
  BY <1>3, <1>6, <1>7, <1>8, SameStash DEF RepositoryInv, TreesInv
<1>10. HistoryInv' /\ tip' >= tip
  <2>1. CASE UNCHANGED <<hist, tip>>
    BY <1>1, <2>1, SameHistory DEF RepositoryInv
  <2>2. CASE hist' = NewCommit(result, <<tip>>) /\ tip' = Len(hist')
    <3>1. HistoryInv' /\ tip' > tip
      BY <1>1, <1>4, <2>2, OneParent, NewTip DEF RepositoryInv
    <3>2. tip' \in Nat /\ tip \in Nat
      BY <1>1, <3>1, LenProperties DEF HistoryInv
    <3> QED
      BY <3>1, <3>2
  <2> QED
    BY <1>3, <2>1, <2>2
<1> QED
  BY <1>3, <1>5, <1>9, <1>10 DEF RepositoryInv

LEMMA NumbersAre == ASSUME StashInv PROVE NextNumber \in Nat
<1>1. stash \in Seq(Entries) /\ Len(stash) \in Nat
  BY LenProperties DEF StashInv
<1>2. CASE stash # <<>>
  <2>1. 1 \in 1..Len(stash)
    BY <1>1, <1>2, EmptySeq
  <2>2. stash[1] \in Entries
    BY <1>1, <2>1, ElementOfSeq
  <2> QED
    BY <1>2, <2>2 DEF NextNumber, Entries
<1> QED
  BY <1>2 DEF NextNumber

LEMMA SavedIs ==
  ASSUME RepositoryInv, NEW untracked
  PROVE  Saved(untracked) \in Entries /\ Saved(untracked).n = NextNumber
<1> DEFINE taken == IF untracked THEN Untracked(indexTree, workTree) ELSE {}
           found == [p \in Paths |-> IF p \in Tracked THEN workTree[p] ELSE Absent]
           others == [p \in Paths |-> IF p \in taken THEN workTree[p] ELSE Absent]
<1>1. workTree \in MarkedTrees /\ workTree \in [Paths -> TreeContents]
  BY MarkedIs DEF RepositoryInv, TreesInv
<1>2. found \in MarkedTrees
  <2>1. found \in [Paths -> TreeContents] /\ \A p \in Paths : found[p] \in {workTree[p], Absent}
    BY <1>1 DEF TreeContents
  <2> HIDE DEF found
  <2> QED
    BY <1>1, <2>1, FewerFiles
<1>3. others \in MarkedTrees
  <2> HIDE DEF taken
  <2>1. others \in [Paths -> TreeContents] /\ \A p \in Paths : others[p] \in {workTree[p], Absent}
    BY <1>1 DEF TreeContents
  <2> HIDE DEF others
  <2> QED
    BY <1>1, <2>1, FewerFiles
<1>4. Saved(untracked) =
        [n |-> NextNumber, base |-> LastTree, index |-> indexTree,
         work |-> found, untracked |-> others]
  BY DEF Saved
<1>5. NextNumber \in Nat /\ LastTree \in MarkedTrees /\ indexTree \in MarkedTrees
  BY NumbersAre, LastIsTree DEF RepositoryInv, TreesInv
<1> HIDE DEF found, others
<1> QED
  BY <1>2, <1>3, <1>4, <1>5 DEF Entries

LEMMA StashPushStep ==
  ASSUME RepositoryInv, WorkingCopyAssumption, RecoveryAssumption, StashPush, UNCHANGED remote
  PROVE  /\ RepositoryInv' /\ tip' = tip
         /\ stash'[1] = Saved(proposal.untracked) /\ 1 \in 1..Len(stash')
         /\ \A i \in 1..Len(stash) : stash[i] \in ToSet(stash')
<1> DEFINE saved == Saved(proposal.untracked)
           kept == [p \in Paths |-> IF p \in FilesOf(saved.untracked) THEN Absent ELSE workTree[p]]
           paths == Changes(LastTree, workTree) \cap Tracked
<1>1. /\ Len(stash) < MaxStash /\ MaxStash \in Nat
      /\ stash' = <<saved>> \o stash /\ indexTree' = LastTree
      /\ workTree' = Written(kept, paths, LastTree)
      /\ UNCHANGED <<hist, tip, unresolved, op>>
  BY DEF StashPush, RecoveryAssumption
<1>2. saved \in Entries /\ saved.n = NextNumber
  BY SavedIs
<1> HIDE DEF saved
<1>3. /\ stash' \in Seq(Entries) /\ Len(stash') = Len(stash) + 1 /\ Len(stash) \in Nat
      /\ stash'[1] = saved
      /\ \A i \in 1..Len(stash) : stash'[i + 1] = stash[i]
      /\ Numbered'
  BY <1>1, <1>2, PushedIs DEF RepositoryInv
<1>4. StashInv'
  BY <1>1, <1>3 DEF StashInv
<1>5. \A i \in 1..Len(stash) : stash[i] \in ToSet(stash')
  <2>1. DOMAIN stash' = 1..(Len(stash) + 1)
    BY <1>3, LenProperties
  <2>2. ASSUME NEW i \in 1..Len(stash)
        PROVE  stash[i] \in ToSet(stash')
    <3>1. i + 1 \in DOMAIN stash' /\ stash'[i + 1] = stash[i]
      BY <1>3, <2>1
    <3> QED
      BY <3>1 DEF ToSet
  <2> QED
    BY <2>2
<1>6. LastTree \in MarkedTrees /\ workTree \in MarkedTrees /\ workTree \in [Paths -> TreeContents]
  BY LastIsTree, MarkedIs DEF RepositoryInv, TreesInv
<1>7. kept \in MarkedTrees
  <2>1. kept \in [Paths -> TreeContents] /\ \A p \in Paths : kept[p] \in {workTree[p], Absent}
    BY <1>6 DEF TreeContents
  <2> HIDE DEF kept
  <2> QED
    BY <1>6, <2>1, FewerFiles
<1>8. paths \in SUBSET Paths
  BY DEF Changes
<1> HIDE DEF kept, paths
<1>9. workTree' \in MarkedTrees
  BY <1>1, <1>6, <1>7, <1>8, WrittenIsMarked
<1>10. TreesInv' /\ HistoryInv'
  BY <1>1, <1>6, <1>9, SameHistory DEF RepositoryInv, TreesInv
<1> QED
  BY <1>1, <1>3, <1>4, <1>5, <1>10 DEF RepositoryInv, saved

\* What a stash takes off the files is in its entry.
LEMMA PushSaves ==
  ASSUME RepositoryInv, StashPush, Readable(Included(proposal.untracked)),
         stash'[1] = Saved(proposal.untracked), NEW p \in Local(LastTree, workTree)
  PROVE  \/ workTree'[p] = workTree[p]
         \/ workTree[p] \in {stash'[1].work[p], stash'[1].untracked[p]}
<1> DEFINE untracked == proposal.untracked
           taken == IF untracked THEN Untracked(indexTree, workTree) ELSE {}
           saved == Saved(untracked)
           kept == [q \in Paths |-> IF q \in FilesOf(saved.untracked) THEN Absent ELSE workTree[q]]
           paths == Changes(LastTree, workTree) \cap Tracked
<1>1. p \in Paths /\ p \in FilesOf(workTree) /\ workTree[p] # LastTree[p] /\ workTree[p] # Absent
  BY DEF Local, FilesOf
<1>2. /\ saved.work[p] = IF p \in Tracked THEN workTree[p] ELSE Absent
      /\ saved.untracked[p] = IF p \in taken THEN workTree[p] ELSE Absent
  BY <1>1 DEF Saved
<1>3. workTree' = Written(kept, paths, LastTree) /\ stash'[1] = saved
  BY DEF StashPush
<1> HIDE DEF saved
<1>4. CASE p \in Tracked \/ p \in taken
  BY <1>2, <1>3, <1>4
<1>5. CASE p \notin Tracked /\ p \notin taken
  <2>1. p \notin paths
    BY <1>5
  <2>2. kept[p] = workTree[p]
    BY <1>1, <1>2, <1>5 DEF FilesOf
  <2>3. ASSUME NEW q \in paths \cap FilesOf(LastTree)
        PROVE  ~IsStrictPrefix(p, q) /\ ~IsStrictPrefix(q, p)
    <3>1. q \in Paths /\ LastTree[q] # workTree[q] /\ LastTree[q] # Absent
      BY DEF Changes, FilesOf
    <3>2. q \in Included(untracked)
      BY <3>1 DEF Included, Staged, Unstaged, Changes, FilesOf
    <3>3. ~IsDirectory(workTree, q) /\ ~IsStrictPrefix(p, q)
      BY <1>1, <3>2 DEF Readable
    <3> QED
      BY <1>1, <3>3 DEF IsDirectory
  <2> HIDE DEF kept, paths
  <2>4. workTree'[p] = workTree[p]
    BY <1>1, <1>3, <2>1, <2>2, <2>3 DEF Written
  <2> QED
    BY <2>4
<1> QED
  BY <1>4, <1>5

LEMMA StashDropStep ==
  ASSUME RepositoryInv, RecoveryAssumption, ProposalTypes, proposal.kind = "drop", StashDrop,
         UNCHANGED remote
  PROVE  /\ RepositoryInv' /\ tip' = tip
         /\ \A i \in 1..Len(stash) : i # proposal.entry => stash[i] \in ToSet(stash')
<1>1. proposal.entry \in 1..Len(stash) /\ stash' = RemoveAt(stash, proposal.entry)
  <2>1. proposal.entry \in Nat \ {0} /\ proposal.entry <= Len(stash) /\ Len(stash) \in Nat
    BY LenProperties DEF StashDrop, ProposalTypes, Kinds, RepositoryInv, StashInv
  <2> QED
    BY <2>1 DEF StashDrop
<1>2. PICK n \in 1..Len(stash) : n = proposal.entry /\ stash' = RemoveAt(stash, n)
  BY <1>1
<1>3. /\ stash' \in Seq(Entries) /\ Len(stash') = Len(stash) - 1 /\ Len(stash) \in Nat
      /\ \A i \in 1..Len(stash) : i # n => stash[i] \in ToSet(stash')
      /\ Numbered'
  BY <1>2, DroppedIs DEF RepositoryInv
<1>4. StashInv'
  <2>1. Len(stash) <= MaxStash /\ Len(stash') < Len(stash)
    BY <1>3 DEF RepositoryInv, StashInv
  <2>2. Len(stash') <= MaxStash
    BY <1>3, <2>1 DEF RecoveryAssumption
  <2> QED
    BY <1>3, <2>2 DEF StashInv
<1>5. HistoryInv' /\ TreesInv' /\ tip' = tip
  BY SameHistory, SameTrees DEF StashDrop, RepositoryInv
<1> QED
  BY <1>2, <1>3, <1>4, <1>5 DEF RepositoryInv

\* The files after git stash apply: the merge, and what was untracked.
AppliedFiles(indexed, base, found, others) ==
  [p \in Paths |-> IF p \in FilesOf(others) THEN others[p] ELSE Merged(base, indexed, found)[p]]

\* What an applied entry changes: the merge of its files, with its untracked files
\* over them.
LEMMA AppliedFilesAre ==
  ASSUME WorkingCopyAssumption, NEW indexed \in MarkedTrees, NEW base \in MarkedTrees,
         NEW found \in MarkedTrees, NEW others \in MarkedTrees
  PROVE  /\ AppliedFiles(indexed, base, found, others) \in [Paths -> TreeContents]
         /\ Changes(indexed, AppliedFiles(indexed, base, found, others))
              \subseteq Changes(base, found) \cup FilesOf(others)
<1>1. /\ indexed \in [Paths -> TreeContents] /\ base \in [Paths -> TreeContents]
      /\ found \in [Paths -> TreeContents] /\ others \in [Paths -> TreeContents]
  BY MarkedIs
<1>2. /\ Merged(base, indexed, found) \in [Paths -> TreeContents]
      /\ \A p \in Paths : found[p] = base[p] => Merged(base, indexed, found)[p] = indexed[p]
  BY <1>1, MergedIs
<1> QED
  BY <1>1, <1>2 DEF AppliedFiles, Changes

\* The index after git stash apply: paths in conflict stay, --index restores what
\* was staged, and otherwise only new files are added.
AddedBy(base, found, indexed) ==
  {p \in FilesOf(found) \ FilesOf(base) : \A q \in FilesOf(indexed) : q = p \/ ~Related(p, q)}

AppliedIndex(indexed, base, found, stagedTree, restore) ==
  [p \in Paths |->
     IF p \in Conflicts(base, indexed, found) THEN indexed[p]
     ELSE IF restore THEN Merged(base, indexed, stagedTree)[p]
     ELSE IF p \in AddedBy(base, found, indexed) THEN Merged(base, indexed, found)[p]
     ELSE indexed[p]]

\* The index that is left is a tree.
LEMMA AppliedIndexIsTree ==
  ASSUME WorkingCopyAssumption, NEW indexed \in MarkedTrees, NEW base \in MarkedTrees,
         NEW found \in MarkedTrees, NEW stagedTree \in MarkedTrees, NEW restore \in BOOLEAN,
         restore => Conflicts(base, indexed, stagedTree) = {},
         WellFormed(Merged(base, indexed, stagedTree))
  PROVE  AppliedIndex(indexed, base, found, stagedTree, restore) \in MarkedTrees
<1> DEFINE new == AppliedIndex(indexed, base, found, stagedTree, restore)
           added == AddedBy(base, found, indexed)
           merged == Merged(base, indexed, stagedTree)
           result == Merged(base, indexed, found)
<1>1. /\ indexed \in [Paths -> TreeContents] /\ base \in [Paths -> TreeContents]
      /\ found \in [Paths -> TreeContents] /\ stagedTree \in [Paths -> TreeContents]
      /\ WellFormed(indexed) /\ WellFormed(found)
  BY MarkedIs
<1>2. merged \in [Paths -> TreeContents] /\ result \in [Paths -> TreeContents]
  BY <1>1, MergedIs
<1>3. /\ new \in [Paths -> TreeContents]
      /\ \A p \in Paths : new[p] =
           IF p \in Conflicts(base, indexed, found) THEN indexed[p]
           ELSE IF restore THEN merged[p] ELSE IF p \in added THEN result[p] ELSE indexed[p]
  <2>1. new = [p \in Paths |->
           IF p \in Conflicts(base, indexed, found) THEN indexed[p]
           ELSE IF restore THEN merged[p] ELSE IF p \in added THEN result[p] ELSE indexed[p]]
    BY DEF AppliedIndex
  <2> HIDE DEF merged, result, new, added
  <2> QED
    BY <1>1, <1>2, <2>1
<1> HIDE DEF new
<1>4. ASSUME restore PROVE WellFormed(new)
  <2>1. ASSUME NEW p \in Conflicts(base, indexed, found)
        PROVE  merged[p] = indexed[p]
    <3>1. p \in Paths /\ indexed[p] # base[p] /\ p \notin Conflicts(base, indexed, stagedTree)
      BY <1>4 DEF Conflicts
    <3>2. stagedTree[p] \in {base[p], indexed[p]}
      BY <3>1 DEF Conflicts
    <3> QED
      BY <3>1, <3>2 DEF Merged
  <2>2. FilesOf(new) \subseteq FilesOf(merged)
    <3> HIDE DEF merged
    <3> QED
      BY <1>3, <1>4, <2>1 DEF FilesOf
  <2> QED
    BY <1>2, <2>2 DEF WellFormed
<1>5. ASSUME ~restore PROVE WellFormed(new)
  <2>1. \A p \in Paths : new[p] = IF p \notin Conflicts(base, indexed, found) /\ p \in added
                                  THEN result[p] ELSE indexed[p]
    BY <1>3, <1>5
  <2>2. FilesOf(new) \subseteq FilesOf(indexed) \cup added
    <3> HIDE DEF result, added
    <3>1. \A p \in Paths : new[p] # Absent => indexed[p] # Absent \/ p \in added
      BY <2>1
    <3> QED
      BY <3>1 DEF FilesOf
  <2>3. ASSUME NEW p \in FilesOf(new), NEW q \in FilesOf(new)
        PROVE  ~IsStrictPrefix(p, q)
    <3>1. CASE p \in FilesOf(indexed) /\ q \in FilesOf(indexed)
      BY <1>1, <3>1 DEF WellFormed
    <3>2. CASE p \in added /\ q \in added
      BY <1>1, <3>2 DEF AddedBy, WellFormed
    <3>3. CASE p \in added /\ q \in FilesOf(indexed)
      BY <3>3 DEF AddedBy, Related, IsStrictPrefix
    <3>4. CASE p \in FilesOf(indexed) /\ q \in added
      BY <3>4 DEF AddedBy, Related, IsStrictPrefix
    <3> QED
      BY <2>2, <3>1, <3>2, <3>3, <3>4
  <2> QED
    BY <2>3 DEF WellFormed
<1>6. new \in MarkedTrees
  BY <1>3, <1>4, <1>5, MarkedIs
<1> QED
  BY <1>6 DEF new

LEMMA StashApplyStep ==
  ASSUME RepositoryInv, WorkingCopyAssumption, ProposalTypes, proposal.kind = "apply",
         StashApply, UNCHANGED remote
  PROVE  /\ RepositoryInv' /\ tip' = tip /\ stash' = stash
         /\ LET entry == proposal.log[proposal.entry]
            IN \E all : \E paths \in SUBSET (Changes(entry.base, entry.work) \cup
                                             FilesOf(entry.untracked)) :
                 workTree' = Written(workTree, paths, all)
<1> DEFINE entry == proposal.log[proposal.entry]
           conflicts == Conflicts(entry.base, indexTree, entry.work)
           all == AppliedFiles(indexTree, entry.base, entry.work, entry.untracked)
           new == AppliedIndex(indexTree, entry.base, entry.work, entry.index, proposal.staged)
<1>1. /\ entry.base \in MarkedTrees /\ entry.index \in MarkedTrees /\ entry.work \in MarkedTrees
      /\ entry.untracked \in MarkedTrees
      /\ indexTree \in MarkedTrees /\ workTree \in MarkedTrees
  BY DEF ProposalTypes, Kinds, RepositoryInv, TreesInv
<1>2. /\ WellFormed(all) /\ WellFormed(Merged(entry.base, indexTree, entry.index))
      /\ proposal.staged => Conflicts(entry.base, indexTree, entry.index) = {}
      /\ workTree' = Written(workTree, Changes(indexTree, all), all)
      /\ indexTree' = new
      /\ unresolved' = conflicts
      /\ stash' = stash /\ UNCHANGED <<hist, tip, op>>
  BY DEF StashApply, AfterApply, AppliedFiles, AppliedIndex, AddedBy
<1>4. /\ all \in [Paths -> TreeContents]
      /\ Changes(indexTree, all)
           \subseteq Changes(entry.base, entry.work) \cup FilesOf(entry.untracked)
  <2> HIDE DEF entry
  <2> QED
    BY <1>1, AppliedFilesAre
<1>5. new \in MarkedTrees
  <2>1. proposal.staged \in BOOLEAN
    BY DEF ProposalTypes, Kinds
  <2> HIDE DEF entry
  <2> QED
    BY <1>1, <1>2, <2>1, AppliedIndexIsTree
<1>6. unresolved' \subseteq Paths
  BY <1>2 DEF Conflicts
<1>7. Changes(indexTree, all) \in SUBSET Paths
  BY DEF Changes
<1>8. all \in MarkedTrees
  BY <1>2, <1>4, MarkedIs
<1> HIDE DEF all, new
<1>9. workTree' \in MarkedTrees
  BY <1>1, <1>2, <1>7, <1>8, WrittenIsMarked
<1>10. TreesInv' /\ HistoryInv' /\ StashInv'
  BY <1>2, <1>5, <1>6, <1>9, SameHistory, SameStash DEF RepositoryInv, TreesInv
<1> QED
  BY <1>2, <1>4, <1>10 DEF RepositoryInv

-----------------------------------------------------------------------------
(* Recovery: every step keeps the invariant *)

RepositoryStays == UNCHANGED <<hist, tip, remote, indexTree, workTree, unresolved, stash>>

LEMMA RepositoryIsKept == ASSUME RepositoryInv, RepositoryStays PROVE RepositoryInv'
BY SameStash, SameHistory, SameTrees DEF RepositoryInv, RepositoryStays

\* A proposal names commits, and those stay.
LEMMA ProposalStays ==
  ASSUME RepositoryInv, ProposalTypes, Grows, UNCHANGED <<proposal, progress>>
  PROVE  ProposalTypes'
<1>1. ASSUME proposal.kind \in Kinds
      PROVE  /\ proposal.target \in 1..Len(hist') /\ hist'[proposal.target] = hist[proposal.target]
             /\ proposal.mainline \in Mainlines(proposal.target)'
             /\ proposal.kind = "undo" => Len(hist'[proposal.target].parents) = 1
  <2>1. proposal.target \in 1..Len(hist) /\ proposal.mainline \in Mainlines(proposal.target)
    BY <1>1 DEF ProposalTypes
  <2>2. hist'[proposal.target] = hist[proposal.target]
    BY <2>1 DEF Grows
  <2>3. proposal.target \in 1..Len(hist')
    <3>1. Len(hist) \in Nat /\ Len(hist') >= Len(hist)
      BY LenProperties DEF RepositoryInv, HistoryInv, Grows
    <3> QED
      BY <2>1, <3>1
  <2> QED
    BY <2>1, <2>2, <2>3 DEF Mainlines, ProposalTypes
<1>2. proposal.kind = "undo" => proposal.kind \in Kinds
  BY DEF Kinds
<1> QED
  BY <1>1, <1>2 DEF ProposalTypes

LEMMA SameProposal ==
  ASSUME ProposalHolds, RepositoryStays, UNCHANGED <<proposal, elsewhere>>
  PROVE  ProposalHolds'
<1>1. /\ Current' = Current /\ LastTree' = LastTree
      /\ TreeOf(proposal.target)' = TreeOf(proposal.target)
      /\ ParentTree(proposal.target, proposal.mainline)'
           = ParentTree(proposal.target, proposal.mainline)
      /\ Published(tip)' = Published(tip)
  BY DEF RepositoryStays, Current, LastTree, TreeOf, ParentTree, Published
<1>2. /\ Included(proposal.untracked)' = Included(proposal.untracked)
      /\ Token(proposal.affected)' = Token(proposal.affected)
      /\ Log(proposal.entry)' = Log(proposal.entry)
  BY <1>1 DEF RepositoryStays, Included, Token, Log, Object
<1>3. Readable(Included(proposal.untracked))' = Readable(Included(proposal.untracked))
  BY <1>2 DEF RepositoryStays, Readable
<1> QED
  BY <1>1, <1>2, <1>3 DEF ProposalHolds, RepositoryStays

LEMMA ReviewRecoveryKeeps ==
  ASSUME RecoveryInvariant, ReviewRecovery
  PROVE  RecoveryInvariant'
<1>1. RepositoryStays /\ progress' = "reviewed"
  BY DEF ReviewRecovery, repository, RepositoryStays
<1>2. RepositoryInv'
  BY <1>1, RepositoryIsKept DEF RecoveryInvariant
<1>3. ASSUME \E k \in Kinds, c \in 1..Len(hist), n \in 1..2 : proposal' \in CommitPlans(k, c, n)
      PROVE  ProposalTypes'
  <2>1. PICK k \in Kinds, c \in 1..Len(hist), n \in 1..2 : proposal' \in CommitPlans(k, c, n)
    BY <1>3
  <2>2. /\ proposal'.kind = k /\ proposal'.target = c /\ proposal'.mainline = n
        /\ n \in Mainlines(c)
        /\ k = "undo" => Len(hist[c].parents) = 1
    BY <2>1, CommitPlanIs
  <2>3. k # "apply" /\ k # "drop"
    BY DEF Kinds
  <2>4. hist' = hist
    BY <1>1 DEF RepositoryStays
  <2>5. proposal'.mainline \in Mainlines(proposal.target)'
    BY <2>2, <2>4 DEF Mainlines
  <2>6. proposal'.kind = "undo" => Len(hist'[proposal'.target].parents) = 1
    BY <2>2, <2>4
  <2> QED
    BY <1>1, <2>1, <2>2, <2>3, <2>4, <2>5, <2>6 DEF ProposalTypes
<1>4. ASSUME \E u \in BOOLEAN : proposal' \in StashPlans(u)
      PROVE  ProposalTypes'
  <2>1. proposal'.kind = "stash"
    BY <1>4, StashPlanIs
  <2> QED
    BY <1>1, <2>1 DEF ProposalTypes, Kinds
<1>5. ASSUME \E n \in 1..Len(stash), s \in BOOLEAN : proposal' \in ApplyPlans(n, s)
      PROVE  ProposalTypes'
  <2>1. PICK n \in 1..Len(stash), s \in BOOLEAN : proposal' \in ApplyPlans(n, s)
    BY <1>5
  <2>2. /\ proposal'.kind = "apply" /\ proposal'.entry = n /\ proposal'.log = Log(n)
        /\ proposal'.staged = s
    BY <2>1, ApplyPlanIs
  <2>3. {Log(n)[n].base, Log(n)[n].index, Log(n)[n].work, Log(n)[n].untracked} \subseteq MarkedTrees
    BY LogIs DEF RecoveryInvariant, RepositoryInv
  <2> QED
    BY <1>1, <2>2, <2>3 DEF ProposalTypes, Kinds
<1>6. ASSUME \E n \in 1..Len(stash) : proposal' \in DropPlans(n)
      PROVE  ProposalTypes'
  <2>1. PICK n \in 1..Len(stash) : proposal' \in DropPlans(n)
    BY <1>6
  <2>2. proposal'.kind = "drop" /\ proposal'.entry = n
    BY <2>1, DropPlanIs
  <2> QED
    BY <1>1, <2>2 DEF ProposalTypes, Kinds
<1>7. ProposalTypes'
  BY <1>3, <1>4, <1>5, <1>6 DEF ReviewRecovery
<1> QED
  BY <1>1, <1>2, <1>7 DEF RecoveryInvariant

LEMMA CheckKeeps ==
  ASSUME RecoveryInvariant, CheckRecovery
  PROVE  RecoveryInvariant'
<1>1. RepositoryStays /\ UNCHANGED elsewhere /\ progress = "reviewed"
  BY DEF CheckRecovery, repository, RepositoryStays
<1>2. RepositoryInv' /\ Grows
  BY <1>1, RepositoryIsKept DEF RecoveryInvariant, RepositoryStays, Grows
<1>3. CASE proposal \in Again(proposal)
  <2>1. progress' = "checked" /\ UNCHANGED proposal
    BY <1>3 DEF CheckRecovery
  <2>2. ProposalHolds
    BY <1>1, <1>3, AgainHolds DEF RecoveryInvariant
  <2>3. ProposalHolds'
    BY <1>1, <2>1, <2>2, SameProposal
  <2>4. ProposalTypes'
    BY <1>1, <2>1 DEF RecoveryInvariant, ProposalTypes, RepositoryStays, Mainlines
  <2> QED
    BY <1>2, <2>3, <2>4 DEF RecoveryInvariant
<1>4. CASE proposal \notin Again(proposal)
  <2>1. progress' = "idle" /\ proposal' = NoPlan
    BY <1>4 DEF CheckRecovery
  <2>2. ProposalTypes'
    BY <2>1 DEF ProposalTypes, NoPlan, Kinds
  <2> QED
    BY <1>2, <2>1, <2>2 DEF RecoveryInvariant
<1> QED
  BY <1>3, <1>4

LEMMA RunKeeps ==
  ASSUME RecoveryInvariant, WorkingCopyAssumption, RecoveryAssumption, RunRecovery
  PROVE  RecoveryInvariant'
<1>1. /\ progress = "checked" /\ progress' = "idle" /\ proposal' = NoPlan /\ UNCHANGED remote
      /\ Command \/ UNCHANGED <<hist, tip, indexTree, workTree, unresolved, op, stash>>
  BY DEF RunRecovery
<1>2. RepositoryInv /\ ProposalTypes
  BY DEF RecoveryInvariant
<1>3. RepositoryInv'
  <2>1. CASE proposal.kind = "amend" /\ Amend
    BY <1>1, <1>2, <2>1, AmendStep
  <2>2. CASE proposal.kind = "undo" /\ Undo
    BY <1>1, <1>2, <2>2, UndoStep
  <2>3. ASSUME proposal.kind \in {"revert", "cherry-pick"}
        PROVE  /\ TreeOf(proposal.target) \in MarkedTrees
               /\ ParentTree(proposal.target, proposal.mainline) \in MarkedTrees
    <3>1. /\ proposal.target \in 1..Len(hist)
          /\ proposal.mainline \in Mainlines(proposal.target)
      BY <1>2, <2>3 DEF ProposalTypes, Kinds
    <3> QED
      BY <1>2, <3>1, CommitsAre, ParentTrees DEF RepositoryInv
  <2>4. CASE /\ proposal.kind = "revert"
             /\ ReplayCommit(TreeOf(proposal.target),
                             ParentTree(proposal.target, proposal.mainline))
    BY <1>1, <1>2, <2>3, <2>4, ReplayStep
  <2>5. CASE /\ proposal.kind = "cherry-pick"
             /\ ReplayCommit(ParentTree(proposal.target, proposal.mainline),
                             TreeOf(proposal.target))
    BY <1>1, <1>2, <2>3, <2>5, ReplayStep
  <2>6. CASE proposal.kind = "stash" /\ StashPush
    BY <1>1, <1>2, <2>6, StashPushStep
  <2>7. CASE proposal.kind = "apply" /\ StashApply
    BY <1>1, <1>2, <2>7, StashApplyStep
  <2>8. CASE proposal.kind = "drop" /\ StashDrop
    BY <1>1, <1>2, <2>8, StashDropStep
  <2>9. CASE UNCHANGED <<hist, tip, indexTree, workTree, unresolved, op, stash>>
    BY <1>1, <1>2, <2>9, RepositoryIsKept DEF RepositoryStays
  <2> QED
    BY <1>1, <2>1, <2>2, <2>4, <2>5, <2>6, <2>7, <2>8, <2>9 DEF Command
<1>4. ProposalTypes'
  BY <1>1 DEF ProposalTypes, NoPlan, Kinds
<1> QED
  BY <1>1, <1>3, <1>4 DEF RecoveryInvariant

LEMMA MeanwhileKeeps ==
  ASSUME RecoveryInvariant, WorkingCopyAssumption, RecoveryAssumption, Meanwhile
  PROVE  RecoveryInvariant'
<1>1. RepositoryInv /\ ProposalTypes /\ UNCHANGED <<proposal, progress>>
      /\ overtaken' = (overtaken \/ progress = "checked")
  BY DEF RecoveryInvariant, Meanwhile
<1>2. HistoryInv /\ TreesInv /\ StashInv /\ LastTree \in MarkedTrees
  BY <1>1, LastIsTree DEF RepositoryInv
<1>3. CASE EditMeanwhile
  <2>1. PICK t \in Edits(workTree) : workTree' = t
    BY <1>3 DEF EditMeanwhile
  <2>2. PICK p \in Paths, c \in Texts \cup {Absent} : t = [workTree EXCEPT ![p] = c]
    BY <2>1 DEF Edits
  <2>3. workTree \in [Paths -> TreeContents] /\ c \in TreeContents /\ WellFormed(t)
    BY <1>2, <2>1, MarkedIs DEF TreesInv, Edits, TreeContents
  <2>4. workTree' \in MarkedTrees
    BY <2>1, <2>2, <2>3, MarkedIs
  <2>5. TreesInv' /\ HistoryInv' /\ StashInv' /\ Grows
    BY <1>2, <1>3, <2>4, SameHistory, SameStash DEF EditMeanwhile, TreesInv, Grows
  <2> QED
    BY <1>1, <2>5, ProposalStays DEF RepositoryInv, RecoveryInvariant
<1>4. CASE AddMeanwhile
  <2>1. PICK p \in Changes(indexTree, workTree) :
          /\ indexTree' = [indexTree EXCEPT ![p] = workTree[p]]
          /\ unresolved' = unresolved \ {p}
    BY <1>4 DEF AddMeanwhile
  <2>2. /\ indexTree \in [Paths -> TreeContents] /\ workTree \in [Paths -> TreeContents]
        /\ p \in Paths /\ WellFormed(indexTree')
    BY <1>2, <1>4, MarkedIs DEF TreesInv, AddMeanwhile, Changes
  <2>3. indexTree' \in MarkedTrees
    BY <2>1, <2>2, MarkedIs
  <2>4. TreesInv' /\ HistoryInv' /\ StashInv' /\ Grows
    BY <1>2, <1>4, <2>1, <2>3, SameHistory, SameStash DEF AddMeanwhile, TreesInv, Grows
  <2> QED
    BY <1>1, <2>4, ProposalStays DEF RepositoryInv, RecoveryInvariant
<1>5. CASE CommitMeanwhile
  <2>1. /\ indexTree \in MarkedTrees /\ remote' \in 0..Len(hist)
        /\ hist' = NewCommit(indexTree, <<tip>>) /\ tip' = Len(hist')
    BY <1>2, <1>5 DEF TreesInv, HistoryInv, CommitMeanwhile
  <2>2. HistoryInv' /\ Grows
    BY <1>2, <2>1, OneParent, NewTip
  <2>3. TreesInv' /\ StashInv'
    BY <1>2, <1>5, SameTrees, SameStash DEF CommitMeanwhile
  <2> QED
    BY <1>1, <2>2, <2>3, ProposalStays DEF RepositoryInv, RecoveryInvariant
<1>6. CASE Fetch \/ UseElsewhere
  <2>1. HistoryInv'
    BY <1>2, <1>6, LenProperties DEF Fetch, UseElsewhere, HistoryInv, OlderParents
  <2>2. TreesInv' /\ StashInv' /\ Grows
    BY <1>2, <1>6, SameTrees, SameStash, LenProperties
       DEF Fetch, UseElsewhere, Grows, HistoryInv
  <2> QED
    BY <1>1, <2>1, <2>2, ProposalStays DEF RepositoryInv, RecoveryInvariant
<1>7. CASE StashOutside
  <2>1. PICK entry \in {[base |-> LastTree, index |-> LastTree, work |-> TreeOf(c),
                        untracked |-> EmptyTree] : c \in 1..Len(hist)}
                      \cup {Object(stash[i]) : i \in 1..Len(stash)} :
          stash' = <<[n |-> NextNumber, base |-> entry.base, index |-> entry.index,
                      work |-> entry.work, untracked |-> entry.untracked]>> \o stash
    BY <1>7 DEF StashOutside
  <2> DEFINE new == [n |-> NextNumber, base |-> entry.base, index |-> entry.index,
                     work |-> entry.work, untracked |-> entry.untracked]
  <2>2. {entry.base, entry.index, entry.work, entry.untracked} \subseteq MarkedTrees
    <3>1. CASE \E c \in 1..Len(hist) : entry = [base |-> LastTree, index |-> LastTree,
                                              work |-> TreeOf(c), untracked |-> EmptyTree]
      <4>1. PICK c \in 1..Len(hist) : entry = [base |-> LastTree, index |-> LastTree,
                                            work |-> TreeOf(c), untracked |-> EmptyTree]
        BY <3>1
      <4>2. /\ entry.base = LastTree /\ entry.index = LastTree /\ entry.work = TreeOf(c)
            /\ entry.untracked = EmptyTree
        BY <4>1
      <4>3. TreeOf(c) \in MarkedTrees
        BY <1>2, CommitsAre
      <4> QED
        BY <1>2, <4>2, <4>3, EmptyIsTree
    <3>2. CASE \E i \in 1..Len(stash) : entry = Object(stash[i])
      <4>1. PICK i \in 1..Len(stash) : entry = Object(stash[i])
        BY <3>2
      <4>2. stash[i] \in Entries
        BY <1>2, ElementOfSeq DEF StashInv
      <4> QED
        BY <4>1, <4>2 DEF Object, Entries
    <3> QED
      BY <2>1, <3>1, <3>2
  <2>3. new \in Entries /\ new.n = NextNumber
    BY <1>2, <2>2, NumbersAre DEF Entries
  <2>4. stash' = <<new>> \o stash
    BY <2>1
  <2> HIDE DEF new
  <2>5. /\ stash' \in Seq(Entries) /\ Len(stash') = Len(stash) + 1 /\ Len(stash) \in Nat
        /\ Numbered'
    BY <1>2, <2>3, <2>4, PushedIs
  <2>6. StashInv'
    BY <1>7, <2>5 DEF StashInv, StashOutside, RecoveryAssumption
  <2>7. TreesInv' /\ HistoryInv' /\ Grows
    BY <1>2, <1>7, SameTrees, SameHistory, LenProperties DEF StashOutside, Grows, HistoryInv
  <2> QED
    BY <1>1, <2>6, <2>7, ProposalStays DEF RepositoryInv, RecoveryInvariant
<1>8. CASE DropOutside
  <2>1. PICK n \in 1..Len(stash) : stash' = RemoveAt(stash, n)
    BY <1>8 DEF DropOutside
  <2>2. stash' \in Seq(Entries) /\ Len(stash') = Len(stash) - 1 /\ Len(stash) \in Nat /\ Numbered'
    BY <1>2, <2>1, DroppedIs
  <2>3. StashInv'
    BY <1>2, <2>2 DEF StashInv, RecoveryAssumption
  <2>4. TreesInv' /\ HistoryInv' /\ Grows
    BY <1>2, <1>8, SameTrees, SameHistory, LenProperties DEF DropOutside, Grows, HistoryInv
  <2> QED
    BY <1>1, <2>3, <2>4, ProposalStays DEF RepositoryInv, RecoveryInvariant
<1> QED
  BY <1>3, <1>4, <1>5, <1>6, <1>7, <1>8 DEF Meanwhile

LEMMA RecoveryStep ==
  ASSUME RecoveryInvariant, WorkingCopyAssumption, RecoveryAssumption, [RecoveryNext]_recoveryVars
  PROVE  RecoveryInvariant'
<1>1. CASE RecoveryNext
  BY <1>1, ReviewRecoveryKeeps, CheckKeeps, RunKeeps, MeanwhileKeeps DEF RecoveryNext
<1>2. CASE UNCHANGED recoveryVars
  <2>1. RepositoryStays /\ UNCHANGED <<elsewhere, proposal, progress, overtaken>>
    BY <1>2 DEF recoveryVars, repository, RepositoryStays
  <2>2. RepositoryInv' /\ ProposalTypes'
    BY <2>1, RepositoryIsKept
       DEF RecoveryInvariant, RepositoryStays, ProposalTypes, Mainlines
  <2>3. progress' = "checked" /\ ~overtaken' => ProposalHolds'
    BY <2>1, SameProposal DEF RecoveryInvariant
  <2> QED
    BY <2>2, <2>3 DEF RecoveryInvariant
<1> QED
  BY <1>1, <1>2

-----------------------------------------------------------------------------
(* Recovery: what a command does to the work of the person *)

LEMMA RecoveryTypes ==
  ASSUME RecoveryInvariant
  PROVE  RecoveryTypeOK
<1>1. HistoryInv /\ TreesInv /\ StashInv /\ ProposalTypes
  BY DEF RecoveryInvariant, RepositoryInv
<1>2. \A c \in 1..Len(hist) :
        WellFormed(TreeOf(c)) /\ ToSet(hist[c].parents) \subseteq 1..(c - 1)
  BY <1>1, CommitsAre, MarkedIs DEF HistoryInv, OlderParents
<1>3. WellFormed(indexTree) /\ WellFormed(workTree)
  BY <1>1, MarkedIs DEF TreesInv
<1>4. IsInjective([i \in 1..Len(stash) |-> stash[i].n])
  <2>1. stash \in Seq(Entries) /\ Len(stash) \in Nat
    BY <1>1, LenProperties DEF StashInv
  <2>2. ASSUME NEW i \in 1..Len(stash), NEW j \in 1..Len(stash), stash[i].n = stash[j].n
        PROVE  i = j
    <3>1. stash[i] \in Entries
      BY <2>1, ElementOfSeq
    <3>2. stash[i].n \in Nat
      BY <3>1 DEF Entries
    <3>3. ~(i < j) /\ ~(j < i)
      BY <1>1, <2>2, <3>2 DEF StashInv, Numbered
    <3> QED
      BY <2>1, <3>3
  <2> QED
    BY <2>2 DEF IsInjective
<1>5. (proposal = NoPlan) <=> (progress = "idle")
  BY <1>1 DEF ProposalTypes, NoPlan, Kinds
<1> QED
  BY <1>1, <1>2, <1>3, <1>4, <1>5
     DEF RecoveryTypeOK, HistoryInv, TreesInv, StashInv, ProposalTypes

\* A replay writes what its commit changed, and the index was the last commit.
LEMMA ReplayLosesNothing ==
  ASSUME RecoveryInvariant, WorkingCopyAssumption, ProposalHolds, UNCHANGED remote,
         proposal.kind \in {"revert", "cherry-pick"},
         NEW base \in MarkedTrees, NEW theirs \in MarkedTrees, ReplayCommit(base, theirs),
         Changes(base, theirs) = Changes(ParentTree(proposal.target, proposal.mainline),
                                         TreeOf(proposal.target))
  PROVE  /\ \A p \in Local(LastTree, workTree) : workTree'[p] = workTree[p]
         /\ Staged(LastTree, indexTree) = {}
<1>1. /\ RepositoryInv /\ WellFormed(workTree) /\ Changes(base, theirs) \in SUBSET Paths
      /\ Protected(LastTree, indexTree, workTree, Changes(base, theirs))
      /\ Staged(LastTree, indexTree) = {}
  BY MarkedIs DEF RecoveryInvariant, RepositoryInv, TreesInv, ProposalHolds, Changes
<1>2. PICK result : \E paths \in SUBSET Changes(base, theirs) :
        workTree' = Written(workTree, paths, result)
  BY <1>1, ReplayStep
<1>3. PICK paths \in SUBSET Changes(base, theirs) : workTree' = Written(workTree, paths, result)
  BY <1>2
<1> QED
  BY <1>1, <1>3, ProtectedKeeps

LEMMA ApplyLosesNothing ==
  ASSUME RecoveryInvariant, WorkingCopyAssumption, ProposalHolds, UNCHANGED remote,
         proposal.kind = "apply", StashApply
  PROVE  /\ \A p \in Local(LastTree, workTree) : workTree'[p] = workTree[p]
         /\ \A p \in Staged(LastTree, indexTree) : indexTree'[p] = indexTree[p]
<1> DEFINE entry == proposal.log[proposal.entry]
           saved == SavedPaths(stash[proposal.entry])
<1>1. /\ RepositoryInv /\ StashInv /\ ProposalTypes /\ WellFormed(workTree)
      /\ indexTree \in [Paths -> TreeContents]
      /\ Protected(LastTree, indexTree, workTree, saved)
      /\ proposal.entry \in 1..Len(stash) /\ proposal.log = Log(proposal.entry)
  BY MarkedIs DEF RecoveryInvariant, RepositoryInv, TreesInv, ProposalHolds, Kinds
<1>2. entry = Object(stash[proposal.entry])
  BY <1>1, LogIs
<1>3. saved = Changes(entry.base, entry.index) \cup Changes(entry.index, entry.work)
                \cup FilesOf(entry.untracked)
  BY <1>2 DEF SavedPaths, Object
<1> HIDE DEF saved
<1>4. /\ saved \in SUBSET Paths
      /\ Changes(entry.base, entry.work) \cup FilesOf(entry.untracked) \subseteq saved
      /\ Changes(entry.base, entry.index) \subseteq saved
  BY <1>3 DEF Changes, FilesOf
<1>5. \A p \in Local(LastTree, workTree) : workTree'[p] = workTree[p]
  <2> DEFINE applied == Changes(entry.base, entry.work) \cup FilesOf(entry.untracked)
  <2>1. PICK all : \E paths \in SUBSET applied : workTree' = Written(workTree, paths, all)
    BY <1>1, StashApplyStep
  <2>2. PICK paths \in SUBSET applied : workTree' = Written(workTree, paths, all)
    BY <2>1
  <2>3. paths \in SUBSET saved
    BY <1>4, <2>2
  <2>4. /\ WellFormed(workTree) /\ saved \in SUBSET Paths
        /\ Protected(LastTree, indexTree, workTree, saved)
    BY <1>1, <1>4
  <2> HIDE DEF applied
  <2> QED
    BY <2>2, <2>3, <2>4, ProtectedKeeps
<1>6. ASSUME NEW p \in Staged(LastTree, indexTree)
      PROVE  indexTree'[p] = indexTree[p]
  <2>1. p \in Paths /\ p \notin saved
    <3>1. p \in Paths /\ p \in Listed(LastTree, indexTree, workTree)
      BY DEF Listed, Staged, Changes
    <3>2. IsPrefix(p, p)
      BY <3>1, StrictPrefixIs
    <3> QED
      BY <1>1, <3>1, <3>2 DEF Protected, Related
  <2>2. /\ entry.work[p] = entry.base[p] /\ entry.index[p] = entry.base[p]
    BY <1>4, <2>1 DEF Changes
  <2>3. /\ p \notin Conflicts(entry.base, indexTree, entry.work)
        /\ p \notin AddedBy(entry.base, entry.work, indexTree)
        /\ Merged(entry.base, indexTree, entry.index)[p] = indexTree[p]
    BY <2>1, <2>2 DEF Conflicts, AddedBy, FilesOf, Merged
  <2>4. indexTree' = AppliedIndex(indexTree, entry.base, entry.work, entry.index, proposal.staged)
    BY DEF StashApply, AppliedIndex, AddedBy
  <2> QED
    BY <2>1, <2>3, <2>4 DEF AppliedIndex
<1> QED
  BY <1>5, <1>6

\* A command that runs as it was compared keeps the person's work, the commits of
\* others and, if it is no drop, the stash.
Spares ==
  /\ \A p \in Local(LastTree, workTree) :
       \/ workTree'[p] = workTree[p]
       \/ \E i \in 1..Len(stash') : workTree[p] \in {stash'[i].work[p], stash'[i].untracked[p]}
  /\ \A p \in Staged(LastTree, indexTree) :
       \/ indexTree'[p] = indexTree[p]
       \/ \E i \in 1..Len(stash') : stash'[i].index[p] = indexTree[p]
       \/ hist'[tip'].tree[p] = indexTree[p]
  /\ tip' # tip => proposal.kind \in Kinds
  /\ tip' < tip => proposal.kind = "undo"
  /\ \A i \in 1..Len(stash) : stash[i] \notin ToSet(stash') =>
       proposal.kind = "drop" /\ i = proposal.entry

LEMMA StashIsKept ==
  ASSUME StashInv, stash' = stash
  PROVE  \A i \in 1..Len(stash) : stash[i] \in ToSet(stash')
BY LenProperties DEF StashInv, ToSet

LEMMA CommandSpares ==
  ASSUME RecoveryInvariant, WorkingCopyAssumption, RecoveryAssumption, ProposalHolds, Command,
         UNCHANGED remote
  PROVE  Spares
<1>1. /\ RepositoryInv /\ StashInv /\ ProposalTypes /\ HistoryInv
      /\ stash' = stash => \A i \in 1..Len(stash) : stash[i] \in ToSet(stash')
  BY StashIsKept DEF RecoveryInvariant, RepositoryInv
<1>2. tip \in Nat
  BY <1>1, LenProperties DEF HistoryInv
<1>3. CASE proposal.kind = "amend" /\ Amend
  <2>1. tip' > tip /\ hist'[tip'].tree = indexTree
    BY <1>1, <1>3, AmendStep
  <2>2. stash' = stash /\ workTree' = workTree
    BY <1>3 DEF Amend
  <2>3. ~(tip' < tip)
    <3>1. RepositoryInv'
      BY <1>1, <1>3, AmendStep
    <3>2. tip' \in Nat
      BY <3>1, LenProperties DEF RepositoryInv, HistoryInv
    <3> QED
      BY <1>2, <2>1, <3>2
  <2> QED
    BY <1>1, <1>3, <2>1, <2>2, <2>3 DEF Spares, Kinds
<1>4. CASE proposal.kind = "undo" /\ Undo
  BY <1>1, <1>4 DEF Undo, Spares, Kinds
<1>5. ASSUME proposal.kind \in {"revert", "cherry-pick"}, NEW base \in MarkedTrees,
             NEW theirs \in MarkedTrees, ReplayCommit(base, theirs),
             Changes(base, theirs) = Changes(ParentTree(proposal.target, proposal.mainline),
                                             TreeOf(proposal.target))
      PROVE  Spares
  <2>1. /\ \A p \in Local(LastTree, workTree) : workTree'[p] = workTree[p]
        /\ Staged(LastTree, indexTree) = {}
    BY <1>5, ReplayLosesNothing
  <2>2. RepositoryInv' /\ tip' >= tip
    BY <1>1, <1>5, ReplayStep
  <2>3. ~(tip' < tip)
    <3>1. tip' \in Nat
      BY <2>2, LenProperties DEF RepositoryInv, HistoryInv
    <3> QED
      BY <1>2, <2>2, <3>1
  <2>4. stash' = stash
    BY <1>5 DEF ReplayCommit
  <2> QED
    BY <1>1, <1>5, <2>1, <2>3, <2>4 DEF Spares, Kinds
<1>6. ASSUME proposal.kind \in {"revert", "cherry-pick"}
      PROVE  /\ TreeOf(proposal.target) \in MarkedTrees
             /\ ParentTree(proposal.target, proposal.mainline) \in MarkedTrees
  <2>1. /\ proposal.target \in 1..Len(hist)
        /\ proposal.mainline \in Mainlines(proposal.target)
    BY <1>1, <1>6 DEF ProposalTypes, Kinds
  <2> QED
    BY <1>1, <2>1, CommitsAre, ParentTrees
<1>7. CASE /\ proposal.kind = "revert"
           /\ ReplayCommit(TreeOf(proposal.target), ParentTree(proposal.target, proposal.mainline))
  <2>1. Changes(TreeOf(proposal.target), ParentTree(proposal.target, proposal.mainline)) =
          Changes(ParentTree(proposal.target, proposal.mainline), TreeOf(proposal.target))
    BY DEF Changes
  <2> QED
    BY <1>5, <1>6, <1>7, <2>1
<1>8. CASE /\ proposal.kind = "cherry-pick"
           /\ ReplayCommit(ParentTree(proposal.target, proposal.mainline), TreeOf(proposal.target))
  BY <1>5, <1>6, <1>8
<1>9. CASE proposal.kind = "stash" /\ StashPush
  <2>1. /\ tip' = tip /\ stash'[1] = Saved(proposal.untracked) /\ 1 \in 1..Len(stash')
        /\ \A i \in 1..Len(stash) : stash[i] \in ToSet(stash')
    BY <1>1, <1>9, StashPushStep
  <2>2. Readable(Included(proposal.untracked))
    BY <1>9 DEF ProposalHolds
  <2>3. \A p \in Local(LastTree, workTree) :
          \/ workTree'[p] = workTree[p]
          \/ workTree[p] \in {stash'[1].work[p], stash'[1].untracked[p]}
    BY <1>1, <1>9, <2>1, <2>2, PushSaves
  <2>4. stash'[1].index = indexTree
    BY <2>1 DEF Saved
  <2>5. ~(tip' < tip)
    BY <1>2, <2>1
  <2> QED
    BY <2>1, <2>3, <2>4, <2>5 DEF Spares
<1>10. CASE proposal.kind = "apply" /\ StashApply
  <2>1. /\ \A p \in Local(LastTree, workTree) : workTree'[p] = workTree[p]
        /\ \A p \in Staged(LastTree, indexTree) : indexTree'[p] = indexTree[p]
    BY <1>10, ApplyLosesNothing
  <2>2. tip' = tip /\ stash' = stash
    BY <1>1, <1>10, StashApplyStep
  <2> QED
    BY <1>1, <1>2, <2>1, <2>2 DEF Spares
<1>11. CASE proposal.kind = "drop" /\ StashDrop
  <2>1. /\ tip' = tip
        /\ \A i \in 1..Len(stash) : i # proposal.entry => stash[i] \in ToSet(stash')
    BY <1>1, <1>11, StashDropStep
  <2>2. workTree' = workTree /\ indexTree' = indexTree
    BY <1>11 DEF StashDrop
  <2> QED
    BY <1>2, <1>11, <2>1, <2>2 DEF Spares
<1> QED
  BY <1>3, <1>4, <1>7, <1>8, <1>9, <1>10, <1>11 DEF Command

LEMMA RunSpares ==
  ASSUME RecoveryInvariant, WorkingCopyAssumption, RecoveryAssumption, ProposalHolds, RunRecovery
  PROVE  Spares
<1>1. UNCHANGED remote
      /\ (Command \/ UNCHANGED <<hist, tip, indexTree, workTree, unresolved, op, stash>>)
  BY DEF RunRecovery
<1>2. CASE Command
  BY <1>1, <1>2, CommandSpares
<1>3. CASE UNCHANGED <<hist, tip, indexTree, workTree, unresolved, op, stash>>
  <2>1. \A i \in 1..Len(stash) : stash[i] \in ToSet(stash')
    BY <1>3, StashIsKept DEF RecoveryInvariant, RepositoryInv
  <2>2. ~(tip' < tip)
    BY <1>3, LenProperties DEF RecoveryInvariant, RepositoryInv, HistoryInv
  <2> QED
    BY <1>3, <2>1, <2>2 DEF Spares
<1> QED
  BY <1>1, <1>2, <1>3

LEMMA GitRunsOnce ==
  ASSUME RecoveryInvariant, RecoveryNext, GitRuns, ~overtaken
  PROVE  RunRecovery /\ ProposalHolds /\ ProposalTypes
BY DEF RecoveryNext, ReviewRecovery, CheckRecovery, Meanwhile, GitRuns, RecoveryInvariant

LEMMA RecoveryActions ==
  ASSUME RecoveryInvariant, WorkingCopyAssumption, RecoveryAssumption, RecoveryNext
  PROVE  LosesNothing /\ RunsReviewed /\ KeepsShared /\ RemovesByDrop
<1> SUFFICES ASSUME GitRuns, ~overtaken
             PROVE  LosesNothing /\ RunsReviewed /\ KeepsShared /\ RemovesByDrop
  BY DEF LosesNothing, RunsReviewed, KeepsShared, RemovesByDrop
<1>1. RunRecovery /\ ProposalHolds /\ ProposalTypes
  BY GitRunsOnce
<1>2. Spares
  BY <1>1, RunSpares
<1>3. LosesNothing
  BY <1>2 DEF Spares, LosesNothing
<1>4. RunsReviewed
  <2>1. proposal.kind # "drop" => proposal.current.tip = tip /\ proposal.current.index = indexTree
    BY <1>1 DEF ProposalHolds, Current
  <2>2. proposal.kind = "stash" => \A p \in proposal.affected : proposal.token[p] = workTree[p]
    BY <1>1 DEF ProposalHolds, Token
  <2> QED
    BY <2>1, <2>2 DEF RunsReviewed
<1>5. KeepsShared
  BY <1>1, <1>2 DEF ProposalHolds, Spares, KeepsShared
<1>6. RemovesByDrop
  <2>1. ASSUME NEW i \in 1..Len(stash), stash[i] \notin ToSet(stash')
        PROVE  /\ proposal.kind = "drop" /\ i = proposal.entry
               /\ Object(stash[i]) = proposal.log[i]
    <3>1. proposal.kind = "drop" /\ i = proposal.entry
      BY <1>2, <2>1 DEF Spares
    <3>2. proposal.log = Log(i)
      BY <1>1, <3>1 DEF ProposalHolds
    <3> QED
      BY <3>1, <3>2 DEF Log
  <2> QED
    BY <2>1 DEF RemovesByDrop
<1> QED
  BY <1>3, <1>4, <1>5, <1>6

(***************************************************************************)
(* A recovery command that runs as it was compared loses no work: a file   *)
(* that differs from the last commit, untracked and ignored ones included, *)
(* is as it was or in a stash entry; a staged entry is staged, in a stash  *)
(* entry or in the new commit; no commit a remote or another worktree has  *)
(* is rewritten; and only a drop removes an entry, the one reviewed        *)
(* (execute_recovery): for any paths, contents, ignored files, histories   *)
(* and bounds, at Git's worst.                                             *)
(***************************************************************************)
THEOREM RecoveryLosesNothing ==
  ASSUME WorkingCopyAssumption, RecoveryAssumption
  PROVE  RecoverySpec => NothingLocalIsLost
<1>1. RecoveryInit => RecoveryInvariant
  BY RecoveryInitInv
<1>2. RecoveryInvariant /\ [RecoveryNext]_recoveryVars => RecoveryInvariant'
  BY RecoveryStep
<1>3. RecoveryInvariant /\ [RecoveryNext]_recoveryVars =>
        [ /\ RecoveryTypeOK /\ LosesNothing /\ RunsReviewed
          /\ KeepsShared /\ RemovesByDrop ]_recoveryVars
  BY RecoveryTypes, RecoveryActions
<1> QED
  BY <1>1, <1>2, <1>3, PTL DEF RecoverySpec, NothingLocalIsLost
=============================================================================
