----------------------------- MODULE DraftSaving -----------------------------
(***************************************************************************)
(* crates/app/src/commit_drafts.rs on the persistence executor: every edit  *)
(* of a commit draft puts a snapshot in a pending map; one save job at a    *)
(* time takes the whole map as a batch, merges it into the preferences file *)
(* and loops until the map is empty.  Edits made meanwhile are coalesced    *)
(* into that job.  At quit the application waits for the answer of the last *)
(* accepted save.                                                           *)
(*                                                                          *)
(* A snapshot is the number of the edit it was taken at.  The preferences   *)
(* file is replaced by a rename, so a failed or interrupted save leaves the *)
(* old copy and a save that returns has replaced it.                        *)
(***************************************************************************)
EXTENDS SerialExecutor

CONSTANTS
    Keys,       \* the worktrees with a composer
    MaxEdits    \* bound on the edits of each draft

ASSUME DraftAssumption ==
    /\ MaxEdits \in [Keys -> Nat]
    /\ "save" \in Kinds \ ReadKinds

VARIABLES
    typed,       \* number of edits of each draft
    pending,     \* snapshots waiting to be saved, 0 for no entry
    scheduled,   \* is a save job responsible for the pending map?
    phase,       \* where Scheduled::save is
    batch,       \* the snapshots it took, 0 for no entry
    durable,     \* the preferences file
    lost,        \* drafts whose newest snapshot was unwound with a panicked batch
    completion,  \* the save whose answer the quit observer awaits, 0 for none
    life         \* of the process

saverVars == <<typed, pending, scheduled, phase, batch, durable, lost, completion, life>>
vars == <<executorVars, saverVars>>

None == [k \in Keys |-> 0]
Alive == life \in {"running", "quitting"}

\* The entries of f, with those of g where f has none (HashMap::entry().or_insert).
OrInsert(f, g) == [k \in Keys |-> IF f[k] # 0 THEN f[k] ELSE g[k]]

TypeOK ==
    /\ ExecutorTypeOK
    /\ typed \in [Keys -> Nat]
    /\ pending \in [Keys -> Nat]
    /\ scheduled \in BOOLEAN
    /\ phase \in {"none", "looping", "writing", "returning", "failing", "unwinding"}
    /\ batch \in [Keys -> Nat]
    /\ durable \in [Keys -> Nat]
    /\ lost \subseteq Keys
    /\ completion \in {0} \cup Jobs
    /\ life \in {"running", "quitting", "exited", "crashed"}

Init ==
    /\ ExecutorInit
    /\ typed = None /\ pending = None /\ batch = None /\ durable = None
    /\ scheduled = FALSE
    /\ phase = "none"
    /\ lost = {}
    /\ completion = 0
    /\ life = "running"

-----------------------------------------------------------------------------
(* The UI thread *)

\* CoalescingSaver::queue_with, the part under the lock of the pending map.
Insert(k) ==
    /\ life = "running"
    /\ connected
    /\ typed[k] < MaxEdits[k]
    /\ typed' = [typed EXCEPT ![k] = @ + 1]
    /\ pending' = [pending EXCEPT ![k] = typed'[k]]
    /\ lost' = lost \ {k}
    /\ UNCHANGED <<phase, batch, durable, life>>

\* The scheduled job will take this snapshot too.
EditCoalesced(k) ==
    /\ scheduled
    /\ Insert(k)
    /\ UNCHANGED <<executorVars, scheduled, completion>>

\* No job is scheduled: submit one, and let the quit observer await it.
EditScheduling(k) ==
    /\ ~scheduled
    /\ Insert(k)
    /\ Accept("save")
    /\ scheduled' = TRUE
    /\ completion' = submitted'

\* Mutant: a refused job leaves the flag it was submitted under.
EditRefusedScheduled(k) ==
    /\ ~scheduled
    /\ Insert(k)
    /\ Refuse("save")
    /\ scheduled' = TRUE
    /\ completion' = submitted'

\* The executor is full.  Dropping the guard of the refused job resets the
\* flag; the snapshots stay pending for the next edit.
EditRefused(k) ==
    /\ ~scheduled
    /\ Insert(k)
    /\ Refuse("save")
    /\ scheduled' = FALSE
    /\ completion' = submitted'

\* Settings, recent projects, sessions and passive reads share the executor.
SubmitOther(k) ==
    /\ life = "running"
    /\ k # "save"
    /\ Accept(k) \/ Refuse(k)
    /\ UNCHANGED saverVars

DropReceiver(j) == Alive /\ kind[j] # "save" /\ Abandon(j) /\ UNCHANGED saverVars

\* The last window is gone; the application and the executor thread live on.
CloseWindow == life = "running" /\ Disconnect /\ UNCHANGED saverVars

-----------------------------------------------------------------------------
(* The executor thread *)

StartJob ==
    /\ Alive
    /\ Start
    /\ phase' = IF kind[Head(channel)] = "save" THEN "looping" ELSE phase
    /\ UNCHANGED <<typed, pending, scheduled, batch, durable, lost, completion, life>>

SkipJob == Alive /\ Skip /\ UNCHANGED saverVars

FinishOther(j, result) ==
    /\ Alive
    /\ kind[j] # "save"
    /\ Finish(j, result)
    /\ UNCHANGED saverVars

TakeBatch ==
    /\ Alive
    /\ phase = "looping"
    /\ pending # None
    /\ batch' = pending
    /\ pending' = None
    /\ phase' = "writing"
    /\ UNCHANGED <<executorVars, typed, scheduled, durable, lost, completion, life>>

\* Mutant: the emptiness test and the reset of the flag are not one step.
FindEmptyLate ==
    /\ Alive
    /\ phase = "looping"
    /\ pending = None
    /\ phase' = "returning"
    /\ UNCHANGED <<executorVars, typed, pending, scheduled, batch, durable, lost,
                   completion, life>>

\* Nothing is pending: the flag is reset under the lock that saw it.
FindEmpty ==
    /\ Alive
    /\ phase = "looping"
    /\ pending = None
    /\ scheduled' = FALSE
    /\ phase' = "returning"
    /\ UNCHANGED <<executorVars, typed, pending, batch, durable, lost, completion, life>>

WriteBatch ==
    /\ Alive
    /\ phase = "writing"
    /\ durable' = OrInsert(batch, durable)
    /\ batch' = None
    /\ phase' = "looping"
    /\ UNCHANGED <<executorVars, typed, pending, scheduled, lost, completion, life>>

\* Mutant: a failed batch overwrites the snapshots of later edits.
OverwriteWithBatch ==
    /\ Alive
    /\ phase = "writing"
    /\ pending' = OrInsert(batch, pending)
    /\ batch' = None
    /\ scheduled' = FALSE
    /\ phase' = "failing"
    /\ UNCHANGED <<executorVars, typed, durable, lost, completion, life>>

\* The batch goes back under the snapshots of later edits.
FailBatch ==
    /\ Alive
    /\ phase = "writing"
    /\ pending' = OrInsert(pending, batch)
    /\ batch' = None
    /\ scheduled' = FALSE
    /\ phase' = "failing"
    /\ UNCHANGED <<executorVars, typed, durable, lost, completion, life>>

\* The save panics: the batch is unwound, the guard resets the flag.
PanicBatch ==
    /\ Alive
    /\ phase = "writing"
    /\ lost' = lost \cup {k \in Keys : batch[k] # 0 /\ pending[k] = 0}
    /\ batch' = None
    /\ scheduled' = FALSE
    /\ phase' = "unwinding"
    /\ UNCHANGED <<executorVars, typed, pending, durable, completion, life>>

\* Mutant: the thread does not catch the panic, which then never answers.
AnswerOfUncaught == [returning |-> "ok", failing |-> "failed"]

AnswerOf == [returning |-> "ok", failing |-> "failed", unwinding |-> "interrupted"]

\* The save job answers.
AnswerSave(j) ==
    /\ Alive
    /\ phase \in DOMAIN AnswerOf
    /\ kind[j] = "save"
    /\ Finish(j, AnswerOf[phase])
    /\ phase' = "none"
    /\ UNCHANGED <<typed, pending, scheduled, batch, durable, lost, completion, life>>

-----------------------------------------------------------------------------
(* The end of the process *)

RequestQuit ==
    /\ life = "running"
    /\ life' = "quitting"
    /\ UNCHANGED <<executorVars, typed, pending, scheduled, phase, batch, durable, lost,
                   completion>>

\* The answer that the observer awaits; there is none before the first save.
CompletionIn(stages) == \A j \in Jobs : j = completion => stage[j] \in stages

\* The quit observer has seen the completion it cloned.
Exit ==
    /\ life = "quitting"
    /\ CompletionIn(Settled \cup {"refused"})
    /\ life' = "exited"
    /\ UNCHANGED <<executorVars, typed, pending, scheduled, phase, batch, durable, lost,
                   completion>>

\* The process is killed, or the platform does not wait for the observer.
Crash ==
    /\ Alive
    /\ life' = "crashed"
    /\ UNCHANGED <<executorVars, typed, pending, scheduled, phase, batch, durable, lost,
                   completion>>

ExecutorThread ==
    \/ StartJob \/ SkipJob
    \/ \E j \in Jobs : (\E r \in Results : FinishOther(j, r)) \/ AnswerSave(j)
    \/ TakeBatch \/ FindEmpty \/ WriteBatch \/ FailBatch \/ PanicBatch

Next ==
    \/ \E k \in Keys : EditCoalesced(k) \/ EditScheduling(k) \/ EditRefused(k)
    \/ \E k \in Kinds : SubmitOther(k)
    \/ \E j \in Jobs : DropReceiver(j)
    \/ CloseWindow
    \/ ExecutorThread
    \/ RequestQuit \/ Exit \/ Crash

Spec == Init /\ [][Next]_vars

\* The thread keeps running the jobs it has, each of which returns; the
\* runtime polls the quit observer.
FairSpec == Spec /\ WF_vars(ExecutorThread) /\ WF_vars(Exit)

-----------------------------------------------------------------------------

(***************************************************************************)
(* No edit is forgotten: the newest snapshot of a draft is pending, in the  *)
(* batch being saved or on disk, and older ones are never behind newer ones *)
(* in that order.  Only a panic inside the save destroys a snapshot.        *)
(***************************************************************************)
NewestRetained ==
    \A k \in Keys :
        /\ pending[k] # 0 => pending[k] = typed[k] /\ batch[k] < pending[k]
        /\ pending[k] = 0 /\ batch[k] # 0 => batch[k] = typed[k]
        /\ batch[k] # 0 => durable[k] < batch[k]
        /\ pending[k] = 0 /\ batch[k] = 0 /\ k \notin lost => durable[k] = typed[k]

Responsible(j) ==
    /\ kind[j] = "save"
    /\ stage[j] = "queued" \/ (stage[j] = "running" /\ phase \in {"looping", "writing"})

(***************************************************************************)
(* The scheduled flag is never stuck: it is set exactly while a save job is *)
(* waiting or still going to look at the pending map.  A flag left behind   *)
(* would make every later edit wait for a job that does not exist.          *)
(***************************************************************************)
ScheduledHasJob == scheduled <=> \E j \in Jobs : Responsible(j)

(***************************************************************************)
(* An accepted write runs, whatever happens to the receiver of its answer   *)
(* and to the window that submitted it, while the process lives.            *)
(***************************************************************************)
AcceptedWritesRun ==
    \A j \in Jobs :
        (stage[j] = "queued" /\ kind[j] \notin ReadKinds)
            ~> (stage[j] \in Results \/ ~Alive)

(***************************************************************************)
(* A quit ends: the answer the observer awaits always comes.                *)
(***************************************************************************)
QuitEnds == (life = "quitting") ~> ~Alive

(***************************************************************************)
(* What was accepted ends: every write runs, and a quit is answered, with   *)
(* failing batches, panics and edits in between.                            *)
(***************************************************************************)
AcceptedWorkEnds == AcceptedWritesRun /\ QuitEnds

(***************************************************************************)
(* The saver implements the abstract draft store: copies on disk only move  *)
(* forward, and a process that exits after a successful completion has      *)
(* every draft on disk (unless a panic destroyed one).                      *)
(***************************************************************************)
Ended ==
    CASE Alive -> "no"
      [] life = "exited" /\ lost = {} /\ CompletionIn({"ok"}) -> "saved"
      [] OTHER -> "unsaved"

Store == INSTANCE DraftStore WITH ended <- Ended
StoreSpec == Store!StoreSpec
=============================================================================
