------------------------- MODULE DraftSavingProofs -------------------------
(***************************************************************************)
(* Proofs about SerialExecutor alone, for every number of jobs, capacity    *)
(* and set of kinds, and about DraftSaving, which composes it, for every    *)
(* set of drafts and number of edits too.                                   *)
(*                                                                          *)
(* Two arguments carry the invariants.  The executor runs one job at a time *)
(* (ExecutorInv), so the phase of the saver belongs to the one save job     *)
(* that runs; and at most one save job is responsible for the pending map,  *)
(* so resetting the flag when that job stops looking leaves none behind.    *)
(*                                                                          *)
(* With the completion that a quit awaits (CompletionInv) the saver         *)
(* implements DraftStore, wherever a crash falls.                           *)
(***************************************************************************)
EXTENDS DraftSaving, TLAPS

-----------------------------------------------------------------------------
(* The executor alone.  A module that composes it shows that its steps are  *)
(* steps of ExecutorNext, and has the invariant from there.                 *)

Positions == 1 .. Len(channel)

\* The jobs that were never submitted are the fresh ones.
FreshAfterSubmitted == \A j \in Jobs : stage[j] = "fresh" <=> submitted < j

\* The channel holds exactly the queued jobs, oldest first.
ChannelHoldsQueued ==
    /\ \A p \in Positions : stage[channel[p]] = "queued"
    /\ \A j \in Jobs : stage[j] = "queued" => \E p \in Positions : channel[p] = j

ChannelInOrder == \A p, q \in Positions : p < q => channel[p] < channel[q]

OneRuns == \A i, j \in Jobs : stage[i] = "running" /\ stage[j] = "running" => i = j

ExecutorInv ==
    /\ ExecutorTypeOK
    /\ FreshAfterSubmitted
    /\ ChannelHoldsQueued
    /\ ChannelInOrder
    /\ OneRuns
    /\ SerialInOrder

-----------------------------------------------------------------------------

\* The oldest job of the channel, and the channel without it.
LEMMA HeadOfChannel ==
    ASSUME ExecutorInv, channel # <<>>
    PROVE  /\ Head(channel) \in Jobs
           /\ Head(channel) = channel[1]
           /\ 1 \in Positions
           /\ Tail(channel) \in Seq(Jobs)
           /\ Len(Tail(channel)) = Len(channel) - 1
           /\ Len(channel) \in Nat \ {0}
           /\ \A p \in 1 .. Len(channel) - 1 : Tail(channel)[p] = channel[p + 1]
           /\ stage[Head(channel)] = "queued"
           /\ \A j \in Jobs : stage[j] = "queued" => Head(channel) <= j
<1>1. channel \in Seq(Jobs)
  BY DEF ExecutorInv, ExecutorTypeOK
<1>2. /\ Len(channel) \in Nat \ {0}
      /\ Head(channel) = channel[1]
      /\ Tail(channel) \in Seq(Jobs)
      /\ Len(Tail(channel)) = Len(channel) - 1
      /\ \A p \in 1 .. Len(channel) - 1 : Tail(channel)[p] = channel[p + 1]
  BY <1>1
<1>3. 1 \in Positions /\ channel[1] \in Jobs
  BY <1>1, <1>2 DEF Positions
<1>4. stage[channel[1]] = "queued"
  BY <1>3 DEF ExecutorInv, ChannelHoldsQueued
<1>5. ASSUME NEW j \in Jobs, stage[j] = "queued"
      PROVE  channel[1] <= j
  <2>1. PICK p \in Positions : channel[p] = j
    BY <1>5 DEF ExecutorInv, ChannelHoldsQueued
  <2>2. CASE p = 1
    BY <1>3, <2>1, <2>2 DEF Jobs
  <2>3. CASE p # 1
    <3>1. 1 < p
      BY <1>2, <2>3 DEF Positions
    <3>2. channel[1] < channel[p]
      BY <1>3, <3>1 DEF ExecutorInv, ChannelInOrder
    <3> QED
      BY <1>3, <2>1, <3>2, JobsAssumption DEF Jobs
  <2> QED
    BY <2>2, <2>3
<1> QED
  BY <1>2, <1>3, <1>4, <1>5

-----------------------------------------------------------------------------
(* The steps of the executor *)

LEMMA ExecutorInitInv == ExecutorInit => ExecutorInv
BY JobsAssumption DEF ExecutorInit, ExecutorInv, ExecutorTypeOK, FreshAfterSubmitted,
   ChannelHoldsQueued, ChannelInOrder, OneRuns, SerialInOrder, Positions, Jobs, Stages,
   Settled, Results

\* A new job in the channel.
LEMMA AcceptInv ==
    ASSUME ExecutorInv, NEW k \in Kinds, Accept(k)
    PROVE  ExecutorInv'
<1> DEFINE s == submitted + 1
<1>1. /\ s \in Jobs /\ submitted' = s
      /\ kind' = [kind EXCEPT ![s] = k]
      /\ stage' = [stage EXCEPT ![s] = "queued"]
      /\ heard' \in [Jobs -> BOOLEAN]
      /\ channel' = Append(channel, s)
      /\ connected' = connected
  <2>1. submitted' = s /\ s \in Jobs
    BY JobsAssumption DEF Accept, Submit, ExecutorInv, ExecutorTypeOK, Jobs
  <2>2. heard' \in [Jobs -> BOOLEAN]
    BY DEF Accept, Submit, ExecutorInv, ExecutorTypeOK
  <2> QED
    BY <2>1, <2>2 DEF Accept, Submit
<1>2. channel \in Seq(Jobs) /\ stage \in [Jobs -> Stages] /\ submitted \in 0 .. MaxJobs
  BY DEF ExecutorInv, ExecutorTypeOK
<1>3. /\ Len(channel') = Len(channel) + 1
      /\ channel'[Len(channel) + 1] = s
      /\ \A p \in Positions : channel'[p] = channel[p]
      /\ channel' \in Seq(Jobs)
      /\ Len(channel) \in Nat
  BY <1>1, <1>2 DEF Positions
<1>4. ExecutorTypeOK'
  BY <1>1, <1>2, <1>3, JobsAssumption
     DEF ExecutorInv, ExecutorTypeOK, Accept, Stages, Jobs
<1>5. FreshAfterSubmitted'
  BY <1>1, <1>2 DEF ExecutorInv, FreshAfterSubmitted, Jobs, Stages
<1>6. \A p \in Positions : channel[p] \in Jobs /\ channel[p] < s /\ stage[channel[p]] = "queued"
  BY <1>1, <1>2, JobsAssumption
     DEF ExecutorInv, FreshAfterSubmitted, ChannelHoldsQueued, Positions, Jobs
<1>7. ChannelHoldsQueued'
  BY <1>1, <1>2, <1>3, <1>6 DEF ExecutorInv, ChannelHoldsQueued, Positions, Jobs
<1>8. ChannelInOrder'
  BY <1>1, <1>3, <1>6 DEF ExecutorInv, ChannelInOrder, Positions, Jobs
<1>9. OneRuns'
  BY <1>1, <1>2 DEF ExecutorInv, OneRuns
<1>10. SerialInOrder'
  BY <1>1, <1>2 DEF ExecutorInv, SerialInOrder, FreshAfterSubmitted, Jobs, Settled, Results
<1> QED
  BY <1>4, <1>5, <1>7, <1>8, <1>9, <1>10 DEF ExecutorInv

\* A new job that the full channel does not take.
LEMMA RefuseInv ==
    ASSUME ExecutorInv, NEW k \in Kinds, Refuse(k)
    PROVE  ExecutorInv'
<1> DEFINE s == submitted + 1
<1>1. /\ s \in Jobs /\ submitted' = s
      /\ kind' = [kind EXCEPT ![s] = k]
      /\ stage' = [stage EXCEPT ![s] = "refused"]
      /\ heard' \in [Jobs -> BOOLEAN]
      /\ channel' = channel
      /\ connected' = connected
  <2>1. submitted' = s /\ s \in Jobs
    BY JobsAssumption DEF Refuse, Submit, ExecutorInv, ExecutorTypeOK, Jobs
  <2>2. heard' \in [Jobs -> BOOLEAN]
    BY DEF Refuse, Submit, ExecutorInv, ExecutorTypeOK
  <2> QED
    BY <2>1, <2>2 DEF Refuse, Submit
<1>2. /\ channel \in Seq(Jobs) /\ stage \in [Jobs -> Stages] /\ submitted \in 0 .. MaxJobs
      /\ stage[s] = "fresh"
  BY <1>1 DEF ExecutorInv, ExecutorTypeOK, FreshAfterSubmitted, Jobs
<1>3. ExecutorTypeOK'
  BY <1>1, <1>2, JobsAssumption DEF ExecutorInv, ExecutorTypeOK, Stages, Jobs
<1>4. FreshAfterSubmitted'
  BY <1>1, <1>2 DEF ExecutorInv, FreshAfterSubmitted, Jobs
<1>5. ChannelHoldsQueued'
  BY <1>1, <1>2 DEF ExecutorInv, ChannelHoldsQueued, Positions
<1>6. ChannelInOrder' /\ OneRuns'
  BY <1>1, <1>2 DEF ExecutorInv, ChannelInOrder, OneRuns, Positions
<1>7. SerialInOrder'
  BY <1>1, <1>2 DEF ExecutorInv, SerialInOrder, FreshAfterSubmitted, Jobs, Settled, Results
<1> QED
  BY <1>3, <1>4, <1>5, <1>6, <1>7 DEF ExecutorInv

\* The oldest job leaves the channel, to run or to be skipped.
LEMMA ReceiveInv ==
    ASSUME ExecutorInv, NEW s \in {"running", "skipped"}, Receive(s)
    PROVE  ExecutorInv'
<1> DEFINE h == Head(channel)
<1>1. /\ channel # <<>> /\ Idle
      /\ stage' = [stage EXCEPT ![h] = s]
      /\ channel' = Tail(channel)
      /\ submitted' = submitted /\ kind' = kind /\ heard' = heard /\ connected' = connected
  BY DEF Receive
<1>2. /\ h \in Jobs /\ h = channel[1] /\ 1 \in Positions
      /\ channel' \in Seq(Jobs)
      /\ Len(channel') = Len(channel) - 1
      /\ Len(channel) \in Nat \ {0}
      /\ \A p \in Positions' : channel'[p] = channel[p + 1]
      /\ stage[h] = "queued"
      /\ \A j \in Jobs : stage[j] = "queued" => h <= j
  BY <1>1, HeadOfChannel DEF Positions
<1>3. /\ channel \in Seq(Jobs) /\ stage \in [Jobs -> Stages]
      /\ \A j \in Jobs : stage'[j] = IF j = h THEN s ELSE stage[j]
  BY <1>1, <1>2 DEF ExecutorInv, ExecutorTypeOK
<1>4. ExecutorTypeOK'
  BY <1>1, <1>2, <1>3, JobsAssumption
     DEF ExecutorInv, ExecutorTypeOK, Stages, Settled, Results
<1>5. FreshAfterSubmitted'
  BY <1>1, <1>2, <1>3 DEF ExecutorInv, FreshAfterSubmitted
<1>6. ChannelInOrder'
  BY <1>2 DEF ExecutorInv, ChannelInOrder, Positions
<1>7. ASSUME NEW p \in Positions'
      PROVE  stage'[channel'[p]] = "queued"
  <2>1. p + 1 \in Positions /\ 1 < p + 1 /\ channel[p + 1] \in Jobs
    BY <1>2, <1>3, <1>7 DEF Positions
  <2>2. channel[p + 1] # h
    BY <1>2, <2>1 DEF ExecutorInv, ChannelInOrder, Jobs
  <2> QED
    BY <1>2, <1>3, <1>7, <2>1, <2>2 DEF ExecutorInv, ChannelHoldsQueued
<1>8. ASSUME NEW j \in Jobs, stage'[j] = "queued"
      PROVE  \E p \in Positions' : channel'[p] = j
  <2>1. j # h /\ stage[j] = "queued"
    BY <1>3, <1>8
  <2>2. PICK p \in Positions : channel[p] = j
    BY <2>1 DEF ExecutorInv, ChannelHoldsQueued
  <2>3. p - 1 \in Positions' /\ (p - 1) + 1 = p
    BY <1>2, <2>1, <2>2 DEF Positions
  <2>4. channel'[p - 1] = j
    BY <1>2, <2>2, <2>3
  <2> QED
    BY <2>3, <2>4
<1>9. ChannelHoldsQueued'
  BY <1>7, <1>8 DEF ChannelHoldsQueued
<1>10. OneRuns'
  BY <1>1, <1>3 DEF OneRuns, Idle
<1>11. SerialInOrder'
  <2> SUFFICES ASSUME NEW i \in Jobs, NEW j \in Jobs, i < j,
                      stage'[j] \in Settled \cup {"running"}
               PROVE  stage'[i] \in Settled \cup {"refused"}
    BY DEF SerialInOrder
  <2>1. CASE j = h
    <3>1. stage[i] \notin {"fresh", "queued", "running"}
      BY <1>1, <1>2, <2>1 DEF ExecutorInv, ExecutorTypeOK, FreshAfterSubmitted, Idle, Jobs
    <3> QED
      BY <1>3, <2>1, <3>1 DEF Stages, Jobs
  <2>2. CASE j # h
    <3>1. stage[i] \in Settled \cup {"refused"}
      BY <1>3, <2>2 DEF ExecutorInv, SerialInOrder
    <3> QED
      BY <1>2, <1>3, <3>1 DEF Settled, Results
  <2> QED
    BY <2>1, <2>2
<1> QED
  BY <1>4, <1>5, <1>6, <1>9, <1>10, <1>11 DEF ExecutorInv

\* The running job ends.
LEMMA FinishInv ==
    ASSUME ExecutorInv, NEW j \in Jobs, NEW r \in Results, Finish(j, r)
    PROVE  ExecutorInv'
<1>1. /\ stage[j] = "running"
      /\ stage' = [stage EXCEPT ![j] = r]
      /\ heard' = [heard EXCEPT ![j] = FALSE]
      /\ UNCHANGED <<submitted, kind, channel, connected>>
  BY DEF Finish
<1>2. stage \in [Jobs -> Stages] /\ channel \in Seq(Jobs)
  BY DEF ExecutorInv, ExecutorTypeOK
<1>3. ExecutorTypeOK'
  BY <1>1 DEF ExecutorInv, ExecutorTypeOK, Stages, Settled
<1>4. FreshAfterSubmitted'
  BY <1>1, <1>2 DEF ExecutorInv, FreshAfterSubmitted, Results
<1>5. ChannelHoldsQueued'
  BY <1>1, <1>2 DEF ExecutorInv, ChannelHoldsQueued, Positions, Results
<1>6. ChannelInOrder'
  BY <1>1 DEF ExecutorInv, ChannelInOrder, Positions
<1>7. OneRuns'
  BY <1>1, <1>2 DEF ExecutorInv, OneRuns, Results
<1>8. SerialInOrder'
  BY <1>1, <1>2 DEF ExecutorInv, SerialInOrder, Settled, Results
<1> QED
  BY <1>3, <1>4, <1>5, <1>6, <1>7, <1>8 DEF ExecutorInv

\* Receivers and the owner go; nothing else changes.
LEMMA DropInv ==
    ASSUME ExecutorInv,
           UNCHANGED executorVars \/ Disconnect \/ \E j \in Jobs : Abandon(j)
    PROVE  ExecutorInv'
<1>1. /\ UNCHANGED <<submitted, kind, stage, channel>>
      /\ heard' \in [Jobs -> BOOLEAN] /\ connected' \in BOOLEAN
  BY DEF ExecutorInv, ExecutorTypeOK, executorVars, Disconnect, Abandon
<1> QED
  BY <1>1 DEF ExecutorInv, ExecutorTypeOK, FreshAfterSubmitted, ChannelHoldsQueued,
     ChannelInOrder, OneRuns, SerialInOrder, Positions

LEMMA ExecutorStepInv ==
    ASSUME ExecutorInv, [ExecutorNext]_executorVars
    PROVE  ExecutorInv'
<1>1. ASSUME NEW k \in Kinds, Accept(k) PROVE ExecutorInv'
  BY <1>1, AcceptInv
<1>2. ASSUME NEW k \in Kinds, Refuse(k) PROVE ExecutorInv'
  BY <1>2, RefuseInv
<1>3. ASSUME NEW j \in Jobs, NEW r \in Results, Finish(j, r) PROVE ExecutorInv'
  BY <1>3, FinishInv
<1>4. CASE Start
  BY <1>4, ReceiveInv DEF Start
<1>5. CASE Skip
  BY <1>5, ReceiveInv DEF Skip
<1>6. CASE Disconnect \/ \E j \in Jobs : Abandon(j)
  BY <1>6, DropInv
<1>7. CASE UNCHANGED executorVars
  BY <1>7, DropInv
<1> QED
  BY <1>1, <1>2, <1>3, <1>4, <1>5, <1>6, <1>7 DEF ExecutorNext

(***************************************************************************)
(* Any system that uses the executor only through its operations has its    *)
(* jobs take effect one at a time, in the order of acceptance.              *)
(***************************************************************************)
THEOREM ExecutorIsSerial ==
    ExecutorInit /\ [][ExecutorNext]_executorVars => []SerialInOrder
<1>1. ExecutorInit => ExecutorInv
  BY ExecutorInitInv
<1>2. ExecutorInv /\ [ExecutorNext]_executorVars => ExecutorInv'
  BY ExecutorStepInv
<1>3. ExecutorInv => SerialInOrder
  BY DEF ExecutorInv
<1> QED
  BY <1>1, <1>2, <1>3, PTL

-----------------------------------------------------------------------------
(* The inductive invariant of the saver.                                    *)

\* The phase is the one of the save job that runs.
PhaseIsRunningSave ==
    phase # "none" <=> \E j \in Jobs : stage[j] = "running" /\ kind[j] = "save"

BatchOnlyWhileWriting == phase # "writing" => batch = None

OneResponsible == \A i, j \in Jobs : Responsible(i) /\ Responsible(j) => i = j

\* What is on disk is older than what is to be saved.
DiskIsBehind ==
    \A k \in Keys :
        /\ durable[k] <= typed[k]
        /\ pending[k] # 0 => durable[k] < pending[k]

SaverInv ==
    /\ TypeOK
    /\ PhaseIsRunningSave
    /\ BatchOnlyWhileWriting
    /\ OneResponsible
    /\ ScheduledHasJob
    /\ DiskIsBehind
    /\ NewestRetained

IInv == ExecutorInv /\ SaverInv

-----------------------------------------------------------------------------
(* Every step of the saver is a step of the executor, or leaves it alone. *)

LEMMA SaveIsNoRead == "save" \in Kinds /\ "save" \notin ReadKinds
BY DraftAssumption

LEMMA NextIsExecutorStep == [Next]_vars => [ExecutorNext]_executorVars
<1> SUFFICES ASSUME [Next]_vars PROVE [ExecutorNext]_executorVars
  OBVIOUS
<1> USE DEF ExecutorNext
<1>1. ASSUME NEW k \in Keys, EditCoalesced(k) \/ EditScheduling(k) \/ EditRefused(k)
      PROVE  [ExecutorNext]_executorVars
  BY <1>1, SaveIsNoRead DEF EditCoalesced, EditScheduling, EditRefused
<1>2. ASSUME NEW k \in Kinds, SubmitOther(k) PROVE [ExecutorNext]_executorVars
  BY <1>2 DEF SubmitOther
<1>3. ASSUME NEW j \in Jobs, DropReceiver(j) PROVE [ExecutorNext]_executorVars
  BY <1>3 DEF DropReceiver
<1>4. CASE CloseWindow
  BY <1>4 DEF CloseWindow
<1>5. CASE StartJob \/ SkipJob
  BY <1>5 DEF StartJob, SkipJob
<1>6. ASSUME NEW j \in Jobs, NEW r \in Results, FinishOther(j, r)
      PROVE  [ExecutorNext]_executorVars
  BY <1>6 DEF FinishOther
<1>7. ASSUME NEW j \in Jobs, AnswerSave(j) PROVE [ExecutorNext]_executorVars
  <2>1. AnswerOf[phase] \in Results
    BY <1>7 DEF AnswerSave, AnswerOf, Results
  <2> QED
    BY <1>7, <2>1 DEF AnswerSave
<1>8. CASE TakeBatch \/ FindEmpty \/ WriteBatch \/ FailBatch \/ PanicBatch
  BY <1>8 DEF TakeBatch, FindEmpty, WriteBatch, FailBatch, PanicBatch
<1>9. CASE RequestQuit \/ Exit \/ Crash
  BY <1>9 DEF RequestQuit, Exit, Crash
<1>10. CASE UNCHANGED vars
  BY <1>10 DEF vars
<1> QED
  BY <1>1, <1>2, <1>3, <1>4, <1>5, <1>6, <1>7, <1>8, <1>9, <1>10 DEF Next, ExecutorThread
-----------------------------------------------------------------------------
(* The steps, one lemma for those that disturb the same parts.  Each may    *)
(* assume the executor's invariant after the step.                          *)

LEMMA InitInv == Init => IInv
<1> SUFFICES ASSUME Init PROVE SaverInv
  BY ExecutorInitInv DEF Init, IInv
<1>1. TypeOK
  BY ExecutorInitInv DEF Init, TypeOK, ExecutorInv, None
<1>2. PhaseIsRunningSave /\ OneResponsible /\ ScheduledHasJob
  BY DEF Init, ExecutorInit, PhaseIsRunningSave, OneResponsible, ScheduledHasJob, Responsible
<1>3. BatchOnlyWhileWriting /\ DiskIsBehind /\ NewestRetained
  BY DEF Init, None, BatchOnlyWhileWriting, DiskIsBehind, NewestRetained
<1> QED
  BY <1>1, <1>2, <1>3 DEF SaverInv

\* The part of an edit under the lock of the pending map.
LEMMA InsertKeeps ==
    ASSUME SaverInv, NEW k \in Keys, Insert(k)
    PROVE  /\ typed' \in [Keys -> Nat] /\ pending' \in [Keys -> Nat] /\ lost' \subseteq Keys
           /\ UNCHANGED <<phase, batch, durable, life>>
           /\ BatchOnlyWhileWriting' /\ DiskIsBehind' /\ NewestRetained'
<1>1. /\ typed' = [typed EXCEPT ![k] = @ + 1]
      /\ pending' = [pending EXCEPT ![k] = typed'[k]]
      /\ lost' = lost \ {k}
      /\ UNCHANGED <<phase, batch, durable, life>>
  BY DEF Insert
<1>2. /\ typed \in [Keys -> Nat] /\ pending \in [Keys -> Nat] /\ lost \subseteq Keys
      /\ batch \in [Keys -> Nat] /\ durable \in [Keys -> Nat]
  BY DEF SaverInv, TypeOK
<1>3. typed' \in [Keys -> Nat] /\ pending' \in [Keys -> Nat] /\ lost' \subseteq Keys
  BY <1>1, <1>2
<1>4. BatchOnlyWhileWriting'
  BY <1>1 DEF SaverInv, BatchOnlyWhileWriting, None
<1>5. batch[k] <= typed[k] /\ durable[k] <= typed[k]
  BY <1>2 DEF SaverInv, NewestRetained, DiskIsBehind
<1>6. DiskIsBehind'
  BY <1>1, <1>2, <1>5 DEF SaverInv, DiskIsBehind
<1>7. NewestRetained'
  BY <1>1, <1>2, <1>5 DEF SaverInv, NewestRetained
<1> QED
  BY <1>1, <1>3, <1>4, <1>6, <1>7

LEMMA EditCoalescedInv ==
    ASSUME IInv, ExecutorInv', NEW k \in Keys, EditCoalesced(k)
    PROVE  SaverInv'
<1>1. Insert(k) /\ UNCHANGED <<submitted, kind, stage, heard, channel, connected, scheduled,
                               completion, phase>>
  BY DEF EditCoalesced, executorVars, Insert
<1>2. /\ typed' \in [Keys -> Nat] /\ pending' \in [Keys -> Nat] /\ lost' \subseteq Keys
      /\ UNCHANGED <<batch, durable, life>>
      /\ BatchOnlyWhileWriting' /\ DiskIsBehind' /\ NewestRetained'
  BY <1>1, InsertKeeps DEF IInv
<1>3. TypeOK'
  BY <1>1, <1>2 DEF IInv, SaverInv, TypeOK, ExecutorInv, Jobs
<1>4. PhaseIsRunningSave' /\ OneResponsible' /\ ScheduledHasJob'
  BY <1>1 DEF IInv, SaverInv, PhaseIsRunningSave, OneResponsible, ScheduledHasJob, Responsible
<1> QED
  BY <1>2, <1>3, <1>4 DEF SaverInv

\* A submitted job is new, so what was said of the others stays.
LEMMA SubmitKeeps ==
    ASSUME IInv, NEW k \in Kinds, NEW s \in {"queued", "refused"}, Submit(k, s)
    PROVE  /\ submitted' \in Jobs /\ stage[submitted'] = "fresh"
           /\ stage'[submitted'] = s /\ kind'[submitted'] = k
           /\ \A j \in Jobs : j # submitted' => stage'[j] = stage[j] /\ kind'[j] = kind[j]
<1>1. /\ submitted \in 0 .. MaxJobs /\ kind \in [Jobs -> Kinds \cup {"none"}]
      /\ stage \in [Jobs -> Stages]
  BY DEF IInv, ExecutorInv, ExecutorTypeOK
<1>2. submitted' = submitted + 1 /\ submitted' \in Jobs
  BY <1>1, JobsAssumption DEF Submit, Jobs
<1>3. stage[submitted'] = "fresh"
  BY <1>1, <1>2 DEF IInv, ExecutorInv, FreshAfterSubmitted
<1> QED
  BY <1>1, <1>2, <1>3 DEF Submit

LEMMA EditSubmittingInv ==
    ASSUME IInv, ExecutorInv', NEW k \in Keys, EditScheduling(k) \/ EditRefused(k)
    PROVE  SaverInv'
<1>1. PICK s \in {"queued", "refused"} :
        /\ Submit("save", s) /\ Insert(k) /\ ~scheduled
        /\ scheduled' = (s = "queued")
        /\ completion' = submitted'
  BY DEF EditScheduling, EditRefused, Accept, Refuse
<1>2. /\ typed' \in [Keys -> Nat] /\ pending' \in [Keys -> Nat] /\ lost' \subseteq Keys
      /\ UNCHANGED <<phase, batch, durable, life>>
      /\ BatchOnlyWhileWriting' /\ DiskIsBehind' /\ NewestRetained'
  BY <1>1, InsertKeeps DEF IInv
<1>3. /\ submitted' \in Jobs /\ stage[submitted'] = "fresh"
      /\ stage'[submitted'] = s /\ kind'[submitted'] = "save"
      /\ \A j \in Jobs : j # submitted' => stage'[j] = stage[j] /\ kind'[j] = kind[j]
  BY <1>1, SubmitKeeps, SaveIsNoRead
<1>4. TypeOK'
  BY <1>1, <1>2, <1>3 DEF IInv, SaverInv, TypeOK, ExecutorInv
<1>5. PhaseIsRunningSave'
  BY <1>2, <1>3 DEF IInv, SaverInv, PhaseIsRunningSave
<1>6. \A j \in Jobs : ~Responsible(j)
  BY <1>1 DEF IInv, SaverInv, ScheduledHasJob
<1>7. \A j \in Jobs : Responsible(j)' <=> j = submitted' /\ s = "queued"
  BY <1>2, <1>3, <1>6 DEF Responsible
<1>8. OneResponsible' /\ ScheduledHasJob'
  BY <1>1, <1>3, <1>7 DEF OneResponsible, ScheduledHasJob
<1> QED
  BY <1>2, <1>4, <1>5, <1>8 DEF SaverInv

\* Jobs other than saves come and go, and so do receivers and the window.
OnlyOthersChange ==
    \A j \in Jobs :
        \/ stage'[j] = stage[j] /\ kind'[j] = kind[j]
        \/ /\ ~(kind[j] = "save" /\ stage[j] \in {"queued", "running"})
           /\ ~(kind'[j] = "save" /\ stage'[j] \in {"queued", "running"})

LEMMA OthersInv ==
    ASSUME IInv, ExecutorInv',
           \/ \E k \in Kinds : SubmitOther(k)
           \/ \E j \in Jobs : DropReceiver(j) \/ \E r \in Results : FinishOther(j, r)
           \/ CloseWindow \/ SkipJob
    PROVE  SaverInv'
<1>1. UNCHANGED <<typed, pending, scheduled, phase, batch, durable, lost, completion, life>>
  BY DEF SubmitOther, DropReceiver, FinishOther, CloseWindow, SkipJob, saverVars
<1>2. OnlyOthersChange
  <2>1. ASSUME NEW k \in Kinds, SubmitOther(k) PROVE OnlyOthersChange
    <3>1. k # "save" /\ \E s \in {"queued", "refused"} : Submit(k, s)
      BY <2>1 DEF SubmitOther, Accept, Refuse
    <3> QED
      BY <3>1, SubmitKeeps DEF OnlyOthersChange
  <2>2. ASSUME NEW j \in Jobs, DropReceiver(j) PROVE OnlyOthersChange
    BY <2>2 DEF DropReceiver, Abandon, OnlyOthersChange
  <2>3. ASSUME NEW j \in Jobs, NEW r \in Results, FinishOther(j, r) PROVE OnlyOthersChange
    BY <2>3 DEF FinishOther, Finish, OnlyOthersChange, IInv, ExecutorInv, ExecutorTypeOK
  <2>4. CASE CloseWindow
    BY <2>4 DEF CloseWindow, Disconnect, OnlyOthersChange
  <2>5. CASE SkipJob
    <3>1. /\ Head(channel) \in Jobs /\ kind[Head(channel)] # "save"
          /\ stage' = [stage EXCEPT ![Head(channel)] = "skipped"] /\ kind' = kind
      BY <2>5, HeadOfChannel, SaveIsNoRead DEF SkipJob, Skip, Unwanted, Receive, IInv
    <3> QED
      BY <3>1 DEF OnlyOthersChange, IInv, ExecutorInv, ExecutorTypeOK
  <2> QED
    BY <2>1, <2>2, <2>3, <2>4, <2>5
<1>3. TypeOK' /\ BatchOnlyWhileWriting' /\ DiskIsBehind' /\ NewestRetained'
  BY <1>1 DEF IInv, SaverInv, TypeOK, ExecutorInv, BatchOnlyWhileWriting, DiskIsBehind,
     NewestRetained, None, Jobs
<1>4. PhaseIsRunningSave'
  BY <1>1, <1>2 DEF IInv, SaverInv, PhaseIsRunningSave, OnlyOthersChange
<1>5. \A j \in Jobs : Responsible(j)' <=> Responsible(j)
  BY <1>1, <1>2 DEF Responsible, OnlyOthersChange
<1>6. OneResponsible' /\ ScheduledHasJob'
  BY <1>1, <1>5 DEF IInv, SaverInv, OneResponsible, ScheduledHasJob
<1> QED
  BY <1>3, <1>4, <1>6 DEF SaverInv

\* The thread takes up a job; a save starts to look at the pending map.
LEMMA StartInv ==
    ASSUME IInv, ExecutorInv', StartJob
    PROVE  SaverInv'
<1> DEFINE h == Head(channel)
<1>1. /\ Idle /\ h \in Jobs /\ stage[h] = "queued" /\ stage \in [Jobs -> Stages]
      /\ stage' = [stage EXCEPT ![h] = "running"] /\ kind' = kind
      /\ phase' = IF kind[h] = "save" THEN "looping" ELSE phase
      /\ UNCHANGED <<typed, pending, scheduled, batch, durable, lost, completion, life>>
  BY HeadOfChannel DEF StartJob, Start, Receive, IInv, ExecutorInv, ExecutorTypeOK
<1>2. phase = "none" /\ batch = None
  BY <1>1 DEF Idle, IInv, SaverInv, PhaseIsRunningSave, BatchOnlyWhileWriting
<1>3. TypeOK' /\ BatchOnlyWhileWriting' /\ DiskIsBehind' /\ NewestRetained'
  BY <1>1, <1>2 DEF IInv, SaverInv, TypeOK, ExecutorInv, BatchOnlyWhileWriting, DiskIsBehind,
     NewestRetained, None, Jobs
<1>4. PhaseIsRunningSave'
  BY <1>1, <1>2 DEF PhaseIsRunningSave, Idle
<1>5. \A j \in Jobs : Responsible(j)' <=> Responsible(j)
  BY <1>1, <1>2 DEF Responsible, Idle
<1>6. OneResponsible' /\ ScheduledHasJob'
  BY <1>1, <1>5 DEF IInv, SaverInv, OneResponsible, ScheduledHasJob
<1> QED
  BY <1>3, <1>4, <1>6 DEF SaverInv

\* While the save looks at the pending map, no other save waits.
LEMMA NobodyElseResponsible ==
    ASSUME IInv, phase \in {"looping", "writing"}
    PROVE  \A j \in Jobs : kind[j] = "save" => stage[j] # "queued"
<1>1. PICK i \in Jobs : stage[i] = "running" /\ kind[i] = "save"
  BY DEF IInv, SaverInv, PhaseIsRunningSave
<1>2. Responsible(i)
  BY <1>1 DEF Responsible
<1> QED
  BY <1>1, <1>2 DEF IInv, SaverInv, OneResponsible, Responsible

\* The running save moves on, and remains responsible.
LEMMA LookInv ==
    ASSUME IInv, ExecutorInv', TakeBatch \/ WriteBatch
    PROVE  SaverInv'
<1>1. /\ UNCHANGED <<stage, kind, typed, scheduled, lost, completion, life>>
      /\ phase \in {"looping", "writing"} /\ phase' \in {"looping", "writing"}
  BY DEF TakeBatch, WriteBatch, executorVars
<1>2. /\ typed \in [Keys -> Nat] /\ pending \in [Keys -> Nat]
      /\ batch \in [Keys -> Nat] /\ durable \in [Keys -> Nat]
      /\ None \in [Keys -> Nat] /\ \A k \in Keys : None[k] = 0
  BY DEF IInv, SaverInv, TypeOK, None
<1>3. PhaseIsRunningSave'
  BY <1>1 DEF IInv, SaverInv, PhaseIsRunningSave
<1>4. OneResponsible' /\ ScheduledHasJob'
  BY <1>1 DEF IInv, SaverInv, OneResponsible, ScheduledHasJob, Responsible
<1>5. CASE TakeBatch
  <2>1. /\ batch = None /\ batch' = pending /\ pending' = None /\ phase' = "writing"
        /\ UNCHANGED <<typed, durable, lost>>
    BY <1>5 DEF TakeBatch, IInv, SaverInv, BatchOnlyWhileWriting
  <2>2. TypeOK' /\ BatchOnlyWhileWriting'
    BY <1>1, <1>2, <2>1 DEF IInv, SaverInv, TypeOK, ExecutorInv, BatchOnlyWhileWriting, Jobs
  <2>3. DiskIsBehind' /\ NewestRetained'
    BY <1>2, <2>1 DEF IInv, SaverInv, DiskIsBehind, NewestRetained
  <2> QED
    BY <1>3, <1>4, <2>2, <2>3 DEF SaverInv
<1>6. CASE WriteBatch
  <2>1. /\ durable' = [k \in Keys |-> IF batch[k] # 0 THEN batch[k] ELSE durable[k]]
        /\ batch' = None /\ phase' = "looping"
        /\ UNCHANGED <<typed, pending, lost>>
    BY <1>6 DEF WriteBatch, OrInsert
  <2>2. TypeOK' /\ BatchOnlyWhileWriting'
    BY <1>1, <1>2, <2>1 DEF IInv, SaverInv, TypeOK, ExecutorInv, BatchOnlyWhileWriting, None, Jobs
  <2>3. DiskIsBehind' /\ NewestRetained'
    BY <1>2, <2>1 DEF IInv, SaverInv, DiskIsBehind, NewestRetained
  <2> QED
    BY <1>3, <1>4, <2>2, <2>3 DEF SaverInv
<1> QED
  BY <1>5, <1>6

\* The running save stops looking, and resets the flag in the same step.
LEMMA StopInv ==
    ASSUME IInv, ExecutorInv', FindEmpty \/ FailBatch \/ PanicBatch
    PROVE  SaverInv'
<1>1. /\ UNCHANGED <<stage, kind, typed, durable, completion, life>>
      /\ phase \in {"looping", "writing"} /\ phase' \in {"returning", "failing", "unwinding"}
      /\ scheduled' = FALSE
  BY DEF FindEmpty, FailBatch, PanicBatch, executorVars
<1>2. /\ typed \in [Keys -> Nat] /\ pending \in [Keys -> Nat]
      /\ batch \in [Keys -> Nat] /\ durable \in [Keys -> Nat]
      /\ None \in [Keys -> Nat] /\ \A k \in Keys : None[k] = 0
  BY DEF IInv, SaverInv, TypeOK, None
<1>3. PhaseIsRunningSave'
  BY <1>1 DEF IInv, SaverInv, PhaseIsRunningSave
<1>4. \A j \in Jobs : ~Responsible(j)'
  BY <1>1, NobodyElseResponsible DEF Responsible
<1>5. OneResponsible' /\ ScheduledHasJob'
  BY <1>1, <1>4 DEF OneResponsible, ScheduledHasJob
<1>6. batch' = None
  BY DEF FindEmpty, FailBatch, PanicBatch, IInv, SaverInv, BatchOnlyWhileWriting
<1>7. CASE FindEmpty
  <2>1. UNCHANGED <<pending, batch, lost>>
    BY <1>7 DEF FindEmpty
  <2> QED
    BY <1>1, <1>2, <1>3, <1>5, <1>6, <2>1 DEF IInv, SaverInv, TypeOK, ExecutorInv,
       BatchOnlyWhileWriting, DiskIsBehind, NewestRetained, None, Jobs
<1>8. CASE FailBatch
  <2>1. /\ pending' = [k \in Keys |-> IF pending[k] # 0 THEN pending[k] ELSE batch[k]]
        /\ UNCHANGED lost
    BY <1>8 DEF FailBatch, OrInsert
  <2>2. TypeOK' /\ BatchOnlyWhileWriting'
    BY <1>1, <1>2, <1>6, <2>1 DEF IInv, SaverInv, TypeOK, ExecutorInv, BatchOnlyWhileWriting,
       None, Jobs
  <2>3. DiskIsBehind' /\ NewestRetained'
    BY <1>1, <1>2, <1>6, <2>1 DEF IInv, SaverInv, DiskIsBehind, NewestRetained
  <2> QED
    BY <1>3, <1>5, <2>2, <2>3 DEF SaverInv
<1>9. CASE PanicBatch
  <2>1. /\ lost' = lost \cup {k \in Keys : batch[k] # 0 /\ pending[k] = 0}
        /\ UNCHANGED pending
    BY <1>9 DEF PanicBatch
  <2>2. TypeOK' /\ BatchOnlyWhileWriting'
    BY <1>1, <1>2, <1>6, <2>1 DEF IInv, SaverInv, TypeOK, ExecutorInv, BatchOnlyWhileWriting,
       None, Jobs
  <2>3. DiskIsBehind' /\ NewestRetained'
    BY <1>1, <1>2, <1>6, <2>1 DEF IInv, SaverInv, DiskIsBehind, NewestRetained
  <2> QED
    BY <1>3, <1>5, <2>2, <2>3 DEF SaverInv
<1> QED
  BY <1>7, <1>8, <1>9

\* The save answers; it was the only running job.
LEMMA AnswerInv ==
    ASSUME IInv, ExecutorInv', NEW j \in Jobs, AnswerSave(j)
    PROVE  SaverInv'
<1>1. /\ stage[j] = "running" /\ kind[j] = "save" /\ kind' = kind
      /\ phase \in {"returning", "failing", "unwinding"} /\ phase' = "none"
      /\ stage' = [stage EXCEPT ![j] = AnswerOf[phase]] /\ AnswerOf[phase] \in Results
      /\ UNCHANGED <<typed, pending, scheduled, batch, durable, lost, completion, life>>
  BY DEF AnswerSave, Finish, AnswerOf, Results
<1>2. /\ stage \in [Jobs -> Stages]
      /\ \A i \in Jobs : i # j => stage'[i] = stage[i] /\ stage[i] # "running"
      /\ stage'[j] \notin {"queued", "running"}
  BY <1>1 DEF IInv, ExecutorInv, ExecutorTypeOK, OneRuns, Results
<1>3. TypeOK' /\ BatchOnlyWhileWriting' /\ DiskIsBehind' /\ NewestRetained'
  BY <1>1 DEF IInv, SaverInv, TypeOK, ExecutorInv, BatchOnlyWhileWriting, DiskIsBehind,
     NewestRetained, None, Jobs
<1>4. PhaseIsRunningSave'
  BY <1>1, <1>2 DEF PhaseIsRunningSave
<1>5. \A i \in Jobs : Responsible(i)' <=> Responsible(i)
  BY <1>1, <1>2 DEF Responsible
<1>6. OneResponsible' /\ ScheduledHasJob'
  BY <1>1, <1>5 DEF IInv, SaverInv, OneResponsible, ScheduledHasJob
<1> QED
  BY <1>3, <1>4, <1>6 DEF SaverInv

\* The process goes; the rest stays as it was.
LEMMA ProcessInv ==
    ASSUME IInv, ExecutorInv', RequestQuit \/ Exit \/ Crash \/ UNCHANGED vars
    PROVE  SaverInv'
<1>1. /\ UNCHANGED <<stage, kind, typed, pending, scheduled, phase, batch, durable, lost,
                     completion>>
      /\ life' \in {"running", "quitting", "exited", "crashed"}
  BY DEF RequestQuit, Exit, Crash, vars, executorVars, saverVars, IInv, SaverInv, TypeOK
<1> QED
  BY <1>1 DEF IInv, SaverInv, TypeOK, ExecutorInv, PhaseIsRunningSave, BatchOnlyWhileWriting,
     OneResponsible, ScheduledHasJob, Responsible, DiskIsBehind, NewestRetained, None, Jobs

-----------------------------------------------------------------------------

LEMMA StepInv == IInv /\ [Next]_vars => IInv'
<1> SUFFICES ASSUME IInv, [Next]_vars PROVE IInv'
  OBVIOUS
<1>1. ExecutorInv'
  BY NextIsExecutorStep, ExecutorStepInv DEF IInv
<1>2. ASSUME NEW k \in Keys, EditCoalesced(k) PROVE SaverInv'
  BY <1>1, <1>2, EditCoalescedInv
<1>3. ASSUME NEW k \in Keys, EditScheduling(k) \/ EditRefused(k) PROVE SaverInv'
  BY <1>1, <1>3, EditSubmittingInv
<1>4. ASSUME \/ \E k \in Kinds : SubmitOther(k)
             \/ \E j \in Jobs : DropReceiver(j) \/ \E r \in Results : FinishOther(j, r)
             \/ CloseWindow \/ SkipJob
      PROVE  SaverInv'
  BY <1>1, <1>4, OthersInv
<1>5. ASSUME StartJob PROVE SaverInv'
  BY <1>1, <1>5, StartInv
<1>6. ASSUME TakeBatch \/ WriteBatch PROVE SaverInv'
  BY <1>1, <1>6, LookInv
<1>7. ASSUME FindEmpty \/ FailBatch \/ PanicBatch PROVE SaverInv'
  BY <1>1, <1>7, StopInv
<1>8. ASSUME NEW j \in Jobs, AnswerSave(j) PROVE SaverInv'
  BY <1>1, <1>8, AnswerInv
<1>9. ASSUME RequestQuit \/ Exit \/ Crash \/ UNCHANGED vars PROVE SaverInv'
  BY <1>1, <1>9, ProcessInv
<1>10. SaverInv'
  BY <1>2, <1>3, <1>4, <1>5, <1>6, <1>7, <1>8, <1>9 DEF Next, ExecutorThread
<1> QED
  BY <1>1, <1>10 DEF IInv

(***************************************************************************)
(* The inductive invariant: the executor's, and that the saver's flag, its *)
(* save in progress and the disk agree with it.                            *)
(***************************************************************************)
THEOREM Invariance == Spec => []IInv
BY InitInv, StepInv, PTL DEF Spec

(***************************************************************************)
(* Every variable of the saver and of the executor has its type; among      *)
(* others, the channel never holds more jobs than its capacity.             *)
(***************************************************************************)
THEOREM TypeCorrect == Spec => []TypeOK
<1>1. IInv => TypeOK
  BY DEF IInv, SaverInv
<1> QED
  BY <1>1, Invariance, PTL

(***************************************************************************)
(* Preference jobs, sessions and saves take effect one at a time, in the    *)
(* order in which the executor accepted them.                               *)
(***************************************************************************)
THEOREM JobsAreSerial == Spec => []SerialInOrder
<1>1. IInv => SerialInOrder
  BY DEF IInv, ExecutorInv
<1> QED
  BY <1>1, Invariance, PTL

(***************************************************************************)
(* No edit of a draft is forgotten, unless a save panics.                   *)
(***************************************************************************)
THEOREM EditsAreRetained == Spec => []NewestRetained
<1>1. IInv => NewestRetained
  BY DEF IInv, SaverInv
<1> QED
  BY <1>1, Invariance, PTL

(***************************************************************************)
(* The scheduled flag of the saver is never stuck.                          *)
(***************************************************************************)
THEOREM FlagIsNeverStuck == Spec => []ScheduledHasJob
<1>1. IInv => ScheduledHasJob
  BY DEF IInv, SaverInv
<1> QED
  BY <1>1, Invariance, PTL

-----------------------------------------------------------------------------
(* The refinement of DraftStore *)

\* The save that the quit observer awaits took the newest snapshots, if it is
\* about to succeed or has.
CompletionSaved ==
    \/ stage[completion] = "ok"
    \/ stage[completion] = "running" /\ phase = "returning"

\* The completion belongs to the last save, and no edit escapes it: while a save
\* is scheduled it is the one, and none is pending once it saved.
CompletionInv ==
    /\ completion = 0 => typed = None
    /\ completion # 0 => kind[completion] = "save" /\ stage[completion] # "fresh"
    /\ scheduled => completion # 0 /\ Responsible(completion)
    /\ completion # 0 /\ CompletionSaved => pending = None

StoreInv == IInv /\ CompletionInv

-----------------------------------------------------------------------------

LEMMA InitCompletion == Init => CompletionInv
BY DEF Init, CompletionInv

LEMMA EditCompletion ==
    ASSUME IInv, CompletionInv,
           NEW k \in Keys, EditCoalesced(k) \/ EditScheduling(k) \/ EditRefused(k)
    PROVE  CompletionInv'
<1>1. CASE EditCoalesced(k)
  <2>1. /\ scheduled /\ completion # 0 /\ Responsible(completion)
        /\ UNCHANGED <<stage, kind, phase, completion, scheduled>>
    BY <1>1 DEF CompletionInv, EditCoalesced, Insert, executorVars
  <2>2. ~CompletionSaved'
    BY <2>1 DEF Responsible, CompletionSaved
  <2>3. completion' # 0 /\ kind'[completion'] = "save" /\ stage'[completion'] # "fresh"
    BY <2>1 DEF CompletionInv
  <2> QED
    BY <2>1, <2>2, <2>3 DEF CompletionInv, Responsible
<1>2. CASE EditScheduling(k) \/ EditRefused(k)
  <2>1. PICK s \in {"queued", "refused"} :
          /\ Submit("save", s) /\ completion' = submitted'
          /\ scheduled' => s = "queued"
    BY <1>2 DEF EditScheduling, EditRefused, Accept, Refuse
  <2>2. /\ submitted' \in Jobs /\ stage'[submitted'] = s /\ kind'[submitted'] = "save"
    BY <2>1, SubmitKeeps, SaveIsNoRead
  <2>3. completion' # 0 /\ ~CompletionSaved'
    BY <2>1, <2>2 DEF CompletionSaved, Jobs
  <2> QED
    BY <2>1, <2>2, <2>3 DEF CompletionInv, Responsible
<1> QED
  BY <1>1, <1>2

\* Other jobs do not touch the completion.
LEMMA OthersCompletion ==
    ASSUME IInv, CompletionInv,
           \/ \E k \in Kinds : SubmitOther(k)
           \/ \E j \in Jobs : DropReceiver(j) \/ \E r \in Results : FinishOther(j, r)
           \/ CloseWindow \/ SkipJob \/ RequestQuit \/ Exit \/ Crash \/ UNCHANGED vars
    PROVE  CompletionInv'
<1>1. UNCHANGED <<typed, pending, scheduled, phase, completion>>
  BY DEF SubmitOther, DropReceiver, FinishOther, CloseWindow, SkipJob, RequestQuit, Exit, Crash,
         vars, saverVars
<1>2. ASSUME completion # 0
      PROVE  stage'[completion] = stage[completion] /\ kind'[completion] = kind[completion]
  <2>1. completion \in Jobs /\ kind[completion] = "save" /\ stage[completion] # "fresh"
    BY <1>2 DEF IInv, SaverInv, TypeOK, CompletionInv
  <2>2. ASSUME NEW k \in Kinds, SubmitOther(k) PROVE <1>2!2
    <3>1. \E s \in {"queued", "refused"} : Submit(k, s)
      BY <2>2 DEF SubmitOther, Accept, Refuse
    <3> QED
      BY <2>1, <3>1, SubmitKeeps
  <2>3. ASSUME NEW j \in Jobs, NEW r \in Results, FinishOther(j, r) PROVE <1>2!2
    BY <2>1, <2>3 DEF FinishOther, Finish, IInv, ExecutorInv, ExecutorTypeOK
  <2>4. CASE SkipJob
    <3>1. /\ Head(channel) \in Jobs /\ kind[Head(channel)] # "save"
          /\ stage' = [stage EXCEPT ![Head(channel)] = "skipped"] /\ kind' = kind
      BY <2>4, HeadOfChannel, SaveIsNoRead DEF SkipJob, Skip, Unwanted, Receive, IInv
    <3> QED
      BY <2>1, <3>1 DEF IInv, ExecutorInv, ExecutorTypeOK
  <2>5. CASE \/ \E j \in Jobs : DropReceiver(j)
             \/ CloseWindow \/ RequestQuit \/ Exit \/ Crash \/ UNCHANGED vars
    BY <2>5 DEF DropReceiver, Abandon, CloseWindow, Disconnect, RequestQuit, Exit, Crash, vars,
       executorVars
  <2> QED
    BY <2>2, <2>3, <2>4, <2>5
<1> QED
  BY <1>1, <1>2 DEF CompletionInv, CompletionSaved, Responsible

LEMMA StartCompletion ==
    ASSUME IInv, CompletionInv, StartJob
    PROVE  CompletionInv'
<1> DEFINE h == Head(channel)
<1>1. /\ Idle /\ h \in Jobs /\ stage[h] = "queued" /\ stage \in [Jobs -> Stages]
      /\ stage' = [stage EXCEPT ![h] = "running"] /\ kind' = kind
      /\ phase' = IF kind[h] = "save" THEN "looping" ELSE phase
      /\ UNCHANGED <<typed, pending, scheduled, completion>>
  BY HeadOfChannel DEF StartJob, Start, Receive, IInv, ExecutorInv, ExecutorTypeOK
<1>2. phase = "none" /\ completion \in {0} \cup Jobs
  BY <1>1 DEF Idle, IInv, SaverInv, TypeOK, PhaseIsRunningSave
<1>3. completion # 0 => Responsible(completion)' = Responsible(completion)
  BY <1>1, <1>2 DEF Responsible, Idle
<1> QED
  BY <1>1, <1>2, <1>3 DEF CompletionInv, CompletionSaved

\* While a save looks at the map or writes, it is the completion.
LEMMA LookCompletion ==
    ASSUME IInv, CompletionInv,
           TakeBatch \/ WriteBatch \/ FindEmpty \/ FailBatch \/ PanicBatch
    PROVE  CompletionInv'
<1>1. /\ phase \in {"looping", "writing"} /\ UNCHANGED <<stage, kind, typed, completion>>
  BY DEF TakeBatch, WriteBatch, FindEmpty, FailBatch, PanicBatch, executorVars
<1>2. scheduled /\ completion # 0 /\ Responsible(completion)
  <2>1. PICK i \in Jobs : stage[i] = "running" /\ kind[i] = "save"
    BY <1>1 DEF IInv, SaverInv, PhaseIsRunningSave
  <2>2. scheduled
    BY <1>1, <2>1 DEF IInv, SaverInv, ScheduledHasJob, Responsible
  <2> QED
    BY <2>2 DEF CompletionInv
<1>3. stage[completion] # "ok"
  BY <1>2 DEF Responsible
<1>4. /\ scheduled' => scheduled /\ phase' \in {"looping", "writing"}
      /\ phase' = "returning" => pending' = None
  BY DEF TakeBatch, WriteBatch, FindEmpty, FailBatch, PanicBatch
<1> QED
  BY <1>1, <1>2, <1>3, <1>4 DEF CompletionInv, CompletionSaved, Responsible

LEMMA AnswerCompletion ==
    ASSUME IInv, CompletionInv, NEW j \in Jobs, AnswerSave(j)
    PROVE  CompletionInv'
<1>1. /\ stage[j] = "running" /\ kind' = kind
      /\ phase \in {"returning", "failing", "unwinding"} /\ phase' = "none"
      /\ stage \in [Jobs -> Stages]
      /\ UNCHANGED <<typed, pending, scheduled, completion>>
  BY DEF AnswerSave, AnswerOf, Finish, IInv, ExecutorInv, ExecutorTypeOK
<1>2. PICK r \in Results : stage' = [stage EXCEPT ![j] = r] /\ (r = "ok" => phase = "returning")
  <2>1. stage' = [stage EXCEPT ![j] = AnswerOf[phase]]
    BY DEF AnswerSave, Finish
  <2>2. /\ AnswerOf["returning"] = "ok" /\ AnswerOf["failing"] = "failed"
        /\ AnswerOf["unwinding"] = "interrupted"
    BY DEF AnswerOf
  <2>3. AnswerOf[phase] \in Results /\ (AnswerOf[phase] = "ok" => phase = "returning")
    BY <1>1, <2>2 DEF Results
  <2> QED
    BY <2>1, <2>3
<1>3. scheduled => completion # j
  BY <1>1 DEF CompletionInv, Responsible
<1> QED
  BY <1>1, <1>2, <1>3
     DEF CompletionInv, CompletionSaved, Responsible, Results, IInv, SaverInv, TypeOK

LEMMA StoreStepInv == StoreInv /\ [Next]_vars => StoreInv'
<1> SUFFICES ASSUME StoreInv, [Next]_vars PROVE CompletionInv'
  BY StepInv DEF StoreInv
<1> USE DEF StoreInv
<1>1. ASSUME NEW k \in Keys, EditCoalesced(k) \/ EditScheduling(k) \/ EditRefused(k)
      PROVE  CompletionInv'
  BY <1>1, EditCompletion
<1>2. CASE \/ \E k \in Kinds : SubmitOther(k)
           \/ \E j \in Jobs : DropReceiver(j) \/ \E r \in Results : FinishOther(j, r)
           \/ CloseWindow \/ SkipJob \/ RequestQuit \/ Exit \/ Crash \/ UNCHANGED vars
  BY <1>2, OthersCompletion
<1>3. CASE StartJob
  BY <1>3, StartCompletion
<1>4. CASE TakeBatch \/ WriteBatch \/ FindEmpty \/ FailBatch \/ PanicBatch
  BY <1>4, LookCompletion
<1>5. ASSUME NEW j \in Jobs, AnswerSave(j) PROVE CompletionInv'
  BY <1>5, AnswerCompletion
<1> QED
  BY <1>1, <1>2, <1>3, <1>4, <1>5 DEF Next, ExecutorThread

-----------------------------------------------------------------------------
(* What is typed, what is on disk, and the end of the process *)

\* A save that a quit waited for left nothing behind.
LEMMA SavedIsDurable ==
    ASSUME StoreInv, CompletionIn({"ok"}), lost = {}
    PROVE  durable = typed
<1>1. completion \in {0} \cup Jobs
  BY DEF StoreInv, IInv, SaverInv, TypeOK
<1>2. durable \in [Keys -> Nat] /\ typed \in [Keys -> Nat]
  BY DEF StoreInv, IInv, SaverInv, TypeOK
<1>3. CASE completion = 0
  <2>1. \A k \in Keys : typed[k] = 0 /\ durable[k] <= typed[k]
    BY <1>3 DEF StoreInv, CompletionInv, None, IInv, SaverInv, DiskIsBehind
  <2> QED
    BY <1>2, <2>1
<1>4. CASE completion # 0
  <2>1. stage[completion] = "ok"
    BY <1>1, <1>4 DEF CompletionIn
  <2>2. pending = None /\ ~scheduled
    BY <1>4, <2>1 DEF StoreInv, CompletionInv, CompletionSaved, Responsible
  <2>3. phase # "writing"
    BY <2>2 DEF StoreInv, IInv, SaverInv, PhaseIsRunningSave, ScheduledHasJob, Responsible
  <2>4. \A k \in Keys : pending[k] = 0 /\ batch[k] = 0
    BY <2>2, <2>3 DEF StoreInv, IInv, SaverInv, BatchOnlyWhileWriting, None
  <2> QED
    BY <1>2, <2>4 DEF StoreInv, IInv, SaverInv, NewestRetained
<1> QED
  BY <1>3, <1>4

LEMMA InitStore == Init => Store!StoreInit
BY DEF Init, Store!StoreInit, None, Ended, Alive

LEMMA EditStore ==
    ASSUME StoreInv, NEW k \in Keys, Insert(k)
    PROVE  Store!Edit(k)
BY DEF Insert, Store!Edit, Ended, Alive

LEMMA WriteStore ==
    ASSUME StoreInv, StoreInv', WriteBatch
    PROVE  Store!Write
<1>1. /\ durable' = OrInsert(batch, durable) /\ typed' = typed /\ life' = life /\ Alive
  BY DEF WriteBatch
<1>2. durable' \in [Keys -> Nat]
  BY DEF StoreInv, IInv, SaverInv, TypeOK
<1>3. \A k \in Keys : durable[k] <= durable'[k] /\ durable'[k] <= typed[k]
  BY <1>1
     DEF StoreInv, IInv, SaverInv, TypeOK, DiskIsBehind, NewestRetained, OrInsert
<1> QED
  BY <1>1, <1>2, <1>3 DEF Store!Write, Ended, Alive

LEMMA EndStore ==
    ASSUME StoreInv, Exit \/ Crash
    PROVE  Store!End
<1>1. /\ Alive /\ life' \in {"exited", "crashed"}
      /\ UNCHANGED <<typed, durable, lost, completion, stage>>
  BY DEF Exit, Crash, Alive, executorVars
<1>2. Ended = "no" /\ ~Alive'
  BY <1>1 DEF Ended, Alive
<1>3. CASE life' = "exited" /\ lost' = {} /\ CompletionIn({"ok"})'
  <2>1. CompletionIn({"ok"}) /\ lost = {}
    BY <1>1, <1>3 DEF CompletionIn
  <2>2. durable = typed
    BY <2>1, SavedIsDurable
  <2>3. Ended' = "saved"
    BY <1>2, <1>3 DEF Ended
  <2> QED
    BY <1>1, <1>2, <2>2, <2>3 DEF Store!End
<1>4. CASE ~(life' = "exited" /\ lost' = {} /\ CompletionIn({"ok"})')
  <2>1. Ended' = "unsaved"
    BY <1>2, <1>4 DEF Ended
  <2> QED
    BY <1>1, <1>2, <2>1 DEF Store!End
<1> QED
  BY <1>3, <1>4

LEMMA OthersStore ==
    ASSUME \/ \E k \in Kinds : SubmitOther(k)
           \/ \E j \in Jobs : DropReceiver(j) \/ AnswerSave(j)
           \/ \E j \in Jobs, r \in Results : FinishOther(j, r)
           \/ CloseWindow \/ StartJob \/ SkipJob \/ RequestQuit
           \/ TakeBatch \/ FindEmpty \/ FailBatch \/ PanicBatch
    PROVE  UNCHANGED <<typed, durable, Ended>>
<1>1. UNCHANGED <<typed, durable>> /\ Alive /\ Alive'
  BY DEF SubmitOther, DropReceiver, AnswerSave, FinishOther, CloseWindow, StartJob, SkipJob,
         RequestQuit, TakeBatch, FindEmpty, FailBatch, PanicBatch, saverVars, Alive
<1> QED
  BY <1>1 DEF Ended

LEMMA StoreStep ==
    StoreInv /\ StoreInv' /\ [Next]_vars => [Store!StoreNext]_Store!storeVars
<1> SUFFICES ASSUME StoreInv, StoreInv', [Next]_vars
             PROVE  [Store!StoreNext]_Store!storeVars
  OBVIOUS
<1>1. ASSUME NEW k \in Keys, EditCoalesced(k) \/ EditScheduling(k) \/ EditRefused(k)
      PROVE  Store!StoreNext
  BY <1>1, EditStore DEF EditCoalesced, EditScheduling, EditRefused, Store!StoreNext
<1>2. CASE WriteBatch
  BY <1>2, WriteStore DEF Store!StoreNext
<1>3. CASE Exit \/ Crash
  BY <1>3, EndStore DEF Store!StoreNext
<1>4. CASE \/ \E k \in Kinds : SubmitOther(k)
           \/ \E j \in Jobs : DropReceiver(j) \/ AnswerSave(j)
           \/ \E j \in Jobs, r \in Results : FinishOther(j, r)
           \/ CloseWindow \/ StartJob \/ SkipJob \/ RequestQuit
           \/ TakeBatch \/ FindEmpty \/ FailBatch \/ PanicBatch
  BY <1>4, OthersStore DEF Store!storeVars
<1>5. CASE UNCHANGED vars
  BY <1>5
     DEF vars, saverVars, executorVars, Store!storeVars, Ended, Alive, CompletionIn
<1> QED
  BY <1>1, <1>2, <1>3, <1>4, <1>5 DEF Next, ExecutorThread

(***************************************************************************)
(* The saver implements the draft store: a copy on disk is only replaced by *)
(* a later edit, whatever fails, panics, is refused or is killed, and a     *)
(* process that ends after a successful save has every draft on disk.       *)
(***************************************************************************)
THEOREM SaverImplementsStore == Spec => StoreSpec
<1>1. Init => StoreInv
  BY InitInv, InitCompletion DEF StoreInv
<1> QED
  BY <1>1, StoreStepInv, InitStore, StoreStep, PTL DEF Spec, StoreSpec, Store!StoreSpec
=============================================================================
