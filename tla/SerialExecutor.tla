--------------------------- MODULE SerialExecutor ---------------------------
(***************************************************************************)
(* crates/app/src/operations.rs, SerialExecutor: one thread that runs the   *)
(* jobs of a bounded channel in the order in which they were accepted.  A   *)
(* job answers through a oneshot channel whose receiver the caller may drop *)
(* at any time.  Explicit writes run regardless of that receiver; a passive *)
(* read (submit_read) whose receiver is gone when the thread reaches it is  *)
(* skipped.  A job the channel cannot take is answered with an error on the *)
(* submitting thread and never runs.                                        *)
(*                                                                          *)
(* Jobs are numbered in submission order.  What a job does is left to the   *)
(* module that composes this one; here it runs and ends in one of three     *)
(* ways.                                                                    *)
(***************************************************************************)
EXTENDS Naturals, Sequences

CONSTANTS
    MaxJobs,     \* bound on the jobs ever submitted
    Capacity,    \* of the sync_channel, 8 in the code
    Kinds,       \* the kinds of jobs the system submits
    ReadKinds    \* those submitted with submit_read

ASSUME JobsAssumption == MaxJobs \in Nat /\ Capacity \in Nat \ {0}
ASSUME KindsAssumption == ReadKinds \subseteq Kinds

VARIABLES
    submitted,   \* the number of jobs submitted so far
    kind,        \* the kind of each job
    stage,       \* where each job is
    heard,       \* is its answer still to come, and its receiver held?
    channel,     \* the accepted jobs the thread has not received
    connected    \* does the owner still hold the sender?

executorVars == <<submitted, kind, stage, heard, channel, connected>>

Jobs == 1 .. MaxJobs
Results == {"ok", "failed", "interrupted"}
Settled == Results \cup {"skipped"}
Stages == {"fresh", "queued", "running", "refused"} \cup Settled

\* The job the thread is executing: none when every job has another stage.
Idle == \A j \in Jobs : stage[j] # "running"

ExecutorTypeOK ==
    /\ submitted \in 0 .. MaxJobs
    /\ kind \in [Jobs -> Kinds \cup {"none"}]
    /\ stage \in [Jobs -> Stages]
    /\ heard \in [Jobs -> BOOLEAN]
    /\ channel \in Seq(Jobs)
    /\ Len(channel) <= Capacity
    /\ connected \in BOOLEAN

ExecutorInit ==
    /\ submitted = 0
    /\ kind = [j \in Jobs |-> "none"]
    /\ stage = [j \in Jobs |-> "fresh"]
    /\ heard = [j \in Jobs |-> FALSE]
    /\ channel = <<>>
    /\ connected = TRUE

\* A caller hands over a job of kind k, and is answered at once or not.
Submit(k, s) ==
    /\ connected
    /\ submitted < MaxJobs
    /\ submitted' = submitted + 1
    /\ kind' = [kind EXCEPT ![submitted'] = k]
    /\ stage' = [stage EXCEPT ![submitted'] = s]
    /\ heard' = [heard EXCEPT ![submitted'] = (s = "queued")]

\* try_send succeeds: the job waits in the channel.
Accept(k) ==
    /\ Len(channel) < Capacity
    /\ Submit(k, "queued")
    /\ channel' = Append(channel, submitted')
    /\ UNCHANGED connected

\* try_send returns Full: job(false) answers "busy" without running.
Refuse(k) ==
    /\ Len(channel) = Capacity
    /\ Submit(k, "refused")
    /\ UNCHANGED <<channel, connected>>

\* The caller drops the receiver of an answer that is still to come.
Abandon(j) ==
    /\ heard[j]
    /\ heard' = [heard EXCEPT ![j] = FALSE]
    /\ UNCHANGED <<submitted, kind, stage, channel, connected>>

\* A passive read nobody waits for any more.
Unwanted(j) == kind[j] \in ReadKinds /\ ~heard[j]

\* Mutant: the thread receives the newest job first.
ReceiveNewest(s) ==
    /\ Idle
    /\ channel # <<>>
    /\ stage' = [stage EXCEPT ![channel[Len(channel)]] = s]
    /\ channel' = SubSeq(channel, 1, Len(channel) - 1)
    /\ UNCHANGED <<submitted, kind, heard, connected>>

\* The thread receives the oldest job, which ends up in stage s.
Receive(s) ==
    /\ Idle
    /\ channel # <<>>
    /\ stage' = [stage EXCEPT ![Head(channel)] = s]
    /\ channel' = Tail(channel)
    /\ UNCHANGED <<submitted, kind, heard, connected>>

Start == channel # <<>> /\ ~Unwanted(Head(channel)) /\ Receive("running")

Skip == channel # <<>> /\ Unwanted(Head(channel)) /\ Receive("skipped")

\* The operation returns, fails or panics, and its answer is sent.
Finish(j, result) ==
    /\ stage[j] = "running"
    /\ stage' = [stage EXCEPT ![j] = result]
    /\ heard' = [heard EXCEPT ![j] = FALSE]
    /\ UNCHANGED <<submitted, kind, channel, connected>>

\* The owner is dropped.  The thread drains what it accepted, then ends.
Disconnect ==
    /\ connected
    /\ connected' = FALSE
    /\ UNCHANGED <<submitted, kind, stage, heard, channel>>

\* What any composition may do with the executor.
ExecutorNext ==
    \/ \E k \in Kinds : Accept(k) \/ Refuse(k)
    \/ \E j \in Jobs : Abandon(j) \/ \E r \in Results : Finish(j, r)
    \/ Start \/ Skip \/ Disconnect

-----------------------------------------------------------------------------

(***************************************************************************)
(* Jobs take effect one at a time and in the order in which they were       *)
(* accepted: when a job has started, every job accepted before it has been  *)
(* settled.  Quit barriers and read-merge-write preference jobs rely on it. *)
(***************************************************************************)
SerialInOrder ==
    \A i, j \in Jobs :
        /\ i < j
        /\ stage[j] \in Settled \cup {"running"}
        => stage[i] \in Settled \cup {"refused"}
=============================================================================
