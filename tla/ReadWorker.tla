----------------------------- MODULE ReadWorker -----------------------------
(***************************************************************************)
(* crates/app/src/worker.rs, Worker: the repository reader behind the user  *)
(* interface.  It has one active read and one replaceable pending request.  *)
(* A new request, `cancel` and dropping the worker replace the pending one, *)
(* advance the sequence number `latest` and cancel the token of the active  *)
(* read, which stops at its next checkpoint.  A request whose receiver was  *)
(* dropped before the thread takes it is discarded, except ReleaseHistory,  *)
(* which is submitted without keeping the receiver.                         *)
(*                                                                          *)
(* Every operation under the queue's lock is one step.  What a read         *)
(* computes is left out; it ends in a value, an error or a panic, which the *)
(* thread turns into an error.                                              *)
(***************************************************************************)
EXTENDS Naturals

CONSTANTS
    MaxRequests,   \* bound on the requests ever submitted
    MaxLatest      \* bound on the sequence number (wrapping u64 in the code)

ASSUME BoundsAssumption == MaxRequests \in Nat /\ MaxLatest \in Nat

VARIABLES
    submitted,   \* the number of requests submitted
    gen,         \* the sequence number each request was given, 0 for none
    release,     \* is the request a ReleaseHistory?
    reply,       \* what was sent to the receiver of each request
    held,        \* does the user interface still hold that receiver?
    latest,      \* the newest sequence number
    pending,     \* the request in the queue, 0 for none
    active,      \* the request whose token the queue keeps, 0 for none
    cancelled,   \* the requests whose token is cancelled
    running,     \* the request the thread has taken, 0 for none
    phase,       \* where the thread is
    outcome,     \* the result it is about to send
    closed

queueVars == <<submitted, gen, release, reply, held, latest, pending, active, cancelled, closed>>
threadVars == <<running, phase, outcome>>
vars == <<queueVars, threadVars>>

Requests == 1 .. MaxRequests
NoRequest == 0
Outcomes == {"value", "error", "superseded"}

TypeOK ==
    /\ submitted \in 0 .. MaxRequests
    /\ gen \in [Requests -> 0 .. MaxLatest]
    /\ release \in [Requests -> BOOLEAN]
    /\ reply \in [Requests -> {"none", "waiting", "dropped"} \cup Outcomes]
    /\ held \in [Requests -> BOOLEAN]
    /\ latest \in 0 .. MaxLatest
    /\ {pending, active, running} \subseteq Requests \cup {NoRequest}
    /\ cancelled \subseteq Requests
    /\ phase \in {"asleep", "awake", "taken", "reading", "answering", "exited", "absent"}
    /\ outcome \in Outcomes \cup {"none"}
    /\ closed \in BOOLEAN

\* The thread is spawned with the worker, or the worker is closed from the start.
Init ==
    /\ submitted = 0 /\ latest = 0
    /\ gen = [r \in Requests |-> 0]
    /\ release = [r \in Requests |-> FALSE]
    /\ reply = [r \in Requests |-> "none"]
    /\ held = [r \in Requests |-> FALSE]
    /\ pending = NoRequest /\ active = NoRequest /\ running = NoRequest
    /\ cancelled = {}
    /\ outcome = "none"
    /\ \/ phase = "awake" /\ closed = FALSE
       \/ phase = "absent" /\ closed = TRUE

-----------------------------------------------------------------------------
(* The user interface *)

\* ready.notify_one.
Notify ==
    /\ phase' = IF phase = "asleep" THEN "awake" ELSE phase
    /\ UNCHANGED <<running, outcome>>

\* active.take() and its cancel.
CancelActive ==
    /\ active' = NoRequest
    /\ cancelled' = cancelled \cup ({active} \ {NoRequest})

\* A request nobody replies to any more: its sender is dropped with it.
DropPending(answers) ==
    [r \in Requests |-> IF r = pending THEN "dropped" ELSE answers[r]]

AdvanceLatest == latest < MaxLatest /\ latest' = latest + 1

\* Mutant: a replaced read keeps its token, so that its Git goes on.
SubmitOverActive(isRelease) ==
    /\ ~closed
    /\ submitted < MaxRequests
    /\ AdvanceLatest
    /\ submitted' = submitted + 1
    /\ gen' = [gen EXCEPT ![submitted'] = latest']
    /\ release' = [release EXCEPT ![submitted'] = isRelease]
    /\ held' = [held EXCEPT ![submitted'] = ~isRelease]
    /\ reply' = DropPending([reply EXCEPT ![submitted'] = "waiting"])
    /\ pending' = submitted'
    /\ Notify
    /\ UNCHANGED <<active, cancelled, closed>>

\* Mutant: the thread is not told of a request.
SubmitSilently(isRelease) ==
    /\ ~closed
    /\ submitted < MaxRequests
    /\ AdvanceLatest
    /\ submitted' = submitted + 1
    /\ gen' = [gen EXCEPT ![submitted'] = latest']
    /\ release' = [release EXCEPT ![submitted'] = isRelease]
    /\ held' = [held EXCEPT ![submitted'] = ~isRelease]
    /\ reply' = DropPending([reply EXCEPT ![submitted'] = "waiting"])
    /\ pending' = submitted'
    /\ CancelActive
    /\ UNCHANGED <<threadVars, closed>>

Submit(isRelease) ==
    /\ ~closed
    /\ submitted < MaxRequests
    /\ AdvanceLatest
    /\ submitted' = submitted + 1
    /\ gen' = [gen EXCEPT ![submitted'] = latest']
    /\ release' = [release EXCEPT ![submitted'] = isRelease]
    /\ held' = [held EXCEPT ![submitted'] = ~isRelease]
    /\ reply' = DropPending([reply EXCEPT ![submitted'] = "waiting"])
    /\ pending' = submitted'
    /\ CancelActive
    /\ Notify
    /\ UNCHANGED closed

\* The thread could not be started: the startup error is the answer.
SubmitRefused(isRelease) ==
    /\ phase = "absent"
    /\ submitted < MaxRequests
    /\ submitted' = submitted + 1
    /\ release' = [release EXCEPT ![submitted'] = isRelease]
    /\ held' = [held EXCEPT ![submitted'] = ~isRelease]
    /\ reply' = [reply EXCEPT ![submitted'] = "error"]
    /\ UNCHANGED <<gen, latest, pending, active, cancelled, closed, threadVars>>

\* Mutant: the queued request is dropped without advancing the sequence.
CancelKeepingLatest ==
    /\ ~closed
    /\ CancelActive
    /\ reply' = DropPending(reply)
    /\ pending' = NoRequest
    /\ UNCHANGED <<submitted, gen, release, held, latest, closed, threadVars>>

\* Worker::cancel; nothing but the sequence changes on a worker without thread.
Cancel ==
    /\ ~closed
    /\ AdvanceLatest
    /\ CancelActive
    /\ reply' = DropPending(reply)
    /\ pending' = NoRequest
    /\ UNCHANGED <<submitted, gen, release, held, closed, threadVars>>

\* impl Drop for Worker.
DropWorker ==
    /\ ~closed
    /\ AdvanceLatest
    /\ CancelActive
    /\ closed' = TRUE
    /\ reply' = DropPending(reply)
    /\ pending' = NoRequest
    /\ Notify
    /\ UNCHANGED <<submitted, gen, release, held>>

\* The task that awaits an answer is dropped, and its receiver with it.
Abandon(r) ==
    /\ held[r]
    /\ reply[r] = "waiting"
    /\ held' = [held EXCEPT ![r] = FALSE]
    /\ UNCHANGED <<submitted, gen, release, reply, latest, pending, active, cancelled,
                   closed, threadVars>>

-----------------------------------------------------------------------------
(* The reader thread *)

Sleep ==
    /\ phase = "awake"
    /\ pending = NoRequest
    /\ ~closed
    /\ phase' = "asleep"
    /\ UNCHANGED <<queueVars, running, outcome>>

Leave ==
    /\ phase = "awake"
    /\ closed
    /\ phase' = "exited"
    /\ UNCHANGED <<queueVars, running, outcome>>

Take ==
    /\ phase = "awake"
    /\ pending # NoRequest
    /\ ~closed
    /\ running' = pending
    /\ active' = pending
    /\ pending' = NoRequest
    /\ phase' = "taken"
    /\ UNCHANGED <<submitted, gen, release, reply, held, latest, cancelled, closed, outcome>>

Unwanted(r) == ~held[r] /\ ~release[r]

\* The request, and with it the sender of its reply, is dropped.
Discard ==
    /\ phase = "taken"
    /\ Unwanted(running)
    /\ reply' = [reply EXCEPT ![running] = "dropped"]
    /\ running' = NoRequest
    /\ phase' = "awake"
    /\ UNCHANGED <<submitted, gen, release, held, latest, pending, active, cancelled, closed,
                   outcome>>

\* Cancellation::check.
Superseded(r) == latest # gen[r] \/ r \in cancelled

\* The first check passes and the executor runs.
Begin ==
    /\ phase = "taken"
    /\ ~Unwanted(running)
    /\ ~Superseded(running)
    /\ phase' = "reading"
    /\ UNCHANGED <<queueVars, running, outcome>>

\* A check fails: the first one, or one of those between the parts of a read.
Checkpoint ==
    /\ \/ phase = "taken" /\ ~Unwanted(running)
       \/ phase = "reading"
    /\ Superseded(running)
    /\ outcome' = "superseded"
    /\ phase' = "answering"
    /\ UNCHANGED <<queueVars, running>>

\* The executor returns after the last check of the read; a panic is an error.
Return ==
    /\ phase = "reading"
    /\ outcome' \in {"value", "error"}
    /\ phase' = "answering"
    /\ UNCHANGED <<queueVars, running>>

Send ==
    /\ phase = "answering"
    /\ reply' = [reply EXCEPT ![running] = outcome]
    /\ running' = NoRequest
    /\ outcome' = "none"
    /\ phase' = "awake"
    /\ UNCHANGED <<submitted, gen, release, held, latest, pending, active, cancelled, closed>>

ReaderThread ==
    Sleep \/ Leave \/ Take \/ Discard \/ Begin \/ Checkpoint \/ Return \/ Send

Next ==
    \/ \E isRelease \in BOOLEAN : Submit(isRelease) \/ SubmitRefused(isRelease)
    \/ Cancel \/ DropWorker
    \/ \E r \in Requests : Abandon(r)
    \/ ReaderThread

Spec == Init /\ [][Next]_vars

\* Every read returns: Git and the decoders have deadlines of their own.
FairSpec == Spec /\ WF_vars(ReaderThread)

-----------------------------------------------------------------------------

(***************************************************************************)
(* A superseded read is told to stop: the token of the read in progress is  *)
(* cancelled as soon as it is not the newest request any more, which        *)
(* terminates the Git processes it waits for.                               *)
(***************************************************************************)
SupersededIsStopped ==
    running # NoRequest /\ gen[running] # latest => running \in cancelled

(***************************************************************************)
(* Every request is settled: its receiver gets an answer or sees the sender *)
(* dropped, so that no task of the user interface waits forever.            *)
(***************************************************************************)
EveryRequestSettles ==
    \A r \in Requests : (reply[r] = "waiting") ~> (reply[r] # "waiting")

(***************************************************************************)
(* The thread ends after its worker is dropped.                             *)
(***************************************************************************)
ThreadEnds == closed ~> (phase \in {"exited", "absent"})

(***************************************************************************)
(* Nobody waits for ever: no receiver for its answer, no thread for a       *)
(* request after the worker is gone.                                        *)
(***************************************************************************)
RequestsSettle == EveryRequestSettles /\ ThreadEnds

(***************************************************************************)
(* The worker implements the abstract request register: a request that is   *)
(* neither replaced nor revoked nor abandoned is answered and never turned  *)
(* away, a ReleaseHistory without a receiver included, and answers come in  *)
(* the order of the requests.                                               *)
(***************************************************************************)
IsCurrent(r) == gen[r] = latest /\ gen[r] # 0 /\ (held[r] \/ release[r])
Current ==
    IF \E r \in Requests : IsCurrent(r) THEN CHOOSE r \in Requests : IsCurrent(r) ELSE NoRequest

Register == INSTANCE LatestRequest WITH asked <- submitted, current <- Current, answer <- reply
RequestSpec == Register!RequestSpec
=============================================================================
