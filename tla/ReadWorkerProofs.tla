-------------------------- MODULE ReadWorkerProofs --------------------------
(***************************************************************************)
(* Proofs about the reader and what its previews show.  ReadWorker: the    *)
(* worker keeps its types, stops superseded reads and implements           *)
(* LatestRequest, for any number of requests and revocations.              *)
(* PreviewCache: the cache of previews holds those used last, counts them  *)
(* exactly and stays within its limits, for any keys, sizes and limits.    *)
(* PdfPages: each page of a comparison is asked for once and kept within   *)
(* the cache's limits, for any documents, pages and lane.  ModelFrames:    *)
(* each frame of two models is asked for once, under one camera and one    *)
(* clock, for any views and clips.                                         *)
(***************************************************************************)
EXTENDS ReadWorker, PreviewCache, PdfPages, ModelFrames, SequenceTheorems,
        FiniteSetTheorems, WellFoundedInduction, TLAPS

\* Requests are numbered in the order in which they get their sequence numbers.
Numbered ==
    /\ pending \in {NoRequest, submitted} /\ running <= submitted /\ active <= submitted
    /\ \A r \in cancelled : r <= submitted
    /\ \A r \in Requests : submitted < r => gen[r] = 0 /\ reply[r] = "none" /\ ~held[r]
    /\ \A r \in Requests : gen[r] <= latest
    /\ \A r, s \in Requests : r < s /\ gen[s] # 0 => gen[r] < gen[s]

\* The requests without an answer are the one that runs and the one that waits.
OpenRequests ==
    /\ pending # NoRequest => pending # running /\ gen[pending] = latest
    /\ \A r \in Requests : reply[r] = "waiting" <=> r \in {pending, running}

ThreadHasRequest == running # NoRequest <=> phase \in {"taken", "reading", "answering"}

\* The token of the read in progress can be found, or is cancelled already.
TokenIsKept == running # NoRequest => running = active \/ running \in cancelled

CancelledIsOld == \A r \in cancelled : gen[r] < latest

AnswerIsDue ==
    phase = "answering" =>
        outcome # "none" /\ (outcome = "superseded" => gen[running] # latest)

ClosedIsEmpty ==
    /\ closed => pending = NoRequest
    /\ phase = "absent" => closed /\ \A r \in Requests : gen[r] = 0

ReleaseIsNotHeld == \A r \in Requests : release[r] => ~held[r]

WorkerInv ==
    /\ TypeOK
    /\ Numbered
    /\ OpenRequests
    /\ ThreadHasRequest
    /\ TokenIsKept
    /\ CancelledIsOld
    /\ AnswerIsDue
    /\ ClosedIsEmpty
    /\ ReleaseIsNotHeld
    /\ SupersededIsStopped

-----------------------------------------------------------------------------
(* The invariant *)

LEMMA InitInv == Init => WorkerInv
<1> SUFFICES ASSUME Init PROVE WorkerInv
  OBVIOUS
<1>1. TypeOK
  <2>1. /\ submitted \in 0 .. MaxRequests /\ latest \in 0 .. MaxLatest
        /\ gen \in [Requests -> 0 .. MaxLatest]
    BY BoundsAssumption DEF Init
  <2>2. /\ {pending, active, running} \subseteq Requests \cup {NoRequest}
        /\ cancelled \subseteq Requests
    BY DEF Init
  <2>3. /\ reply \in [Requests -> {"none", "waiting", "dropped"} \cup Outcomes]
        /\ release \in [Requests -> BOOLEAN] /\ held \in [Requests -> BOOLEAN]
    BY DEF Init
  <2> QED
    BY <2>1, <2>2, <2>3 DEF Init, TypeOK
<1>2. Numbered /\ OpenRequests
  BY BoundsAssumption DEF Init, Numbered, OpenRequests, Requests, NoRequest
<1>3. /\ ThreadHasRequest /\ TokenIsKept /\ CancelledIsOld /\ AnswerIsDue
      /\ ClosedIsEmpty /\ ReleaseIsNotHeld /\ SupersededIsStopped
  BY DEF Init, ThreadHasRequest, TokenIsKept, CancelledIsOld, AnswerIsDue, ClosedIsEmpty,
         ReleaseIsNotHeld, SupersededIsStopped, NoRequest
<1> QED
  BY <1>1, <1>2, <1>3 DEF WorkerInv

\* What a submitted request changes.
LEMMA SubmitInv ==
    ASSUME WorkerInv, NEW isRelease \in BOOLEAN, Submit(isRelease)
    PROVE  WorkerInv'
<1> DEFINE s == submitted + 1
<1>0. /\ s \in Requests /\ s # pending /\ s # running /\ submitted' = s /\ pending' = s
      /\ latest' = latest + 1 /\ latest' \in 0 .. MaxLatest /\ latest \in Nat /\ s # NoRequest
  BY BoundsAssumption
     DEF WorkerInv, TypeOK, Numbered, Submit, AdvanceLatest, Requests, NoRequest
<1>1. /\ gen' = [gen EXCEPT ![s] = latest'] /\ release' = [release EXCEPT ![s] = isRelease]
      /\ held' = [held EXCEPT ![s] = ~isRelease]
      /\ reply' = DropPending([reply EXCEPT ![s] = "waiting"])
  BY <1>0 DEF Submit
<1>2. \A r \in Requests :
         /\ gen'[r] = IF r = s THEN latest' ELSE gen[r]
         /\ held'[r] = IF r = s THEN ~isRelease ELSE held[r]
         /\ reply'[r] = IF r = pending THEN "dropped" ELSE IF r = s THEN "waiting" ELSE reply[r]
  BY <1>0, <1>1 DEF WorkerInv, TypeOK, DropPending
<1>3. TypeOK'
  <2>1. /\ gen' \in [Requests -> 0 .. MaxLatest] /\ release' \in [Requests -> BOOLEAN]
        /\ held' \in [Requests -> BOOLEAN]
    BY <1>0, <1>1 DEF WorkerInv, TypeOK
  <2>2. reply' \in [Requests -> {"none", "waiting", "dropped"} \cup Outcomes]
    BY <1>0, <1>1 DEF WorkerInv, TypeOK, DropPending
  <2>3. submitted' \in 0 .. MaxRequests
    BY <1>0 DEF Requests
  <2>4. /\ {pending', active', running'} \subseteq Requests \cup {NoRequest}
        /\ cancelled' \subseteq Requests
    BY <1>0 DEF WorkerInv, TypeOK, Submit, CancelActive, Notify
  <2>5. /\ phase' \in {"asleep", "awake", "taken", "reading", "answering", "exited", "absent"}
        /\ outcome' \in Outcomes \cup {"none"} /\ closed' \in BOOLEAN
    BY DEF WorkerInv, TypeOK, Submit, Notify
  <2> QED
    BY <1>0, <2>1, <2>2, <2>3, <2>4, <2>5 DEF TypeOK
<1>4. Numbered' /\ OpenRequests'
  <2>1. /\ running' = running /\ active' = NoRequest
        /\ cancelled' = cancelled \cup ({active} \ {NoRequest})
    BY DEF Submit, CancelActive, Notify
  <2>2. /\ pending' \in {NoRequest, submitted'} /\ running' <= submitted' /\ active' <= submitted'
        /\ \A r \in cancelled' : r <= submitted'
    BY <1>0, <2>1 DEF WorkerInv, TypeOK, Numbered, Requests, NoRequest
  <2>3. \A r \in Requests : submitted' < r => gen'[r] = 0 /\ reply'[r] = "none" /\ ~held'[r]
    BY <1>0, <1>2 DEF WorkerInv, TypeOK, Numbered, Requests, NoRequest
  <2>4. \A r \in Requests : gen'[r] <= latest'
    BY <1>0, <1>2 DEF WorkerInv, TypeOK, Numbered
  <2>5. \A q, r \in Requests : q < r /\ gen'[r] # 0 => gen'[q] < gen'[r]
    BY <1>0, <1>2 DEF WorkerInv, TypeOK, Numbered, Requests
  <2>6. OpenRequests'
    <3>1. pending' # NoRequest => pending' # running' /\ gen'[pending'] = latest'
      BY <1>0, <1>2, <2>1
    <3>2. \A r \in Requests : reply'[r] = "waiting" <=> r \in {pending', running'}
      BY <1>0, <1>2, <2>1 DEF WorkerInv, OpenRequests, Requests, NoRequest
    <3> QED
      BY <3>1, <3>2 DEF OpenRequests
  <2> QED
    BY <2>2, <2>3, <2>4, <2>5, <2>6 DEF Numbered
<1>5. ThreadHasRequest' /\ TokenIsKept'
  BY DEF WorkerInv, ThreadHasRequest, TokenIsKept, Submit, CancelActive, Notify, NoRequest
<1>6. CancelledIsOld'
  BY <1>0, <1>1
     DEF WorkerInv, TypeOK, Numbered, CancelledIsOld, Submit, CancelActive, Requests, NoRequest
<1>7. SupersededIsStopped' /\ AnswerIsDue'
  BY <1>0, <1>1
     DEF WorkerInv, TypeOK, Numbered, TokenIsKept, SupersededIsStopped, AnswerIsDue,
         ThreadHasRequest, Submit, CancelActive, Notify, Requests, NoRequest
<1>8. ClosedIsEmpty' /\ ReleaseIsNotHeld'
  BY <1>0, <1>1
     DEF WorkerInv, TypeOK, ClosedIsEmpty, ReleaseIsNotHeld, Submit, Notify
<1> QED
  BY <1>3, <1>4, <1>5, <1>6, <1>7, <1>8 DEF WorkerInv

\* A request that is refused gets no sequence number and stays with nobody.
LEMMA SubmitRefusedInv ==
    ASSUME WorkerInv, NEW isRelease \in BOOLEAN, SubmitRefused(isRelease)
    PROVE  WorkerInv'
<1> DEFINE s == submitted + 1
<1>0. /\ s \in Requests /\ submitted' = s /\ s # running
      /\ pending = NoRequest /\ running = NoRequest /\ phase = "absent" /\ closed
  BY BoundsAssumption
     DEF WorkerInv, TypeOK, Numbered, ClosedIsEmpty, ThreadHasRequest, SubmitRefused, Requests,
         NoRequest
<1>1. /\ release' = [release EXCEPT ![s] = isRelease]
      /\ held' = [held EXCEPT ![s] = ~isRelease]
      /\ reply' = [reply EXCEPT ![s] = "error"]
      /\ UNCHANGED <<gen, latest, pending, active, cancelled, closed, running, phase, outcome>>
  BY <1>0 DEF SubmitRefused, threadVars
<1>2. TypeOK'
  <2>1. /\ release' \in [Requests -> BOOLEAN] /\ held' \in [Requests -> BOOLEAN]
        /\ reply' \in [Requests -> {"none", "waiting", "dropped"} \cup Outcomes]
    BY <1>0, <1>1 DEF WorkerInv, TypeOK, Outcomes
  <2>2. submitted' \in 0 .. MaxRequests
    BY <1>0 DEF Requests
  <2> QED
    BY <1>1, <2>1, <2>2 DEF WorkerInv, TypeOK
<1>3. Numbered'
  BY <1>0, <1>1 DEF WorkerInv, TypeOK, Numbered, Requests, NoRequest
<1>4. OpenRequests'
  BY <1>0, <1>1 DEF WorkerInv, TypeOK, OpenRequests
<1>5. ReleaseIsNotHeld'
  BY <1>0, <1>1 DEF WorkerInv, TypeOK, ReleaseIsNotHeld
<1>6. /\ ThreadHasRequest' /\ TokenIsKept' /\ CancelledIsOld' /\ AnswerIsDue' /\ ClosedIsEmpty'
      /\ SupersededIsStopped'
  BY <1>0, <1>1
     DEF WorkerInv, ThreadHasRequest, TokenIsKept, CancelledIsOld, AnswerIsDue, ClosedIsEmpty,
         SupersededIsStopped
<1> QED
  BY <1>2, <1>3, <1>4, <1>5, <1>6 DEF WorkerInv

\* Both operations empty the queue and retire the token.
LEMMA RevokeInv ==
    ASSUME WorkerInv, Cancel \/ DropWorker
    PROVE  WorkerInv'
<1>1. /\ UNCHANGED <<submitted, gen, release, held, running, outcome>>
      /\ latest' = latest + 1 /\ latest' \in 0 .. MaxLatest /\ latest \in Nat
      /\ pending' = NoRequest /\ active' = NoRequest
      /\ cancelled' = cancelled \cup ({active} \ {NoRequest})
      /\ reply' = DropPending(reply)
  BY BoundsAssumption
     DEF WorkerInv, TypeOK, Cancel, DropWorker, AdvanceLatest, CancelActive, Notify, threadVars
<1>2. /\ phase' \in {phase, "awake"} /\ (phase' # phase => phase = "asleep")
      /\ closed' \in BOOLEAN /\ (closed => closed')
  BY DEF WorkerInv, TypeOK, Cancel, DropWorker, Notify, threadVars
<1>3. TypeOK'
  <2>1. reply' \in [Requests -> {"none", "waiting", "dropped"} \cup Outcomes]
    BY <1>1 DEF WorkerInv, TypeOK, DropPending
  <2>2. /\ {pending', active', running'} \subseteq Requests \cup {NoRequest}
        /\ cancelled' \subseteq Requests
    BY <1>1 DEF WorkerInv, TypeOK
  <2>3. /\ phase' \in {"asleep", "awake", "taken", "reading", "answering", "exited", "absent"}
        /\ closed' \in BOOLEAN
    BY <1>2 DEF WorkerInv, TypeOK
  <2> QED
    BY <1>1, <2>1, <2>2, <2>3 DEF WorkerInv, TypeOK
<1>4. \A r \in Requests : reply'[r] = IF r = pending THEN "dropped" ELSE reply[r]
  BY <1>1 DEF DropPending
<1>5. Numbered' /\ OpenRequests'
  <2>1. /\ pending' \in {NoRequest, submitted'} /\ running' <= submitted' /\ active' <= submitted'
        /\ \A r \in cancelled' : r <= submitted'
    BY <1>1 DEF WorkerInv, TypeOK, Numbered, Requests, NoRequest
  <2>2. \A r \in Requests : submitted' < r => gen'[r] = 0 /\ reply'[r] = "none" /\ ~held'[r]
    BY <1>1, <1>4 DEF WorkerInv, TypeOK, Numbered, Requests, NoRequest
  <2>3. /\ \A r \in Requests : gen'[r] <= latest'
        /\ \A r, s \in Requests : r < s /\ gen'[s] # 0 => gen'[r] < gen'[s]
    BY <1>1 DEF WorkerInv, TypeOK, Numbered
  <2>4. \A r \in Requests : reply'[r] = "waiting" <=> r \in {pending', running'}
    BY <1>1, <1>4 DEF WorkerInv, OpenRequests, Requests, NoRequest
  <2> QED
    BY <1>1, <2>1, <2>2, <2>3, <2>4 DEF Numbered, OpenRequests
<1>6. CancelledIsOld' /\ AnswerIsDue' /\ SupersededIsStopped' /\ TokenIsKept'
  BY <1>1, <1>2
     DEF WorkerInv, TypeOK, Numbered, CancelledIsOld, AnswerIsDue, ThreadHasRequest, TokenIsKept,
         SupersededIsStopped, Requests, NoRequest
<1>7. ThreadHasRequest' /\ ClosedIsEmpty'
  BY <1>1, <1>2 DEF WorkerInv, ThreadHasRequest, ClosedIsEmpty
<1>8. ReleaseIsNotHeld'
  BY <1>1 DEF WorkerInv, ReleaseIsNotHeld
<1> QED
  BY <1>3, <1>5, <1>6, <1>7, <1>8 DEF WorkerInv

LEMMA AbandonInv ==
    ASSUME WorkerInv, NEW r \in Requests, Abandon(r)
    PROVE  WorkerInv'
<1>1. /\ held' = [held EXCEPT ![r] = FALSE]
      /\ UNCHANGED <<submitted, gen, release, reply, latest, pending, active, cancelled, closed,
                     running, phase, outcome>>
  BY DEF Abandon, threadVars
<1>2. TypeOK'
  BY <1>1 DEF WorkerInv, TypeOK
<1>3. Numbered' /\ ReleaseIsNotHeld'
  BY <1>1 DEF WorkerInv, TypeOK, Numbered, ReleaseIsNotHeld
<1>4. /\ OpenRequests' /\ ThreadHasRequest' /\ TokenIsKept' /\ CancelledIsOld' /\ AnswerIsDue'
      /\ ClosedIsEmpty' /\ SupersededIsStopped'
  BY <1>1
     DEF WorkerInv, OpenRequests, ThreadHasRequest, TokenIsKept, CancelledIsOld, AnswerIsDue,
         ClosedIsEmpty, SupersededIsStopped
<1> QED
  BY <1>2, <1>3, <1>4 DEF WorkerInv

LEMMA TakeInv ==
    ASSUME WorkerInv, Take
    PROVE  WorkerInv'
<1>1. /\ running' = pending /\ active' = pending /\ pending' = NoRequest /\ phase' = "taken"
      /\ pending \in Requests /\ running = NoRequest /\ gen[pending] = latest
      /\ UNCHANGED <<submitted, gen, release, reply, held, latest, cancelled, closed, outcome>>
  BY DEF WorkerInv, TypeOK, OpenRequests, ThreadHasRequest, Take
<1>2. TypeOK'
  BY <1>1 DEF WorkerInv, TypeOK
<1>3. Numbered' /\ OpenRequests'
  <2>1. pending' \in {NoRequest, submitted'} /\ running' <= submitted' /\ active' <= submitted'
    BY <1>1 DEF WorkerInv, TypeOK, Numbered, Requests, NoRequest
  <2>2. \A r \in Requests : reply'[r] = "waiting" <=> r \in {pending', running'}
    BY <1>1 DEF WorkerInv, OpenRequests
  <2> QED
    BY <1>1, <2>1, <2>2 DEF WorkerInv, Numbered, OpenRequests
<1>4. /\ ThreadHasRequest' /\ TokenIsKept' /\ CancelledIsOld' /\ AnswerIsDue' /\ ClosedIsEmpty'
      /\ ReleaseIsNotHeld' /\ SupersededIsStopped'
  BY <1>1
     DEF WorkerInv, ThreadHasRequest, TokenIsKept, CancelledIsOld, AnswerIsDue, ClosedIsEmpty,
         ReleaseIsNotHeld, SupersededIsStopped, Requests, NoRequest
<1> QED
  BY <1>2, <1>3, <1>4 DEF WorkerInv

\* The request that runs is settled.
LEMMA SettleInv ==
    ASSUME WorkerInv, Discard \/ Send
    PROVE  WorkerInv'
<1>1. /\ running \in Requests /\ running' = NoRequest /\ phase' = "awake"
      /\ outcome' \in {outcome, "none"}
      /\ UNCHANGED <<submitted, gen, release, held, latest, pending, active, cancelled, closed>>
  BY DEF WorkerInv, TypeOK, ThreadHasRequest, Discard, Send
<1>2. PICK a \in {"dropped"} \cup Outcomes : reply' = [reply EXCEPT ![running] = a]
  BY DEF WorkerInv, TypeOK, AnswerIsDue, Discard, Send
<1>3. a # "waiting"
  BY DEF Outcomes
<1>4. TypeOK'
  <2>1. reply' \in [Requests -> {"none", "waiting", "dropped"} \cup Outcomes]
    BY <1>1, <1>2 DEF WorkerInv, TypeOK
  <2>2. outcome' \in Outcomes \cup {"none"}
    BY <1>1 DEF WorkerInv, TypeOK
  <2> QED
    BY <1>1, <2>1, <2>2 DEF WorkerInv, TypeOK
<1>5. \A r \in Requests : reply'[r] = IF r = running THEN a ELSE reply[r]
  BY <1>1, <1>2 DEF WorkerInv, TypeOK
<1>6. Numbered'
  BY <1>1, <1>5 DEF WorkerInv, TypeOK, Numbered, Requests, NoRequest
<1>7. OpenRequests'
  BY <1>1, <1>3, <1>5 DEF WorkerInv, OpenRequests, Requests, NoRequest
<1>8. /\ ThreadHasRequest' /\ TokenIsKept' /\ CancelledIsOld' /\ AnswerIsDue' /\ ClosedIsEmpty'
      /\ ReleaseIsNotHeld' /\ SupersededIsStopped'
  BY <1>1
     DEF WorkerInv, ThreadHasRequest, TokenIsKept, CancelledIsOld, AnswerIsDue, ClosedIsEmpty,
         ReleaseIsNotHeld, SupersededIsStopped
<1> QED
  BY <1>4, <1>6, <1>7, <1>8 DEF WorkerInv

\* Steps of the thread that change only its phase and the result it holds.
LEMMA PhaseInv ==
    ASSUME WorkerInv, Sleep \/ Leave \/ Begin \/ Checkpoint \/ Return \/ UNCHANGED vars
    PROVE  WorkerInv'
<1>1. UNCHANGED <<submitted, gen, release, reply, held, latest, pending, active, cancelled, closed,
                  running>>
  BY DEF Sleep, Leave, Begin, Checkpoint, Return, vars, queueVars, threadVars
<1>2. /\ phase' \in {"asleep", "awake", "taken", "reading", "answering", "exited", "absent"}
      /\ outcome' \in Outcomes \cup {"none"}
      /\ ThreadHasRequest'
  BY DEF WorkerInv, TypeOK, ThreadHasRequest, Sleep, Leave, Begin, Checkpoint, Return, vars,
         queueVars, threadVars, Outcomes
<1>3. phase' = "absent" => phase = "absent"
  BY DEF Sleep, Leave, Begin, Checkpoint, Return, vars, threadVars
<1>4. AnswerIsDue'
  <2>1. CASE Checkpoint
    BY <1>1, <2>1 DEF WorkerInv, TypeOK, CancelledIsOld, AnswerIsDue, Checkpoint, Superseded
  <2>2. CASE Sleep \/ Leave \/ Begin \/ Return \/ UNCHANGED vars
    BY <1>1, <2>2 DEF WorkerInv, AnswerIsDue, Sleep, Leave, Begin, Return, vars, threadVars
  <2> QED
    BY <2>1, <2>2
<1>5. TypeOK'
  BY <1>1, <1>2 DEF WorkerInv, TypeOK
<1> QED
  BY <1>1, <1>2, <1>3, <1>4, <1>5
     DEF WorkerInv, Numbered, OpenRequests, TokenIsKept, CancelledIsOld, ClosedIsEmpty,
         ReleaseIsNotHeld, SupersededIsStopped

LEMMA StepInv == WorkerInv /\ [Next]_vars => WorkerInv'
<1> SUFFICES ASSUME WorkerInv, [Next]_vars PROVE WorkerInv'
  OBVIOUS
<1>1. ASSUME NEW isRelease \in BOOLEAN, Submit(isRelease) PROVE WorkerInv'
  BY <1>1, SubmitInv
<1>2. ASSUME NEW isRelease \in BOOLEAN, SubmitRefused(isRelease) PROVE WorkerInv'
  BY <1>2, SubmitRefusedInv
<1>3. CASE Cancel \/ DropWorker
  BY <1>3, RevokeInv
<1>4. ASSUME NEW r \in Requests, Abandon(r) PROVE WorkerInv'
  BY <1>4, AbandonInv
<1>5. CASE Take
  BY <1>5, TakeInv
<1>6. CASE Discard \/ Send
  BY <1>6, SettleInv
<1>7. CASE Sleep \/ Leave \/ Begin \/ Checkpoint \/ Return \/ UNCHANGED vars
  BY <1>7, PhaseInv
<1> QED
  BY <1>1, <1>2, <1>3, <1>4, <1>5, <1>6, <1>7 DEF Next, ReaderThread

(***************************************************************************)
(* The inductive invariant: the numbers of the requests, which of them are *)
(* open, and where the token of the read in progress is to be found.       *)
(***************************************************************************)
THEOREM Invariance == Spec => []WorkerInv
BY InitInv, StepInv, PTL DEF Spec

(***************************************************************************)
(* The variables keep their types.  What could break one is the thread: a   *)
(* panic of a read must not reach it, and it answers one request at a time. *)
(***************************************************************************)
THEOREM TypeCorrect == Spec => []TypeOK
<1>1. WorkerInv => TypeOK
  BY DEF WorkerInv
<1> QED
  BY <1>1, Invariance, PTL

(***************************************************************************)
(* A read that was superseded, revoked or outlived by its worker has its    *)
(* token cancelled, whatever the thread was doing when that happened.       *)
(***************************************************************************)
THEOREM SupersededReadsStop == Spec => []SupersededIsStopped
<1>1. WorkerInv => SupersededIsStopped
  BY DEF WorkerInv
<1> QED
  BY <1>1, Invariance, PTL

-----------------------------------------------------------------------------
(* The refinement *)

\* The newest sequence number belongs to one request at most.
LEMMA CurrentIs ==
    ASSUME WorkerInv
    PROVE  /\ \A r \in Requests : IsCurrent(r) => Current = r
           /\ (\A r \in Requests : ~IsCurrent(r)) => Current = NoRequest
<1>1. \A r, s \in Requests : IsCurrent(r) /\ IsCurrent(s) => r = s
  BY DEF WorkerInv, TypeOK, Numbered, IsCurrent, Requests
<1> QED
  BY <1>1 DEF Current

LEMMA CurrentIsNext ==
    ASSUME WorkerInv'
    PROVE  /\ \A r \in Requests : IsCurrent(r)' => Current' = r
           /\ (\A r \in Requests : ~IsCurrent(r)') => Current' = NoRequest
<1>1. \A r, s \in Requests : IsCurrent(r)' /\ IsCurrent(s)' => r = s
  BY DEF WorkerInv, TypeOK, Numbered, IsCurrent, Requests
<1> QED
  BY <1>1 DEF Current

\* A step that changes none of these leaves the current request alone.
LEMMA CurrentKept ==
    ASSUME UNCHANGED <<gen, latest, held, release>>
    PROVE  Current' = Current
BY DEF Current, IsCurrent

LEMMA InitRefines == Init => Register!RequestInit
<1> SUFFICES ASSUME Init PROVE Register!RequestInit
  OBVIOUS
<1>1. \A r \in Requests : ~IsCurrent(r)
  BY DEF Init, IsCurrent
<1>2. Current = 0
  BY <1>1 DEF Current, NoRequest
<1> QED
  BY <1>2 DEF Init, Register!RequestInit, Register!Made, Requests

LEMMA RepliesAreAnswers ==
    ASSUME WorkerInv'
    PROVE  reply' \in [Register!Made ->
                         {"none", "waiting"} \cup Register!Answered \cup Register!TurnedAway]
BY DEF WorkerInv, TypeOK, Requests, Outcomes, Register!Made, Register!Answered,
       Register!TurnedAway

LEMMA SubmitRefines ==
    ASSUME WorkerInv, WorkerInv', NEW isRelease \in BOOLEAN, Submit(isRelease)
    PROVE  Register!Ask
<1>0. PICK s \in Requests : s = submitted + 1
  BY DEF WorkerInv, TypeOK, Submit, Requests
<1>1. /\ submitted' = s /\ submitted < MaxRequests
      /\ latest' = latest + 1 /\ gen' = [gen EXCEPT ![s] = latest']
      /\ release' = [release EXCEPT ![s] = isRelease] /\ held' = [held EXCEPT ![s] = ~isRelease]
      /\ reply' = DropPending([reply EXCEPT ![s] = "waiting"])
      /\ pending # s
  BY <1>0, BoundsAssumption
     DEF WorkerInv, TypeOK, Numbered, Submit, AdvanceLatest, Requests, NoRequest
<1>2. Current' = s
  <2>1. gen'[s] = latest' /\ gen'[s] # 0
    BY <1>1 DEF WorkerInv, TypeOK
  <2>2. held'[s] \/ release'[s]
    BY <1>1 DEF WorkerInv, TypeOK
  <2>3. IsCurrent(s)'
    BY <2>1, <2>2 DEF IsCurrent
  <2> QED
    BY <2>3, CurrentIsNext
<1>3. reply'[s] = "waiting"
  BY <1>1 DEF WorkerInv, TypeOK, DropPending
<1>4. Register!TurnAway(Register!Made \ {s})
  BY <1>1
     DEF WorkerInv, TypeOK, OpenRequests, DropPending, Register!TurnAway, Register!TurnedAway,
         Register!Made, Requests
<1> QED
  BY <1>0, <1>1, <1>2, <1>3, <1>4, RepliesAreAnswers DEF Register!Ask

LEMMA SubmitRefusedRefines ==
    ASSUME WorkerInv, WorkerInv', NEW isRelease \in BOOLEAN, SubmitRefused(isRelease)
    PROVE  Register!Ask
<1> DEFINE s == submitted + 1
<1>1. /\ s \in Requests /\ submitted' = s /\ submitted < MaxRequests
      /\ reply' = [reply EXCEPT ![s] = "error"]
      /\ \A r \in Requests : gen'[r] = 0
  BY BoundsAssumption DEF WorkerInv, TypeOK, ClosedIsEmpty, SubmitRefused, Requests
<1>2. Current' = NoRequest
  <2>1. \A r \in Requests : ~IsCurrent(r)'
    BY <1>1 DEF IsCurrent
  <2> QED
    BY <2>1, CurrentIsNext
<1>3. reply'[s] = "error" /\ Register!TurnAway(Register!Made \ {s})
  BY <1>1 DEF WorkerInv, TypeOK, Register!TurnAway, Register!Made, Requests
<1> QED
  BY <1>1, <1>2, <1>3, RepliesAreAnswers DEF Register!Ask, NoRequest

LEMMA RevokeRefines ==
    ASSUME WorkerInv, WorkerInv', Cancel \/ DropWorker
    PROVE  Register!Revoke
<1>1. /\ UNCHANGED <<submitted, gen>> /\ latest' = latest + 1 /\ latest \in Nat
      /\ reply' = DropPending(reply)
  BY BoundsAssumption DEF WorkerInv, TypeOK, Cancel, DropWorker, AdvanceLatest
<1>2. Current' = NoRequest
  <2>1. \A r \in Requests : ~IsCurrent(r)'
    BY <1>1 DEF WorkerInv, TypeOK, Numbered, IsCurrent
  <2> QED
    BY <2>1, CurrentIsNext
<1>3. Register!TurnAway(Register!Made)
  BY <1>1
     DEF WorkerInv, OpenRequests, DropPending, Register!TurnAway, Register!TurnedAway,
         Register!Made, Requests
<1> QED
  BY <1>1, <1>2, <1>3, RepliesAreAnswers DEF Register!Revoke, NoRequest

\* Abandoning the current request revokes it; any other one is nobody's loss.
LEMMA AbandonRefines ==
    ASSUME WorkerInv, WorkerInv', NEW r \in Requests, Abandon(r)
    PROVE  Register!Revoke \/ UNCHANGED <<submitted, Current, reply>>
<1>1. /\ held' = [held EXCEPT ![r] = FALSE] /\ held[r] /\ ~release[r]
      /\ UNCHANGED <<submitted, gen, release, reply, latest>>
  BY DEF WorkerInv, ReleaseIsNotHeld, Abandon
<1>2. \A s \in Requests : IsCurrent(s)' <=> IsCurrent(s) /\ s # r
  BY <1>1 DEF WorkerInv, TypeOK, IsCurrent
<1>3. CASE IsCurrent(r)
  <2>1. \A s \in Requests : ~IsCurrent(s)'
    BY <1>2, <1>3, CurrentIs
  <2>2. Current' = NoRequest
    BY <2>1, CurrentIsNext
  <2> QED
    BY <1>1, <2>2, RepliesAreAnswers DEF Register!Revoke, Register!TurnAway, NoRequest
<1>4. CASE ~IsCurrent(r)
  <2>1. \A s \in Requests : IsCurrent(s)' <=> IsCurrent(s)
    BY <1>2, <1>4
  <2>2. Current' = Current
    <3>1. CASE \E s \in Requests : IsCurrent(s)
      BY <2>1, <3>1, CurrentIs, CurrentIsNext
    <3>2. CASE \A s \in Requests : ~IsCurrent(s)
      BY <2>1, <3>2, CurrentIs, CurrentIsNext
    <3> QED
      BY <3>1, <3>2
  <2> QED
    BY <1>1, <2>2
<1> QED
  BY <1>3, <1>4

LEMMA SettleRefines ==
    ASSUME WorkerInv, WorkerInv', Discard \/ Send
    PROVE  Register!Answer(running)
<1>1. /\ running \in Requests /\ reply[running] = "waiting"
      /\ UNCHANGED <<submitted, gen, release, held, latest>>
  BY DEF WorkerInv, TypeOK, OpenRequests, ThreadHasRequest, Discard, Send
<1>2. \A older \in 1 .. running - 1 : reply[older] # "waiting"
  <2> SUFFICES ASSUME NEW older \in 1 .. running - 1, reply[older] = "waiting" PROVE FALSE
    OBVIOUS
  <2>1. older \in Requests /\ older < running
    BY <1>1, BoundsAssumption DEF Requests
  <2>2. older = pending /\ pending # NoRequest
    BY <2>1 DEF WorkerInv, OpenRequests, Requests, NoRequest
  <2>3. older = submitted /\ running <= submitted
    BY <2>2 DEF WorkerInv, Numbered
  <2> QED
    BY <1>1, <2>1, <2>3 DEF Requests
<1>3. \E a \in Register!Answered \cup Register!TurnedAway :
         /\ a \in Register!TurnedAway => ~IsCurrent(running)
         /\ reply' = [reply EXCEPT ![running] = a]
  <2>1. CASE Discard
    BY <2>1 DEF Discard, Unwanted, IsCurrent, Register!TurnedAway
  <2>2. CASE Send
    BY <2>2
       DEF WorkerInv, TypeOK, AnswerIsDue, Send, IsCurrent, Outcomes, Register!TurnedAway,
           Register!Answered
  <2> QED
    BY <2>1, <2>2
<1>4. ~IsCurrent(running) => running # Current
  <2>1. CASE \E s \in Requests : IsCurrent(s)
    BY <2>1, CurrentIs
  <2>2. CASE \A s \in Requests : ~IsCurrent(s)
    BY <1>1, <2>2, CurrentIs DEF Requests, NoRequest
  <2> QED
    BY <2>1, <2>2
<1>5. Current' = Current
  BY <1>1, CurrentKept
<1> QED
  BY <1>1, <1>2, <1>3, <1>4, <1>5 DEF Register!Answer

LEMMA OthersRefine ==
    ASSUME Take \/ Sleep \/ Leave \/ Begin \/ Checkpoint \/ Return \/ UNCHANGED vars
    PROVE  UNCHANGED <<submitted, Current, reply>>
<1>1. UNCHANGED <<submitted, gen, latest, held, release, reply>>
  BY DEF Take, Sleep, Leave, Begin, Checkpoint, Return, vars, queueVars
<1> QED
  BY <1>1, CurrentKept

LEMMA StepRefines ==
    WorkerInv /\ WorkerInv' /\ [Next]_vars => [Register!RequestNext]_Register!requestVars
<1> SUFFICES ASSUME WorkerInv, WorkerInv', [Next]_vars
             PROVE  [Register!RequestNext]_Register!requestVars
  OBVIOUS
<1>1. ASSUME NEW isRelease \in BOOLEAN, Submit(isRelease) \/ SubmitRefused(isRelease)
      PROVE  Register!Ask
  BY <1>1, SubmitRefines, SubmitRefusedRefines
<1>2. CASE Cancel \/ DropWorker
  BY <1>2, RevokeRefines DEF Register!RequestNext
<1>3. ASSUME NEW r \in Requests, Abandon(r)
      PROVE  Register!Revoke \/ UNCHANGED <<submitted, Current, reply>>
  BY <1>3, AbandonRefines
<1>4. CASE Discard \/ Send
  <2>1. running \in Register!Made
    BY <1>4 DEF WorkerInv, TypeOK, ThreadHasRequest, Discard, Send, Register!Made, Requests
  <2> QED
    BY <1>4, <2>1, SettleRefines DEF Register!RequestNext
<1>5. CASE Take \/ Sleep \/ Leave \/ Begin \/ Checkpoint \/ Return \/ UNCHANGED vars
  BY <1>5, OthersRefine DEF Register!requestVars
<1> QED
  BY <1>1, <1>2, <1>3, <1>4, <1>5
     DEF Next, ReaderThread, Register!RequestNext, Register!requestVars

(***************************************************************************)
(* The worker implements the abstract register: whatever is replaced,       *)
(* cancelled, abandoned or dropped, requests are settled in their order and *)
(* the one the user interface still wants is answered, not turned away.     *)
(***************************************************************************)
THEOREM WorkerImplementsRegister == Spec => RequestSpec
BY InitInv, StepInv, InitRefines, StepRefines, PTL DEF Spec, RequestSpec, Register!RequestSpec

-----------------------------------------------------------------------------
(* The cache of previews: sums and sequences.                               *)

\* Induction, said of a set.
LEMMA FromEachToNext ==
    ASSUME NEW T, 0 \in T, \A n \in Nat : n \in T => n + 1 \in T
    PROVE  Nat \subseteq T
<1> DEFINE Missing == {n \in Nat : n \notin T}
           Below == {pair \in Nat \X Nat : pair[1] < pair[2]}
<1>1. SUFFICES ASSUME Missing # {}
               PROVE  FALSE
  OBVIOUS
<1>2. IsWellFoundedOn(Below, Nat)
  <2>1. OpToRel(<, Nat) = Below
    BY DEF OpToRel
  <2> QED
    BY <2>1, NatLessThanWellFounded
<1>3. PICK n \in Missing : \A m \in Missing : ~(<<m, n>> \in Below)
  BY <1>1, <1>2, WFMin
<1>4. n \in Nat /\ n # 0 /\ n - 1 \in Nat /\ n - 1 < n
  OBVIOUS
<1>5. n - 1 \in T
  BY <1>3, <1>4
<1> QED
  BY <1>4, <1>5

\* f has the sum of the first n numbers of w, for each n.
Sums(f, w) == f = [n \in 0 .. Len(w) |-> IF n = 0 THEN 0 ELSE f[n - 1] + w[n]]

LEMMA SumsExist ==
    ASSUME NEW w, Len(w) \in Nat
    PROVE  \E f : Sums(f, w)
<1> DEFINE Upto(f, k) == f = [m \in 0 .. k |-> IF m = 0 THEN 0 ELSE f[m - 1] + w[m]]
           T == {k \in Nat : \E f : Upto(f, k)}
<1>1. 0 \in T
  <2> DEFINE f == [m \in 0 .. 0 |-> 0]
  <2>1. Upto(f, 0)
    OBVIOUS
  <2> QED
    BY <2>1
<1>2. ASSUME NEW k \in Nat, k \in T
      PROVE  k + 1 \in T
  <2> PICK f : Upto(f, k)
    BY <1>2
  <2> DEFINE g == [m \in 0 .. k + 1 |-> IF m = k + 1 THEN f[k] + w[k + 1] ELSE f[m]]
  <2>1. f = [m \in 0 .. k |-> IF m = 0 THEN 0 ELSE f[m - 1] + w[m]]
    OBVIOUS
  <2>2. \A m \in 0 .. k + 1 : g[m] = IF m = 0 THEN 0 ELSE g[m - 1] + w[m]
    <3> SUFFICES ASSUME NEW m \in 0 .. k + 1
                 PROVE  g[m] = IF m = 0 THEN 0 ELSE g[m - 1] + w[m]
      OBVIOUS
    <3>1. CASE m = k + 1
      BY <3>1
    <3>2. CASE m # k + 1
      <4>1. m \in 0 .. k
        BY <3>2
      <4>2. f[m] = IF m = 0 THEN 0 ELSE f[m - 1] + w[m]
        BY <2>1, <4>1
      <4>3. m # 0 => m - 1 \in 0 .. k + 1 /\ m - 1 # k + 1
        BY <4>1
      <4> QED
        BY <3>2, <4>2, <4>3
    <3> QED
      BY <3>1, <3>2
  <2>3. g = [m \in 0 .. k + 1 |-> g[m]]
    OBVIOUS
  <2> HIDE DEF g
  <2>4. Upto(g, k + 1)
    BY <2>2, <2>3
  <2> QED
    BY <2>4
<1> HIDE DEF T
<1>3. Len(w) \in T
  BY <1>1, <1>2, FromEachToNext
<1> QED
  BY <1>3 DEF T, Sums

LEMMA SumIs ==
    ASSUME NEW w, Len(w) \in Nat
    PROVE  \E f : Sums(f, w) /\ SumOf(w) = f[Len(w)]
<1> DEFINE sum == CHOOSE f : f = [n \in 0 .. Len(w) |-> IF n = 0 THEN 0 ELSE f[n - 1] + w[n]]
<1>1. sum = [n \in 0 .. Len(w) |-> IF n = 0 THEN 0 ELSE sum[n - 1] + w[n]]
  BY SumsExist DEF Sums
<1>2. SumOf(w) = sum[Len(w)]
  BY DEF SumOf
<1> HIDE DEF sum
<1> QED
  BY <1>1, <1>2 DEF Sums

LEMMA SumsStep ==
    ASSUME NEW f, NEW w, NEW k \in Nat, Len(w) = k, Sums(f, w)
    PROVE  f[0] = 0 /\ \A n \in 1 .. k : f[n] = f[n - 1] + w[n]
<1>1. f = [n \in 0 .. k |-> IF n = 0 THEN 0 ELSE f[n - 1] + w[n]]
  BY DEF Sums
<1>2. \A n \in 0 .. k : f[n] = IF n = 0 THEN 0 ELSE f[n - 1] + w[n]
  BY <1>1
<1> QED
  BY <1>2

\* The sum of a sequence is that of its parts.
LEMMA SumConcat ==
    ASSUME NEW w \in Seq(Nat), NEW x \in Seq(Nat)
    PROVE  /\ SumOf(w) \in Nat /\ SumOf(x) \in Nat
           /\ SumOf(w \o x) = SumOf(w) + SumOf(x)
<1> PICK v : v = w \o x
  OBVIOUS
<1> PICK p \in Nat : p = Len(w)
  BY LenProperties
<1> PICK q \in Nat : q = Len(x)
  BY LenProperties
<1>1. /\ Len(v) = p + q
      /\ \A i \in 1 .. p + q : v[i] = IF i <= p THEN w[i] ELSE x[i - p]
      /\ \A i \in 1 .. p : w[i] \in Nat
      /\ \A i \in 1 .. q : x[i] \in Nat
  BY ConcatProperties, ElementOfSeq
<1> PICK m \in Nat : m = p + q
  OBVIOUS
<1>2. PICK f : Sums(f, v) /\ SumOf(v) = f[p + q]
  <2>1. Len(v) = m /\ Len(v) \in Nat
    BY <1>1
  <2> QED
    BY <2>1, SumIs
<1>3. PICK g : Sums(g, w) /\ SumOf(w) = g[p]
  BY SumIs
<1>4. PICK h : Sums(h, x) /\ SumOf(x) = h[q]
  BY SumIs
<1>5. /\ f[0] = 0 /\ \A n \in 1 .. p + q : f[n] = f[n - 1] + v[n]
      /\ g[0] = 0 /\ \A n \in 1 .. p : g[n] = g[n - 1] + w[n]
      /\ h[0] = 0 /\ \A n \in 1 .. q : h[n] = h[n - 1] + x[n]
  <2>1. Len(v) = m /\ Len(w) = p /\ Len(x) = q
    BY <1>1
  <2>2. f[0] = 0 /\ \A n \in 1 .. m : f[n] = f[n - 1] + v[n]
    BY <1>2, <2>1, SumsStep
  <2>3. g[0] = 0 /\ \A n \in 1 .. p : g[n] = g[n - 1] + w[n]
    BY <1>3, <2>1, SumsStep
  <2>4. h[0] = 0 /\ \A n \in 1 .. q : h[n] = h[n - 1] + x[n]
    BY <1>4, <2>1, SumsStep
  <2> QED
    BY <2>2, <2>3, <2>4
<1> DEFINE T == {i \in Nat : i <= p => g[i] \in Nat /\ f[i] = g[i]}
           U == {i \in Nat : i <= q => h[i] \in Nat /\ f[p + i] = g[p] + h[i]}
<1>6. Nat \subseteq T
  <2>1. 0 \in T
    BY <1>5
  <2>2. ASSUME NEW n \in Nat, n \in T
        PROVE  n + 1 \in T
    <3> SUFFICES ASSUME n + 1 <= p
                 PROVE  g[n + 1] \in Nat /\ f[n + 1] = g[n + 1]
      OBVIOUS
    <3>1. n + 1 \in 1 .. p /\ n + 1 \in 1 .. p + q /\ (n + 1) - 1 = n
      OBVIOUS
    <3>2. v[n + 1] = w[n + 1] /\ w[n + 1] \in Nat
      BY <1>1, <3>1
    <3> QED
      BY <1>5, <2>2, <3>1, <3>2
  <2> HIDE DEF T
  <2> QED
    BY <2>1, <2>2, FromEachToNext
<1>7. g[p] \in Nat /\ f[p] = g[p]
  BY <1>6
<1>8. Nat \subseteq U
  <2>1. 0 \in U
    BY <1>5, <1>7
  <2>2. ASSUME NEW n \in Nat, n \in U
        PROVE  n + 1 \in U
    <3> SUFFICES ASSUME n + 1 <= q
                 PROVE  h[n + 1] \in Nat /\ f[p + (n + 1)] = g[p] + h[n + 1]
      OBVIOUS
    <3>1. /\ n + 1 \in 1 .. q /\ p + (n + 1) \in 1 .. p + q /\ (n + 1) - 1 = n
          /\ (p + (n + 1)) - 1 = p + n /\ (p + (n + 1)) - p = n + 1 /\ ~(p + (n + 1) <= p)
      OBVIOUS
    <3>2. v[p + (n + 1)] = x[n + 1] /\ x[n + 1] \in Nat
      BY <1>1, <3>1
    <3>3. h[n] \in Nat /\ f[p + n] = g[p] + h[n]
      BY <2>2
    <3>4. f[p + (n + 1)] = f[p + n] + x[n + 1]
      BY <1>5, <3>1, <3>2
    <3>5. h[n + 1] = h[n] + x[n + 1]
      BY <1>5, <3>1
    <3> QED
      BY <1>7, <3>2, <3>3, <3>4, <3>5
  <2> HIDE DEF U
  <2> QED
    BY <2>1, <2>2, FromEachToNext
<1>9. h[q] \in Nat /\ f[p + q] = g[p] + h[q]
  BY <1>8
<1> QED
  BY <1>2, <1>3, <1>4, <1>7, <1>9

LEMMA SumOfFew ==
    ASSUME NEW b \in Nat
    PROVE  SumOf(<<>>) = 0 /\ SumOf(<<b>>) = b
<1>1. PICK f : Sums(f, <<>>) /\ SumOf(<<>>) = f[Len(<<>>)]
  BY SumIs
<1>2. SumOf(<<>>) = 0
  BY <1>1 DEF Sums
<1> PICK w : w = <<b>>
  OBVIOUS
<1>3. Len(w) = 1 /\ w[1] = b
  OBVIOUS
<1>4. PICK g : Sums(g, w) /\ SumOf(w) = g[1]
  BY <1>3, SumIs
<1>5. g[0] = 0 /\ g[1] = g[0] + b
  BY <1>3, <1>4 DEF Sums
<1> QED
  BY <1>2, <1>4, <1>5

-----------------------------------------------------------------------------
(* The cache of previews: an element taken out of a queue.                  *)

LEMMA LeastNumber ==
    ASSUME NEW A \in SUBSET Nat, A # {}
    PROVE  \E x \in A : \A y \in A : x <= y
<1> DEFINE T == {n \in Nat : (\E y \in A : y <= n) => \E x \in A : \A y \in A : x <= y}
<1>1. 0 \in T
  <2> SUFFICES ASSUME NEW y \in A, y <= 0
               PROVE  \E x \in A : \A z \in A : x <= z
    OBVIOUS
  <2>1. y = 0
    OBVIOUS
  <2> QED
    BY <2>1
<1>2. ASSUME NEW n \in Nat, n \in T
      PROVE  n + 1 \in T
  <2>1. CASE \E y \in A : y <= n
    BY <1>2, <2>1
  <2>2. CASE \A y \in A : ~(y <= n)
    BY <2>2
  <2> QED
    BY <2>1, <2>2
<1> HIDE DEF T
<1>3. Nat \subseteq T
  BY <1>1, <1>2, FromEachToNext
<1>4. PICK y \in A : TRUE
  OBVIOUS
<1>5. y \in Nat /\ y <= y /\ y \in T
  BY <1>3
<1> QED
  BY <1>5 DEF T

LEMMA InPlaces ==
    ASSUME NEW S, NEW s \in Seq(S)
    PROVE  \A e : e \in ToSet(s) <=> \E i \in 1 .. Len(s) : s[i] = e
BY LenProperties DEF ToSet

LEMMA ConcatIs ==
    ASSUME NEW S, NEW s \in Seq(S), NEW t \in Seq(S)
    PROVE  /\ s \o t \in Seq(S) /\ Len(s \o t) = Len(s) + Len(t)
           /\ \A i \in 1 .. Len(s) : (s \o t)[i] = s[i]
           /\ \A i \in 1 .. Len(t) : (s \o t)[Len(s) + i] = t[i]
<1> PICK r : r = s \o t
  OBVIOUS
<1> PICK a \in Nat : a = Len(s)
  BY LenProperties
<1> PICK b \in Nat : b = Len(t)
  BY LenProperties
<1>1. /\ r \in Seq(S) /\ Len(r) = a + b
      /\ \A i \in 1 .. a + b : r[i] = IF i <= a THEN s[i] ELSE t[i - a]
  BY ConcatProperties
<1>2. \A i \in 1 .. b : a + i \in 1 .. a + b /\ ~(a + i <= a) /\ (a + i) - a = i
  OBVIOUS
<1> QED
  BY <1>1, <1>2

LEMMA FirstSplits ==
    ASSUME NEW S, NEW s \in Seq(S), NEW e \in ToSet(s)
    PROVE  \E p, q \in Seq(S) : s = (p \o <<e>>) \o q /\ e \notin ToSet(p)
<1> DEFINE I == {i \in 1 .. Len(s) : s[i] = e}
<1>1. PICK n \in Nat : n = Len(s)
  BY LenProperties
<1>2. PICK m \in I : \A i \in I : m <= i
  <2>1. I # {} /\ I \in SUBSET Nat
    BY InPlaces
  <2> HIDE DEF I
  <2> QED
    BY <2>1, LeastNumber
<1>3. m \in 1 .. n /\ s[m] = e /\ e \in S
  BY <1>1, ElementOfSeq
<1>4. PICK p : p = SubSeq(s, 1, m - 1)
  OBVIOUS
<1>5. PICK q : q = SubSeq(s, m + 1, n)
  OBVIOUS
<1>6. p \in Seq(S) /\ Len(p) = m - 1 /\ \A i \in 1 .. m - 1 : p[i] = s[i]
  <2>1. \A i \in 1 .. m - 1 : s[i] \in S
    BY <1>1, <1>3, ElementOfSeq
  <2>2. m - 1 \in Int /\ (1 <= m - 1 \/ m - 1 = 0)
    BY <1>3
  <2>3. /\ p \in Seq(S) /\ Len(p) = IF 1 <= m - 1 THEN (m - 1) - 1 + 1 ELSE 0
        /\ \A i \in 1 .. (m - 1) - 1 + 1 : p[i] = s[1 + i - 1]
    BY <1>4, <2>1, <2>2, SubSeqProperties
  <2> QED
    BY <2>2, <2>3
<1>7. q \in Seq(S) /\ Len(q) = n - m /\ \A i \in 1 .. n - m : q[i] = s[m + i]
  <2>1. \A i \in m + 1 .. n : s[i] \in S
    BY <1>1, <1>3, ElementOfSeq
  <2>2. m + 1 \in Int /\ (m + 1 <= n \/ n - m = 0)
    BY <1>3
  <2>3. /\ q \in Seq(S) /\ Len(q) = IF m + 1 <= n THEN n - (m + 1) + 1 ELSE 0
        /\ \A i \in 1 .. n - (m + 1) + 1 : q[i] = s[(m + 1) + i - 1]
    BY <1>5, <2>1, <2>2, SubSeqProperties
  <2>4. Len(q) = n - m
    BY <1>3, <2>2, <2>3
  <2>5. \A i \in 1 .. n - m : i \in 1 .. n - (m + 1) + 1 /\ (m + 1) + i - 1 = m + i
    BY <1>3
  <2> QED
    BY <2>3, <2>4, <2>5
<1>8. e \notin ToSet(p)
  <2>1. ASSUME NEW i \in 1 .. m - 1, p[i] = e
        PROVE  FALSE
    BY <1>1, <1>2, <1>3, <1>6, <2>1
  <2> QED
    BY <1>6, <2>1, InPlaces
<1>9. s = (p \o <<e>>) \o q
  <2>1. /\ <<e>> \in Seq(S) /\ Len(<<e>>) = 1 /\ <<e>>[1] = e
    BY <1>3
  <2>2. PICK l : l = p \o <<e>>
    OBVIOUS
  <2>3. /\ l \in Seq(S) /\ Len(l) = m
        /\ \A i \in 1 .. m - 1 : l[i] = p[i]
        /\ l[m] = e
    <3>1. m - 1 \in Nat /\ (m - 1) + 1 = m /\ m \in Nat
      BY <1>3
    <3>2. PICK k \in Nat : k = m - 1
      BY <3>1
    <3>3. /\ l \in Seq(S) /\ Len(l) = k + 1
          /\ \A i \in 1 .. k : l[i] = p[i]
          /\ \A i \in 1 .. 1 : l[k + i] = <<e>>[i]
      <4>0. p \in Seq(S) /\ <<e>> \in Seq(S)
        BY <1>6, <2>1
      <4>1. /\ p \o <<e>> \in Seq(S) /\ Len(p \o <<e>>) = Len(p) + Len(<<e>>)
            /\ \A i \in 1 .. Len(p) : (p \o <<e>>)[i] = p[i]
            /\ \A i \in 1 .. Len(<<e>>) : (p \o <<e>>)[Len(p) + i] = <<e>>[i]
        BY <4>0, ConcatIs
      <4> QED
        BY <4>1, <2>2, <1>6, <2>1, <3>2
    <3> QED
      BY <2>1, <3>1, <3>2, <3>3
  <2>4. \A i \in 1 .. m : l[i] = s[i]
    <3> SUFFICES ASSUME NEW i \in 1 .. m
                 PROVE  l[i] = s[i]
      OBVIOUS
    <3>1. CASE i <= m - 1
      BY <1>6, <2>3, <3>1
    <3>2. CASE i = m
      BY <1>3, <2>3, <3>2
    <3> QED
      BY <1>3, <3>1, <3>2
  <2>5. PICK r : r = l \o q
    OBVIOUS
  <2>6. /\ r \in Seq(S) /\ Len(r) = n
        /\ \A i \in 1 .. m : r[i] = l[i]
        /\ \A i \in 1 .. n - m : r[m + i] = q[i]
    <3>1. m \in Nat /\ n - m \in Nat /\ m + (n - m) = n
      BY <1>3
    <3>2. PICK k \in Nat : k = n - m
      BY <3>1
    <3>3. /\ r \in Seq(S) /\ Len(r) = m + k
          /\ \A i \in 1 .. m : r[i] = l[i]
          /\ \A i \in 1 .. k : r[m + i] = q[i]
      <4>0. l \in Seq(S) /\ q \in Seq(S)
        BY <1>7, <2>3
      <4>1. /\ l \o q \in Seq(S) /\ Len(l \o q) = Len(l) + Len(q)
            /\ \A i \in 1 .. Len(l) : (l \o q)[i] = l[i]
            /\ \A i \in 1 .. Len(q) : (l \o q)[Len(l) + i] = q[i]
        BY <4>0, ConcatIs
      <4> QED
        BY <4>1, <2>5, <1>7, <2>3, <3>2
    <3> QED
      BY <3>1, <3>2, <3>3
  <2>7. \A i \in 1 .. n : r[i] = s[i]
    <3> SUFFICES ASSUME NEW i \in 1 .. n
                 PROVE  r[i] = s[i]
      OBVIOUS
    <3>1. CASE i <= m
      BY <1>3, <2>4, <2>6, <3>1
    <3>2. CASE ~(i <= m)
      <4>1. i - m \in 1 .. n - m /\ m + (i - m) = i
        BY <1>3, <3>2
      <4> QED
        BY <1>7, <2>6, <3>2, <4>1
    <3> QED
      BY <3>1, <3>2
  <2>8. r = s
    BY <1>1, <2>6, <2>7, SeqEqual
  <2> QED
    BY <2>2, <2>5, <2>8
<1> QED
  BY <1>6, <1>7, <1>8, <1>9

LEMMA NothingToRemove ==
    ASSUME NEW S, NEW s \in Seq(S), NEW e, e \notin ToSet(s)
    PROVE  RemoveFirst(s, e) = s
BY InPlaces DEF RemoveFirst

LEMMA RemovesTheFirst ==
    ASSUME NEW S, NEW p \in Seq(S), NEW q \in Seq(S), NEW e \in S, e \notin ToSet(p)
    PROVE  RemoveFirst((p \o <<e>>) \o q, e) = p \o q
<1> DEFINE s == (p \o <<e>>) \o q
           I == {i \in 1 .. Len(s) : s[i] = e}
<1>1. PICK a \in Nat : a = Len(p)
  BY LenProperties
<1>2. PICK b \in Nat : b = Len(q)
  BY LenProperties
<1>3. PICK one : one = <<e>>
  OBVIOUS
<1>4. one \in Seq(S) /\ Len(one) = 1 /\ one[1] = e
  BY <1>3
<1>5. PICK l : l = p \o one
  OBVIOUS
<1>6. /\ l \in Seq(S) /\ Len(l) = a + 1
      /\ \A i \in 1 .. a : l[i] = p[i]
      /\ \A i \in 1 .. 1 : l[a + i] = one[i]
  <2>0. p \in Seq(S) /\ one \in Seq(S)
    BY <1>4
  <2>1. /\ p \o one \in Seq(S) /\ Len(p \o one) = Len(p) + Len(one)
        /\ \A i \in 1 .. Len(p) : (p \o one)[i] = p[i]
        /\ \A i \in 1 .. Len(one) : (p \o one)[Len(p) + i] = one[i]
    BY <2>0, ConcatIs
  <2> QED
    BY <2>1, <1>5, <1>1, <1>4
<1>7. s = l \o q
  BY <1>3, <1>5
<1> HIDE DEF s
<1>8. /\ s \in Seq(S) /\ Len(s) = (a + 1) + b
      /\ \A i \in 1 .. a + 1 : s[i] = l[i]
      /\ \A i \in 1 .. b : s[(a + 1) + i] = q[i]
  <2> PICK c \in Nat : c = a + 1
    OBVIOUS
  <2>1. /\ s \in Seq(S) /\ Len(s) = c + b
        /\ \A i \in 1 .. c : s[i] = l[i]
        /\ \A i \in 1 .. b : s[c + i] = q[i]
    <3>0. l \in Seq(S) /\ q \in Seq(S)
      BY <1>6
    <3>1. /\ l \o q \in Seq(S) /\ Len(l \o q) = Len(l) + Len(q)
          /\ \A i \in 1 .. Len(l) : (l \o q)[i] = l[i]
          /\ \A i \in 1 .. Len(q) : (l \o q)[Len(l) + i] = q[i]
      BY <3>0, ConcatIs
    <3> QED
      BY <3>1, <1>7, <1>2, <1>6
  <2> QED
    BY <2>1
<1>9. \A i \in 1 .. a : s[i] = p[i] /\ p[i] # e
  <2> SUFFICES ASSUME NEW i \in 1 .. a
               PROVE  s[i] = p[i] /\ p[i] # e
    OBVIOUS
  <2>1. p[i] # e
    BY <1>1, InPlaces
  <2> QED
    BY <1>6, <1>8, <2>1
<1>10. s[a + 1] = e
  <2>1. l[a + 1] = one[1]
    BY <1>6
  <2> QED
    BY <1>4, <1>8, <2>1
<1>11. a + 1 \in I /\ \A i \in I : a + 1 <= i
  <2>1. a + 1 \in I
    BY <1>8, <1>10
  <2>2. ASSUME NEW i \in I
        PROVE  a + 1 <= i
    <3>1. i \in Nat /\ 1 <= i /\ s[i] = e
      BY <1>8
    <3>2. ~(i \in 1 .. a)
      BY <1>9, <3>1
    <3> QED
      BY <3>1, <3>2
  <2> QED
    BY <2>1, <2>2
<1>12. Min(I) = a + 1
  <2>1. \A x \in I : (\A y \in I : x <= y) => x = a + 1
    <3> SUFFICES ASSUME NEW x \in I, \A y \in I : x <= y
                 PROVE  x = a + 1
      OBVIOUS
    <3>1. x <= a + 1 /\ a + 1 <= x /\ x \in Nat
      BY <1>8, <1>11
    <3> QED
      BY <3>1
  <2> HIDE DEF I
  <2> QED
    BY <1>11, <2>1 DEF Min
<1>13. RemoveFirst(s, e) = SubSeq(s, 1, a) \o SubSeq(s, a + 2, (a + 1) + b)
  <2>1. SelectInSeq(s, LAMBDA v : v = e) = a + 1
    BY <1>11, <1>12 DEF SelectInSeq
  <2>2. RemoveFirst(s, e) = RemoveAt(s, a + 1)
    BY <1>8, <1>10, <2>1 DEF RemoveFirst
  <2>3. (a + 1) - 1 = a /\ (a + 1) + 1 = a + 2
    OBVIOUS
  <2> QED
    BY <1>8, <2>2, <2>3 DEF RemoveAt
<1>14. SubSeq(s, 1, a) = p
  <2>1. PICK u : u = SubSeq(s, 1, a)
    OBVIOUS
  <2>2. \A i \in 1 .. a : s[i] \in S
    BY <1>1, <1>9, ElementOfSeq
  <2>3. /\ u \in Seq(S) /\ Len(u) = IF 1 <= a THEN a - 1 + 1 ELSE 0
        /\ \A i \in 1 .. a - 1 + 1 : u[i] = s[1 + i - 1]
    BY <2>1, <2>2, SubSeqProperties
  <2>4. Len(u) = a /\ \A i \in 1 .. a : u[i] = p[i]
    BY <1>9, <2>3
  <2> QED
    BY <1>1, <2>1, <2>3, <2>4, SeqEqual
<1>15. SubSeq(s, a + 2, (a + 1) + b) = q
  <2>1. PICK u : u = SubSeq(s, a + 2, (a + 1) + b)
    OBVIOUS
  <2>2. \A i \in a + 2 .. (a + 1) + b : s[i] \in S
    BY <1>8, ElementOfSeq
  <2>3. /\ u \in Seq(S)
        /\ Len(u) = IF a + 2 <= (a + 1) + b THEN ((a + 1) + b) - (a + 2) + 1 ELSE 0
        /\ \A i \in 1 .. ((a + 1) + b) - (a + 2) + 1 : u[i] = s[(a + 2) + i - 1]
    BY <2>1, <2>2, SubSeqProperties
  <2>4. Len(u) = b
    BY <2>3
  <2>5. \A i \in 1 .. b : u[i] = q[i]
    <3> SUFFICES ASSUME NEW i \in 1 .. b
                 PROVE  u[i] = q[i]
      OBVIOUS
    <3>1. i \in 1 .. ((a + 1) + b) - (a + 2) + 1 /\ (a + 2) + i - 1 = (a + 1) + i
      OBVIOUS
    <3> QED
      BY <1>8, <2>3, <3>1
  <2> QED
    BY <1>2, <2>1, <2>3, <2>4, <2>5, SeqEqual
<1> QED
  BY <1>13, <1>14, <1>15 DEF s

-----------------------------------------------------------------------------
(* The cache of previews: queues without repetition, and what they weigh.   *)

LEMMA InSomePart ==
    ASSUME NEW S, NEW s \in Seq(S), NEW t \in Seq(S)
    PROVE  ToSet(s \o t) = ToSet(s) \cup ToSet(t)
<1> PICK a \in Nat : a = Len(s)
  BY LenProperties
<1> PICK b \in Nat : b = Len(t)
  BY LenProperties
<1>1. /\ s \o t \in Seq(S) /\ Len(s \o t) = a + b
      /\ \A i \in 1 .. a : (s \o t)[i] = s[i]
      /\ \A i \in 1 .. b : (s \o t)[a + i] = t[i]
  BY ConcatIs
<1> PICK r : r = s \o t
  OBVIOUS
<1>2. \A e : e \in ToSet(r) <=> \E i \in 1 .. a + b : r[i] = e
  <2>1. r \in Seq(S) /\ Len(r) = a + b
    BY <1>1
  <2> QED
    BY <2>1, InPlaces
<1>3. \A e : e \in ToSet(s) <=> \E i \in 1 .. a : s[i] = e
  BY InPlaces
<1>4. \A e : e \in ToSet(t) <=> \E i \in 1 .. b : t[i] = e
  BY InPlaces
<1>5. ASSUME NEW e, e \in ToSet(r)
      PROVE  e \in ToSet(s) \cup ToSet(t)
  <2> PICK i \in 1 .. a + b : r[i] = e
    BY <1>2, <1>5
  <2>1. CASE i <= a
    BY <1>1, <1>3, <2>1
  <2>2. CASE ~(i <= a)
    <3>1. i - a \in 1 .. b /\ a + (i - a) = i
      BY <2>2
    <3> QED
      BY <1>1, <1>4, <3>1
  <2> QED
    BY <2>1, <2>2
<1>6. ASSUME NEW e, e \in ToSet(s)
      PROVE  e \in ToSet(r)
  <2> PICK i \in 1 .. a : s[i] = e
    BY <1>3, <1>6
  <2>1. i \in 1 .. a + b /\ r[i] = e
    BY <1>1
  <2> QED
    BY <1>2, <2>1
<1>7. ASSUME NEW e, e \in ToSet(t)
      PROVE  e \in ToSet(r)
  <2> PICK i \in 1 .. b : t[i] = e
    BY <1>4, <1>7
  <2>1. a + i \in 1 .. a + b /\ r[a + i] = e
    BY <1>1
  <2> QED
    BY <1>2, <2>1
<1> QED
  BY <1>5, <1>6, <1>7

LEMMA OnceInSomePart ==
    ASSUME NEW S, NEW s \in Seq(S), NEW t \in Seq(S)
    PROVE  IsInjective(s \o t) <=>
               IsInjective(s) /\ IsInjective(t) /\ ToSet(s) \cap ToSet(t) = {}
<1> PICK a \in Nat : a = Len(s)
  BY LenProperties
<1> PICK b \in Nat : b = Len(t)
  BY LenProperties
<1>1. /\ s \o t \in Seq(S) /\ Len(s \o t) = a + b
      /\ \A i \in 1 .. a : (s \o t)[i] = s[i]
      /\ \A i \in 1 .. b : (s \o t)[a + i] = t[i]
  BY ConcatIs
<1> PICK r : r = s \o t
  OBVIOUS
<1>2. DOMAIN r = 1 .. a + b /\ DOMAIN s = 1 .. a /\ DOMAIN t = 1 .. b
  BY <1>1, LenProperties
<1>3. ASSUME IsInjective(r)
      PROVE  IsInjective(s) /\ IsInjective(t) /\ ToSet(s) \cap ToSet(t) = {}
  <2>1. \A i, j \in 1 .. a + b : r[i] = r[j] => i = j
    BY <1>2, <1>3 DEF IsInjective
  <2>2. IsInjective(s)
    <3>1. \A i, j \in 1 .. a : s[i] = s[j] => i = j
      BY <1>1, <2>1
    <3> QED
      BY <1>2, <3>1 DEF IsInjective
  <2>3. IsInjective(t)
    <3>1. \A i, j \in 1 .. b : t[i] = t[j] => i = j
      <4> SUFFICES ASSUME NEW i \in 1 .. b, NEW j \in 1 .. b, t[i] = t[j]
                   PROVE  i = j
        OBVIOUS
      <4>1. a + i \in 1 .. a + b /\ a + j \in 1 .. a + b /\ r[a + i] = r[a + j]
        BY <1>1
      <4>2. a + i = a + j
        BY <2>1, <4>1
      <4> QED
        BY <4>2
    <3> QED
      BY <1>2, <3>1 DEF IsInjective
  <2>4. ASSUME NEW e, e \in ToSet(s), e \in ToSet(t)
        PROVE  FALSE
    <3> PICK i \in 1 .. a : s[i] = e
      BY <2>4, InPlaces
    <3> PICK j \in 1 .. b : t[j] = e
      BY <2>4, InPlaces
    <3>1. i \in 1 .. a + b /\ a + j \in 1 .. a + b /\ r[i] = r[a + j] /\ i # a + j
      BY <1>1
    <3> QED
      BY <2>1, <3>1
  <2> QED
    BY <2>2, <2>3, <2>4
<1>4. ASSUME IsInjective(s), IsInjective(t), ToSet(s) \cap ToSet(t) = {}
      PROVE  IsInjective(r)
  <2> SUFFICES ASSUME NEW i \in 1 .. a + b, NEW j \in 1 .. a + b, r[i] = r[j]
               PROVE  i = j
    BY <1>2 DEF IsInjective
  <2>1. ASSUME NEW k \in 1 .. a + b
        PROVE  \/ k \in 1 .. a /\ r[k] = s[k] /\ r[k] \in ToSet(s)
               \/ k - a \in 1 .. b /\ r[k] = t[k - a] /\ r[k] \in ToSet(t)
    <3>1. CASE k <= a
      <4>1. k \in 1 .. a /\ r[k] = s[k]
        BY <1>1, <3>1
      <4> QED
        BY <4>1, InPlaces
    <3>2. CASE ~(k <= a)
      <4>1. k - a \in 1 .. b /\ a + (k - a) = k
        BY <3>2
      <4>2. r[k] = t[k - a]
        BY <1>1, <4>1
      <4> QED
        BY <4>1, <4>2, InPlaces
    <3> QED
      BY <3>1, <3>2
  <2>2. CASE i \in 1 .. a /\ r[i] = s[i] /\ r[i] \in ToSet(s)
    <3>1. j \in 1 .. a /\ r[j] = s[j]
      BY <1>4, <2>1, <2>2
    <3> QED
      BY <1>2, <1>4, <2>2, <3>1 DEF IsInjective
  <2>3. CASE i - a \in 1 .. b /\ r[i] = t[i - a] /\ r[i] \in ToSet(t)
    <3>1. j - a \in 1 .. b /\ r[j] = t[j - a]
      BY <1>4, <2>1, <2>3
    <3>2. i - a = j - a
      BY <1>2, <1>4, <2>3, <3>1 DEF IsInjective
    <3> QED
      BY <3>2
  <2> QED
    BY <2>1, <2>2, <2>3
<1> QED
  BY <1>3, <1>4

LEMMA OneElement ==
    ASSUME NEW S, NEW e \in S
    PROVE  <<e>> \in Seq(S) /\ ToSet(<<e>>) = {e} /\ IsInjective(<<e>>)
<1> PICK s : s = <<e>>
  OBVIOUS
<1>1. s \in Seq(S) /\ DOMAIN s = {1} /\ s[1] = e
  OBVIOUS
<1> QED
  BY <1>1 DEF ToSet, IsInjective

\* A queue without an element.
LEMMA WithoutIs ==
    ASSUME NEW S, NEW s \in Seq(S), NEW e, IsInjective(s)
    PROVE  /\ RemoveFirst(s, e) \in Seq(S)
           /\ IsInjective(RemoveFirst(s, e))
           /\ ToSet(RemoveFirst(s, e)) = ToSet(s) \ {e}
<1>1. CASE e \notin ToSet(s)
  <2>1. RemoveFirst(s, e) = s
    BY <1>1, NothingToRemove
  <2> QED
    BY <1>1, <2>1
<1>2. CASE e \in ToSet(s)
  <2>1. e \in S
    BY <1>2, InPlaces, ElementOfSeq
  <2>2. PICK p \in Seq(S), q \in Seq(S) : s = (p \o <<e>>) \o q /\ e \notin ToSet(p)
    BY <1>2, FirstSplits
  <2>3. RemoveFirst(s, e) = p \o q
    BY <2>1, <2>2, RemovesTheFirst
  <2>4. PICK l : l = p \o <<e>>
    OBVIOUS
  <2>5. <<e>> \in Seq(S) /\ ToSet(<<e>>) = {e} /\ IsInjective(<<e>>)
    BY <2>1, OneElement
  <2>6. l \in Seq(S)
    BY <2>4, <2>5, ConcatProperties
  <2>7. ToSet(l) = ToSet(p) \cup {e}
    <3>1. <<e>> \in Seq(S)
      BY <2>5
    <3>2. \A x \in Seq(S) : ToSet(p \o x) = ToSet(p) \cup ToSet(x)
      BY InSomePart
    <3>3. ToSet(p \o <<e>>) = ToSet(p) \cup ToSet(<<e>>)
      BY <3>1, <3>2
    <3> QED
      BY <2>4, <2>5, <3>3
  <2>8. s = l \o q
    BY <2>2, <2>4
  <2>9. ToSet(s) = ToSet(l) \cup ToSet(q)
    BY <2>6, <2>8, InSomePart
  <2>10. IsInjective(l) /\ IsInjective(q) /\ ToSet(l) \cap ToSet(q) = {}
    BY <2>6, <2>8, OnceInSomePart
  <2>11. IsInjective(p)
    BY <2>4, <2>5, <2>10, OnceInSomePart
  <2>12. p \o q \in Seq(S) /\ ToSet(p \o q) = ToSet(p) \cup ToSet(q)
    BY ConcatProperties, InSomePart
  <2>13. IsInjective(p \o q)
    BY <2>7, <2>10, <2>11, OnceInSomePart
  <2>14. ToSet(p) \cup ToSet(q) = ToSet(s) \ {e}
    BY <2>2, <2>7, <2>9, <2>10
  <2> QED
    BY <2>3, <2>12, <2>13, <2>14
<1> QED
  BY <1>1, <1>2

LEMMA Associates ==
    ASSUME NEW S
    PROVE  \A x, y, z \in Seq(S) : (x \o y) \o z = x \o (y \o z)
<1> SUFFICES ASSUME NEW x \in Seq(S), NEW y \in Seq(S), NEW z \in Seq(S)
             PROVE  (x \o y) \o z = x \o (y \o z)
  OBVIOUS
<1> QED
  BY ConcatAssociative

\* u ends with the queue t.
EndsIn(S, u, t) == \E s \in Seq(S) : u = s \o t

\* What leaves a queue leaves the end of it, or what is before that end.
LEMMA WithoutConcat ==
    ASSUME NEW S, NEW s \in Seq(S), NEW t \in Seq(S), NEW e, IsInjective(s \o t)
    PROVE  EndsIn(S, RemoveFirst(s \o t, e), RemoveFirst(t, e))
<1> SUFFICES \E r \in Seq(S) : RemoveFirst(s \o t, e) = r \o RemoveFirst(t, e)
  BY DEF EndsIn
<1>1. s \o t \in Seq(S) /\ ToSet(s \o t) = ToSet(s) \cup ToSet(t)
  BY ConcatProperties, InSomePart
<1>6. \A x, y, z \in Seq(S) : (x \o y) \o z = x \o (y \o z)
  BY Associates
<1>2. ToSet(s) \cap ToSet(t) = {}
  BY OnceInSomePart
<1>3. CASE e \notin ToSet(s) /\ e \notin ToSet(t)
  <2>1. RemoveFirst(s \o t, e) = s \o t /\ RemoveFirst(t, e) = t
    BY <1>1, <1>3, NothingToRemove
  <2> QED
    BY <2>1
<1>4. CASE e \in ToSet(s)
  <2>1. e \in S
    BY <1>4, InPlaces, ElementOfSeq
  <2>2. PICK p \in Seq(S), q \in Seq(S) : s = (p \o <<e>>) \o q /\ e \notin ToSet(p)
    BY <1>4, FirstSplits
  <2>3. PICK l : l = p \o <<e>>
    OBVIOUS
  <2>4. l \in Seq(S)
    <3>1. <<e>> \in Seq(S)
      BY <2>1, OneElement
    <3> QED
      BY <2>3, <3>1, ConcatProperties
  <2>5. (l \o q) \o t = l \o (q \o t)
    BY <2>4, <1>6
  <2>6. q \o t \in Seq(S)
    BY ConcatProperties
  <2>7. RemoveFirst((p \o <<e>>) \o (q \o t), e) = p \o (q \o t)
    BY <2>1, <2>2, <2>6, RemovesTheFirst
  <2>8. p \o (q \o t) = (p \o q) \o t /\ p \o q \in Seq(S)
    <3>1. (p \o q) \o t = p \o (q \o t)
      BY <1>6
    <3> QED
      BY <3>1, ConcatProperties
  <2>9. RemoveFirst(t, e) = t
    BY <1>2, <1>4, NothingToRemove
  <2> QED
    BY <2>2, <2>3, <2>5, <2>7, <2>8, <2>9
<1>5. CASE e \in ToSet(t)
  <2>1. e \in S /\ e \notin ToSet(s)
    BY <1>2, <1>5, InPlaces, ElementOfSeq
  <2>2. PICK p \in Seq(S), q \in Seq(S) : t = (p \o <<e>>) \o q /\ e \notin ToSet(p)
    BY <1>5, FirstSplits
  <2>3. RemoveFirst(t, e) = p \o q
    BY <2>1, <2>2, RemovesTheFirst
  <2>4. <<e>> \in Seq(S)
    BY <2>1, OneElement
  <2>5. PICK l : l = p \o <<e>>
    OBVIOUS
  <2>6. l \in Seq(S)
    BY <2>4, <2>5, ConcatProperties
  <2>7. s \o (l \o q) = (s \o l) \o q
    <3>1. \A y, z \in Seq(S) : (s \o y) \o z = s \o (y \o z)
      BY <1>6
    <3> QED
      BY <2>6, <3>1
  <2>8. s \o (p \o <<e>>) = (s \o p) \o <<e>>
    BY <2>4, <1>6
  <2>9. s \o p \in Seq(S) /\ ToSet(s \o p) = ToSet(s) \cup ToSet(p)
    BY ConcatProperties, InSomePart
  <2>10. RemoveFirst(((s \o p) \o <<e>>) \o q, e) = (s \o p) \o q
    <3>1. PICK r \in Seq(S) : r = s \o p
      BY <2>9
    <3>2. e \notin ToSet(r)
      BY <2>1, <2>2, <2>9, <3>1
    <3>3. RemoveFirst((r \o <<e>>) \o q, e) = r \o q
      BY <2>1, <3>2, RemovesTheFirst
    <3> QED
      BY <3>1, <3>3
  <2>11. (s \o p) \o q = s \o (p \o q)
    BY <1>6
  <2> QED
    BY <2>2, <2>3, <2>5, <2>7, <2>8, <2>10, <2>11
<1> QED
  BY <1>3, <1>4, <1>5

LEMMA WithoutTail ==
    ASSUME NEW S, NEW u \in Seq(S), NEW t \in Seq(S), NEW e, IsInjective(u), EndsIn(S, u, t)
    PROVE  EndsIn(S, RemoveFirst(u, e), RemoveFirst(t, e))
<1> PICK s \in Seq(S) : u = s \o t
  BY DEF EndsIn
<1>1. IsInjective(s \o t)
  OBVIOUS
<1>2. EndsIn(S, RemoveFirst(s \o t, e), RemoveFirst(t, e))
  BY <1>1, WithoutConcat
<1> QED
  BY <1>2

Numbers(f, s) == [i \in 1 .. Len(s) |-> f[s[i]].bytes]
WeightOf(f, s) == SumOf(Numbers(f, s))

LEMMA NumbersAre ==
    ASSUME NEW S, NEW f, \A x \in S : f[x].bytes \in Nat, NEW s \in Seq(S)
    PROVE  Numbers(f, s) \in Seq(Nat) /\ Len(Numbers(f, s)) = Len(s)
<1> PICK n \in Nat : n = Len(s)
  BY LenProperties
<1>1. \A i \in 1 .. n : f[s[i]].bytes \in Nat
  BY ElementOfSeq
<1> QED
  BY <1>1 DEF Numbers

LEMMA WeightConcat ==
    ASSUME NEW S, NEW f, \A x \in S : f[x].bytes \in Nat, NEW s \in Seq(S), NEW t \in Seq(S)
    PROVE  /\ WeightOf(f, s) \in Nat /\ WeightOf(f, t) \in Nat
           /\ WeightOf(f, s \o t) = WeightOf(f, s) + WeightOf(f, t)
<1> PICK a \in Nat : a = Len(s)
  BY LenProperties
<1> PICK b \in Nat : b = Len(t)
  BY LenProperties
<1> PICK v : v = Numbers(f, s)
  OBVIOUS
<1> PICK w : w = Numbers(f, t)
  OBVIOUS
<1> PICK x : x = Numbers(f, s \o t)
  OBVIOUS
<1>1. v \in Seq(Nat) /\ Len(v) = a
  BY NumbersAre
<1>2. w \in Seq(Nat) /\ Len(w) = b
  BY NumbersAre
<1> PICK r : r = s \o t
  OBVIOUS
<1>3. /\ r \in Seq(S) /\ Len(r) = a + b
      /\ \A i \in 1 .. a : r[i] = s[i]
      /\ \A i \in 1 .. b : r[a + i] = t[i]
  BY ConcatIs
<1>4. x \in Seq(Nat) /\ Len(x) = a + b
  BY <1>3, NumbersAre
<1> PICK y : y = v \o w
  OBVIOUS
<1>5. /\ y \in Seq(Nat) /\ Len(y) = a + b
      /\ \A i \in 1 .. a : y[i] = v[i]
      /\ \A i \in 1 .. b : y[a + i] = w[i]
  <2>1. /\ v \o w \in Seq(Nat) /\ Len(v \o w) = Len(v) + Len(w)
        /\ \A i \in 1 .. Len(v) : (v \o w)[i] = v[i]
        /\ \A i \in 1 .. Len(w) : (v \o w)[Len(v) + i] = w[i]
    <3>1. v \in Seq(Nat) /\ w \in Seq(Nat)
      BY <1>1, <1>2
    <3> QED
      BY <3>1, ConcatIs
  <2> QED
    BY <1>1, <1>2, <2>1
<1>6. \A i \in 1 .. a + b : x[i] = y[i]
  <2> SUFFICES ASSUME NEW i \in 1 .. a + b
               PROVE  x[i] = y[i]
    OBVIOUS
  <2>1. x[i] = f[r[i]].bytes
    BY <1>3 DEF Numbers
  <2>4. \A j \in 1 .. a : v[j] = f[s[j]].bytes
    BY DEF Numbers
  <2>5. \A j \in 1 .. b : w[j] = f[t[j]].bytes
    BY DEF Numbers
  <2>2. CASE i <= a
    <3>1. i \in 1 .. a /\ v[i] = f[s[i]].bytes
      BY <2>2, <2>4
    <3> QED
      BY <1>3, <1>5, <2>1, <3>1
  <2>3. CASE ~(i <= a)
    <3>1. i - a \in 1 .. b /\ a + (i - a) = i
      BY <2>3
    <3>2. w[i - a] = f[t[i - a]].bytes
      BY <2>5, <3>1
    <3>3. r[i] = t[i - a] /\ y[i] = w[i - a]
      BY <1>3, <1>5, <3>1
    <3> QED
      BY <2>1, <3>2, <3>3
  <2> QED
    BY <2>2, <2>3
<1>7. x = y
  BY <1>4, <1>5, <1>6, SeqEqual
<1>8. SumOf(v) \in Nat /\ SumOf(w) \in Nat /\ SumOf(v \o w) = SumOf(v) + SumOf(w)
  BY <1>1, <1>2, SumConcat
<1> QED
  BY <1>7, <1>8 DEF WeightOf

LEMMA NothingWeighs ==
    ASSUME NEW f
    PROVE  WeightOf(f, <<>>) = 0
<1>1. Numbers(f, <<>>) = <<>>
  BY DEF Numbers
<1> QED
  BY <1>1, SumOfFew DEF WeightOf

LEMMA WeightOfOne ==
    ASSUME NEW f, NEW e, f[e].bytes \in Nat
    PROVE  WeightOf(f, <<e>>) = f[e].bytes
<1> PICK s : s = <<e>>
  OBVIOUS
<1>2. Len(s) = 1 /\ s[1] = e
  OBVIOUS
<1>3. Numbers(f, s) = [i \in 1 .. 1 |-> f[e].bytes]
  <2>1. \A i \in 1 .. 1 : f[s[i]].bytes = f[e].bytes
    BY <1>2
  <2> QED
    BY <1>2, <2>1 DEF Numbers
<1>4. [i \in 1 .. 1 |-> f[e].bytes] = <<f[e].bytes>>
  OBVIOUS
<1> QED
  BY <1>3, <1>4, SumOfFew DEF WeightOf

LEMMA WeightSame ==
    ASSUME NEW S, NEW s \in Seq(S), NEW f, NEW g, \A x \in S : f[x].bytes = g[x].bytes
    PROVE  WeightOf(f, s) = WeightOf(g, s)
<1> PICK n \in Nat : n = Len(s)
  BY LenProperties
<1>1. \A i \in 1 .. n : f[s[i]].bytes = g[s[i]].bytes
  BY ElementOfSeq
<1>2. Numbers(f, s) = Numbers(g, s)
  BY <1>1 DEF Numbers
<1> QED
  BY <1>2 DEF WeightOf

LEMMA WeightWithout ==
    ASSUME NEW S, NEW s \in Seq(S), NEW f, \A x \in S : f[x].bytes \in Nat, NEW e \in ToSet(s)
    PROVE  WeightOf(f, s) = WeightOf(f, RemoveFirst(s, e)) + f[e].bytes
<1>1. e \in S
  BY InPlaces, ElementOfSeq
<1>2. PICK p \in Seq(S), q \in Seq(S) : s = (p \o <<e>>) \o q /\ e \notin ToSet(p)
  BY FirstSplits
<1>3. RemoveFirst(s, e) = p \o q
  BY <1>1, <1>2, RemovesTheFirst
<1>4. <<e>> \in Seq(S)
  BY <1>1, OneElement
<1>5. PICK l : l = p \o <<e>>
  OBVIOUS
<1>6. l \in Seq(S)
  BY <1>4, <1>5, ConcatProperties
<1>7. WeightOf(f, l \o q) = WeightOf(f, l) + WeightOf(f, q)
  BY <1>6, WeightConcat
<1>8. WeightOf(f, p \o <<e>>) = WeightOf(f, p) + WeightOf(f, <<e>>)
  BY <1>4, WeightConcat
<1>9. WeightOf(f, <<e>>) = f[e].bytes /\ f[e].bytes \in Nat
  BY <1>1, WeightOfOne
<1>10. /\ WeightOf(f, p) \in Nat /\ WeightOf(f, q) \in Nat
       /\ WeightOf(f, p \o q) = WeightOf(f, p) + WeightOf(f, q)
  BY WeightConcat
<1>11. /\ s = l \o q
       /\ WeightOf(f, l) = WeightOf(f, p) + f[e].bytes
       /\ WeightOf(f, RemoveFirst(s, e)) = WeightOf(f, p) + WeightOf(f, q)
  BY <1>2, <1>3, <1>5, <1>8, <1>9, <1>10
<1>12. WeightOf(f, s) = WeightOf(f, l) + WeightOf(f, q)
  BY <1>7, <1>11
<1> QED
  BY <1>9, <1>10, <1>11, <1>12

-----------------------------------------------------------------------------
(* The cache of previews: the queue of the keys.                            *)

LEMMA ShorterWithout ==
    ASSUME NEW S, NEW s \in Seq(S), NEW e
    PROVE  /\ Len(RemoveFirst(s, e)) \in Nat
           /\ Len(RemoveFirst(s, e)) <= Len(s)
           /\ e \in ToSet(s) => Len(RemoveFirst(s, e)) + 1 = Len(s)
<1>1. CASE e \notin ToSet(s)
  BY <1>1, NothingToRemove, LenProperties
<1>2. CASE e \in ToSet(s)
  <2>1. e \in S
    BY <1>2, InPlaces, ElementOfSeq
  <2>2. PICK p \in Seq(S), q \in Seq(S) : s = (p \o <<e>>) \o q /\ e \notin ToSet(p)
    BY <1>2, FirstSplits
  <2>3. RemoveFirst(s, e) = p \o q
    BY <2>1, <2>2, RemovesTheFirst
  <2>4. PICK one : one = <<e>>
    OBVIOUS
  <2>5. one \in Seq(S)
    BY <2>1, <2>4, OneElement
  <2>6. Len(one) = 1
    BY <2>4
  <2>7. p \o one \in Seq(S) /\ Len(p \o one) = Len(p) + Len(one)
    BY <2>5, ConcatProperties
  <2>8. PICK l : l = p \o one
    OBVIOUS
  <2>9. l \in Seq(S)
    BY <2>7, <2>8
  <2>10. Len(l \o q) = Len(l) + Len(q)
    BY <2>9, ConcatProperties
  <2>11. Len(p \o q) = Len(p) + Len(q) /\ Len(p) \in Nat /\ Len(q) \in Nat
    BY ConcatProperties, LenProperties
  <2>12. s = l \o q /\ Len(l) = Len(p) + 1
    BY <2>2, <2>4, <2>6, <2>7, <2>8
  <2>13. Len(s) = (Len(p) + 1) + Len(q)
    BY <2>10, <2>12
  <2> QED
    BY <2>3, <2>11, <2>13
<1> QED
  BY <1>1, <1>2

\* An element that joins the end of a queue it is not in.
LEMMA JoinsTheEnd ==
    ASSUME NEW S, NEW s \in Seq(S), IsInjective(s), NEW e \in S, e \notin ToSet(s)
    PROVE  /\ Append(s, e) \in Seq(S) /\ IsInjective(Append(s, e))
           /\ ToSet(Append(s, e)) = ToSet(s) \cup {e}
           /\ Append(s, e) = s \o <<e>>
<1> PICK one : one = <<e>>
  OBVIOUS
<1>1. one \in Seq(S) /\ ToSet(one) = {e} /\ IsInjective(one)
  BY OneElement
<1>2. one \in Seq(S)
  BY <1>1
<1>3. s \o one \in Seq(S)
  BY <1>2, ConcatProperties
<1>4. ToSet(s \o one) = ToSet(s) \cup ToSet(one)
  <2>1. \A t \in Seq(S) : ToSet(s \o t) = ToSet(s) \cup ToSet(t)
    BY InSomePart
  <2> QED
    BY <1>2, <2>1
<1>5. IsInjective(s \o one) <=>
          IsInjective(s) /\ IsInjective(one) /\ ToSet(s) \cap ToSet(one) = {}
  BY <1>2, OnceInSomePart
<1>6. Append(s, e) = s \o one
  BY AppendIsConcat
<1> QED
  BY <1>1, <1>3, <1>4, <1>5, <1>6

\* The elements of a queue, and a queue that ends with them.
LEMMA ElementsAre ==
    ASSUME NEW S, NEW s \in Seq(S)
    PROVE  s \in Seq(ToSet(s)) /\ ToSet(s) \subseteq S
<1> PICK n \in Nat : n = Len(s)
  BY LenProperties
<1>1. s \in [1 .. n -> S]
  BY LenProperties
<1>2. \A i \in 1 .. n : s[i] \in ToSet(s)
  BY InPlaces
<1>3. s \in [1 .. n -> ToSet(s)]
  BY <1>1, <1>2
<1> QED
  BY <1>1, <1>3, InPlaces, ElementOfSeq

LEMMA ReversedIs ==
    ASSUME NEW S, NEW s \in Seq(S)
    PROVE  /\ Reverse(s) \in Seq(S) /\ Len(Reverse(s)) = Len(s)
           /\ \A i \in 1 .. Len(s) : Reverse(s)[i] = s[Len(s) - i + 1]
<1> PICK n \in Nat : n = Len(s)
  BY LenProperties
<1>1. \A i \in 1 .. n : n - i + 1 \in 1 .. n
  OBVIOUS
<1>2. \A i \in 1 .. n : s[n - i + 1] \in S
  BY <1>1, ElementOfSeq
<1>3. Reverse(s) = [i \in 1 .. n |-> s[n - i + 1]]
  BY DEF Reverse
<1> QED
  BY <1>2, <1>3

LEMMA EndsWith ==
    ASSUME NEW S, NEW s \in Seq(S), NEW t \in Seq(S)
    PROVE  IsSuffix(t, s \o t)
<1> PICK a \in Nat : a = Len(s)
  BY LenProperties
<1> PICK b \in Nat : b = Len(t)
  BY LenProperties
<1> PICK r : r = s \o t
  OBVIOUS
<1>1. /\ r \in Seq(S) /\ Len(r) = a + b
      /\ \A i \in 1 .. b : r[a + i] = t[i]
  BY ConcatIs
<1> PICK u : u = Reverse(t)
  OBVIOUS
<1> PICK v : v = Reverse(r)
  OBVIOUS
<1>2. u \in Seq(S) /\ Len(u) = b /\ \A i \in 1 .. b : u[i] = t[b - i + 1]
  BY ReversedIs
<1>3. v \in Seq(S) /\ Len(v) = a + b /\ \A i \in 1 .. a + b : v[i] = r[(a + b) - i + 1]
  <2>1. PICK c \in Nat : c = a + b
    OBVIOUS
  <2>2. r \in Seq(S)
    BY <1>1
  <2>3. v \in Seq(S) /\ Len(v) = Len(r) /\ \A i \in 1 .. Len(r) : v[i] = r[Len(r) - i + 1]
    BY <2>2, ReversedIs
  <2> QED
    BY <1>1, <2>3
<1>4. \A i \in 1 .. b : u[i] = v[i]
  <2> SUFFICES ASSUME NEW i \in 1 .. b
               PROVE  u[i] = v[i]
    OBVIOUS
  <2>1. i \in 1 .. a + b /\ b - i + 1 \in 1 .. b /\ (a + b) - i + 1 = a + (b - i + 1)
    OBVIOUS
  <2> QED
    BY <1>1, <1>2, <1>3, <2>1
<1>5. SubSeq(u, 1, b) = SubSeq(v, 1, b)
  <2>1. \A i \in 1 .. b : u[i] \in S /\ v[i] \in S
    BY <1>2, <1>4, ElementOfSeq
  <2>2. PICK x : x = SubSeq(u, 1, b)
    OBVIOUS
  <2>3. PICK y : y = SubSeq(v, 1, b)
    OBVIOUS
  <2>4. /\ SubSeq(u, 1, b) \in Seq(S) /\ Len(SubSeq(u, 1, b)) = IF 1 <= b THEN b - 1 + 1 ELSE 0
        /\ \A i \in 1 .. b - 1 + 1 : SubSeq(u, 1, b)[i] = u[1 + i - 1]
    BY <2>1, SubSeqProperties
  <2>5. /\ SubSeq(v, 1, b) \in Seq(S) /\ Len(SubSeq(v, 1, b)) = IF 1 <= b THEN b - 1 + 1 ELSE 0
        /\ \A i \in 1 .. b - 1 + 1 : SubSeq(v, 1, b)[i] = v[1 + i - 1]
    BY <2>1, SubSeqProperties
  <2>6. x \in Seq(S) /\ Len(x) = b /\ \A i \in 1 .. b : x[i] = u[i]
    BY <2>2, <2>4
  <2>7. y \in Seq(S) /\ Len(y) = b /\ \A i \in 1 .. b : y[i] = v[i]
    BY <2>3, <2>5
  <2>8. x = y
    BY <1>4, <2>6, <2>7, SeqEqual
  <2> QED
    BY <2>2, <2>3, <2>8
<1>6. IsPrefix(u, v)
  BY <1>2, <1>3, <1>5 DEF IsPrefix
<1> QED
  BY <1>6 DEF IsSuffix

\* No more elements than places.
LEMMA NoMoreThanPlaces ==
    ASSUME NEW S, NEW s \in Seq(S)
    PROVE  Cardinality(ToSet(s)) <= Len(s)
<1> PICK n \in Nat : n = Len(s)
  BY LenProperties
<1>1. ToSet(s) = {s[i] : i \in 1 .. n}
  BY LenProperties DEF ToSet
<1> DEFINE f == [i \in 1 .. n |-> s[i]]
           T == {s[i] : i \in 1 .. n}
<1>2. f \in Surjection(1 .. n, T)
  BY DEF Surjection
<1>3. ExistsSurjection(1 .. n, T)
  BY <1>2 DEF ExistsSurjection
<1> HIDE DEF f, T
<1>4. Cardinality(T) <= n
  BY <1>3, FS_SurjCardinalityBound
<1> QED
  BY <1>1, <1>4 DEF T

LEMMA PlacesAreFew ==
    ASSUME NEW S, NEW s \in Seq(S)
    PROVE  IsFiniteSet(ToSet(s))
<1> PICK n \in Nat : n = Len(s)
  BY LenProperties
<1>1. s \in [1 .. n -> ToSet(s)] /\ \A e \in ToSet(s) : \E i \in 1 .. n : s[i] = e
  BY LenProperties, InPlaces
<1>2. s \in Surjection(1 .. n, ToSet(s))
  BY <1>1 DEF Surjection
<1>3. IsFiniteSet(1 .. n)
  BY FS_Interval
<1> QED
  BY <1>2, <1>3, FS_Surjection

-----------------------------------------------------------------------------
(* The cache of previews: the inductive invariant.                          *)

\* What is cached is the end of what was used, whole, within the limits, and
\* counted.
CacheSound ==
    /\ lru \in Seq(Keys) /\ IsInjective(lru)
    /\ entries \in [ToSet(lru) -> [bytes : Nat, whole : BOOLEAN]]
    /\ bytes = WeightOf(entries, lru) /\ bytes <= ByteLimit
    /\ Len(lru) <= EntryLimit
    /\ used \in Seq(Keys) /\ IsInjective(used)
    /\ EndsIn(Keys, used, lru)
    /\ CachedIsWhole

RequestsAreTyped ==
    /\ stored \subseteq Large
    /\ job \in {NoJob} \cup [stage : {"started"}, key : Keys]
                \cup [stage : {"prepared"}, key : Keys, bytes : Nat, whole : BOOLEAN]

CacheInv == CacheSound /\ RequestsAreTyped

LEMMA CachedWeigh ==
    ASSUME CacheSound
    PROVE  /\ lru \in Seq(ToSet(lru))
           /\ \A x \in ToSet(lru) : entries[x].bytes \in Nat
           /\ bytes \in Nat
           /\ \A s : Weight(s) = WeightOf(entries, s)
<1> PICK l : l = lru
  OBVIOUS
<1> PICK f : f = entries
  OBVIOUS
<1>1. l \in Seq(Keys) /\ f \in [ToSet(l) -> [bytes : Nat, whole : BOOLEAN]]
  BY DEF CacheSound
<1>2. l \in Seq(ToSet(l))
  BY <1>1, ElementsAre
<1>3. \A x \in ToSet(l) : f[x].bytes \in Nat
  BY <1>1
<1>4. WeightOf(f, l) \in Nat
  BY <1>2, <1>3, WeightConcat
<1>5. bytes \in Nat
  BY <1>4 DEF CacheSound
<1>6. \A s : Weight(s) = WeightOf(entries, s)
  BY DEF Weight, WeightOf, Numbers
<1> QED
  BY <1>2, <1>3, <1>5, <1>6

\* The loop ends with room for the preview.
LEMMA EvictedIs ==
    ASSUME CacheLimits, EntryLimit # 0, NEW S, \A x \in S : entries[x].bytes \in Nat,
           NEW s \in Seq(S), NEW b \in Nat, b <= ByteLimit
    PROVE  \E n \in 0 .. Len(s) :
               /\ Evicted(s, Weight(s), b) = n
               /\ Weight(s) - Weight(SubSeq(s, 1, n)) + b <= ByteLimit
               /\ Len(s) - n < EntryLimit
<1> DEFINE enough == {n \in 0 .. Len(s) :
                         /\ Weight(s) - Weight(SubSeq(s, 1, n)) + b <= ByteLimit
                         /\ Len(s) - n < EntryLimit}
<1>1. PICK len \in Nat : len = Len(s)
  BY LenProperties
<1>2. SubSeq(s, 1, len) = s
  BY <1>1, SubSeqFull
<1>3. Weight(s) \in Nat
  <2>1. PICK f : f = entries
    OBVIOUS
  <2>2. WeightOf(f, s) \in Nat
    BY <2>1, WeightConcat
  <2> QED
    BY <2>1, <2>2 DEF Weight, WeightOf, Numbers
<1>4. len \in enough
  <2>1. Weight(s) - Weight(SubSeq(s, 1, len)) + b = b
    <3>1. Weight(SubSeq(s, 1, len)) = Weight(s)
      BY <1>2, Zenon
    <3>2. PICK w \in Nat : w = Weight(s)
      BY <1>3
    <3>3. w - w + b = b
      OBVIOUS
    <3> QED
      BY <3>1, <3>2, <3>3
  <2>2. len - len < EntryLimit
    BY DEF CacheLimits
  <2> QED
    BY <1>1, <2>1, <2>2
<1>5. PICK n \in enough : \A m \in enough : n <= m
  <2>1. enough \in SUBSET Nat /\ enough # {}
    BY <1>1, <1>4
  <2> HIDE DEF enough
  <2> QED
    BY <2>1, LeastNumber
<1> PICK e \in enough : e = CHOOSE i \in enough : \A m \in enough : i <= m
  BY <1>5
<1>6. Evicted(s, Weight(s), b) = e
  BY <1>4 DEF Evicted
<1> QED
  BY <1>6

\* A hit, and the queue of what was used: the key goes to the end.
LEMMA GoesToTheEnd ==
    ASSUME NEW S, NEW s \in Seq(S), IsInjective(s), NEW e \in S
    PROVE  LET t == Append(RemoveFirst(s, e), e) IN
           /\ t \in Seq(S) /\ IsInjective(t) /\ ToSet(t) = ToSet(s) \cup {e}
           /\ t = RemoveFirst(s, e) \o <<e>>
<1> PICK r : r = RemoveFirst(s, e)
  OBVIOUS
<1>1. r \in Seq(S) /\ IsInjective(r) /\ ToSet(r) = ToSet(s) \ {e}
  BY WithoutIs
<1>2. r \in Seq(S) /\ IsInjective(r) /\ e \notin ToSet(r)
  BY <1>1
<1>3. /\ Append(r, e) \in Seq(S) /\ IsInjective(Append(r, e))
      /\ ToSet(Append(r, e)) = ToSet(r) \cup {e}
      /\ Append(r, e) = r \o <<e>>
  BY <1>2, JoinsTheEnd
<1> QED
  BY <1>1, <1>3

\* The queue and what was used, when its first keys leave the queue, and with
\* more after both.
LEMMA EndsInLess ==
    ASSUME NEW S, NEW u, NEW p \in Seq(S), NEW q \in Seq(S), EndsIn(S, u, p \o q)
    PROVE  EndsIn(S, u, q)
<1>1. PICK older \in Seq(S) : u = older \o (p \o q)
  BY DEF EndsIn
<1>2. (older \o p) \o q = older \o (p \o q)
  BY ConcatAssociative
<1>3. older \o p \in Seq(S)
  BY ConcatProperties
<1> QED
  BY <1>1, <1>2, <1>3 DEF EndsIn

LEMMA EndsInMore ==
    ASSUME NEW S, NEW u, NEW q \in Seq(S), NEW d \in Seq(S), EndsIn(S, u, q)
    PROVE  EndsIn(S, u \o d, q \o d)
<1>1. PICK older \in Seq(S) : u = older \o q
  BY DEF EndsIn
<1>2. (older \o q) \o d = older \o (q \o d)
  BY ConcatAssociative
<1> QED
  BY <1>1, <1>2 DEF EndsIn

LEMMA HitIsSound ==
    ASSUME CacheSound, NEW k \in DOMAIN entries, Get(k), used' = Used(k)
    PROVE  CacheSound'
<1> PICK l : l = lru
  OBVIOUS
<1> PICK u : u = used
  OBVIOUS
<1> PICK f : f = entries
  OBVIOUS
<1> PICK r : r = RemoveFirst(l, k)
  OBVIOUS
<1>1. /\ l \in Seq(Keys) /\ IsInjective(l) /\ u \in Seq(Keys) /\ IsInjective(u)
      /\ f \in [ToSet(l) -> [bytes : Nat, whole : BOOLEAN]]
      /\ k \in ToSet(l)
  BY DEF CacheSound
<1>2. l \in Seq(Keys) /\ u \in Seq(Keys)
  BY <1>1
<1>3. k \in Keys
  BY <1>1, <1>2, InPlaces, ElementOfSeq
<1>4. /\ lru' = Append(r, k) /\ entries' = f /\ bytes' = bytes
      /\ used' = Append(RemoveFirst(u, k), k)
  BY DEF Get, Used, Without
<1>5. /\ Append(r, k) \in Seq(Keys) /\ IsInjective(Append(r, k))
      /\ ToSet(Append(r, k)) = ToSet(l) \cup {k}
      /\ Append(r, k) = r \o <<k>>
  BY <1>1, <1>2, <1>3, GoesToTheEnd
<1>6. /\ Append(RemoveFirst(u, k), k) \in Seq(Keys) /\ IsInjective(Append(RemoveFirst(u, k), k))
      /\ Append(RemoveFirst(u, k), k) = RemoveFirst(u, k) \o <<k>>
  <2>1. IsInjective(u)
    BY <1>1
  <2> QED
    BY <1>2, <1>3, <2>1, GoesToTheEnd
<1>7. /\ lru' \in Seq(Keys) /\ IsInjective(lru') /\ ToSet(lru') = ToSet(l)
      /\ used' \in Seq(Keys) /\ IsInjective(used')
  BY <1>1, <1>4, <1>5, <1>6
<1>8. entries' \in [ToSet(lru') -> [bytes : Nat, whole : BOOLEAN]]
  BY <1>1, <1>4, <1>7
<1>9. WeightOf(f, r \o <<k>>) = WeightOf(f, l)
  <2>1. l \in Seq(ToSet(l)) /\ \A x \in ToSet(l) : f[x].bytes \in Nat
    BY CachedWeigh
  <2>2. l \in Seq(ToSet(l))
    BY <2>1
  <2>3. r \in Seq(ToSet(l)) /\ <<k>> \in Seq(ToSet(l))
    <3>1. RemoveFirst(l, k) \in Seq(ToSet(l))
      BY <1>1, <2>2, WithoutIs
    <3>2. <<k>> \in Seq(ToSet(l))
      BY <1>1, OneElement
    <3> QED
      BY <3>1, <3>2
  <2>4. WeightOf(f, r \o <<k>>) = WeightOf(f, r) + WeightOf(f, <<k>>)
    <3>1. \A x \in ToSet(l) : f[x].bytes \in Nat
      BY <2>1
    <3>2. \A s, t \in Seq(ToSet(l)) : WeightOf(f, s \o t) = WeightOf(f, s) + WeightOf(f, t)
      BY <3>1, WeightConcat
    <3> QED
      BY <2>3, <3>2
  <2>5. WeightOf(f, <<k>>) = f[k].bytes
    BY <1>1, <2>1, WeightOfOne
  <2>6. WeightOf(f, l) = WeightOf(f, RemoveFirst(l, k)) + f[k].bytes
    BY <1>1, <2>1, WeightWithout
  <2> QED
    BY <2>4, <2>5, <2>6
<1>10. bytes' = WeightOf(entries', lru') /\ bytes' <= ByteLimit
  BY <1>4, <1>5, <1>9 DEF CacheSound
<1>11. Len(lru') <= EntryLimit
  <2>1. Len(RemoveFirst(l, k)) \in Nat /\ Len(RemoveFirst(l, k)) + 1 = Len(l)
    BY <1>1, <1>2, ShorterWithout
  <2>2. r \in Seq(Keys)
    BY <1>1, <1>2, WithoutIs
  <2>3. Len(Append(r, k)) = Len(r) + 1
    BY <1>3, <2>2, AppendProperties
  <2> QED
    BY <1>4, <2>1, <2>3 DEF CacheSound
<1>12. EndsIn(Keys, used', lru')
  <2>1. EndsIn(Keys, u, l) /\ IsInjective(u)
    BY <1>1 DEF CacheSound
  <2>2. EndsIn(Keys, RemoveFirst(u, k), r)
    BY <1>2, <2>1, WithoutTail
  <2>3. r \in Seq(Keys) /\ <<k>> \in Seq(Keys)
    BY <1>1, <1>2, <1>3, WithoutIs, OneElement
  <2>4. EndsIn(Keys, RemoveFirst(u, k) \o <<k>>, r \o <<k>>)
    BY <2>2, <2>3, EndsInMore
  <2> QED
    BY <1>4, <1>5, <1>6, <2>4
<1>13. CachedIsWhole'
  BY <1>4 DEF CacheSound, CachedIsWhole
<1> QED
  BY <1>7, <1>8, <1>10, <1>11, <1>12, <1>13 DEF CacheSound

LEMMA SplitsAt ==
    ASSUME NEW S, NEW s \in Seq(S), NEW n \in 0 .. Len(s)
    PROVE  /\ SubSeq(s, 1, n) \in Seq(S) /\ SubSeq(s, n + 1, Len(s)) \in Seq(S)
           /\ SubSeq(s, 1, n) \o SubSeq(s, n + 1, Len(s)) = s
           /\ Len(SubSeq(s, n + 1, Len(s))) = Len(s) - n
<1> PICK len \in Nat : len = Len(s)
  BY LenProperties
<1>1. \A i \in 1 .. len : s[i] \in S
  BY ElementOfSeq
<1>2. SubSeq(s, 1, n) \in Seq(S)
  <2>1. \A i \in 1 .. n : s[i] \in S
    BY <1>1
  <2> QED
    BY <2>1, SubSeqProperties
<1>3. SubSeq(s, n + 1, len) \in Seq(S) /\ Len(SubSeq(s, n + 1, len)) = len - n
  <2>1. \A i \in n + 1 .. len : s[i] \in S
    BY <1>1
  <2>2. PICK m \in Int : m = n + 1
    OBVIOUS
  <2>3. /\ SubSeq(s, m, len) \in Seq(S)
        /\ Len(SubSeq(s, m, len)) = IF m <= len THEN len - m + 1 ELSE 0
    BY <2>1, <2>2, SubSeqProperties
  <2> QED
    BY <2>2, <2>3
<1>4. SubSeq(s, 1, n) \o SubSeq(s, n + 1, len) = SubSeq(s, 1, len)
  <2>1. 1 \in 1 .. len + 1 /\ n \in 1 - 1 .. len /\ len \in n .. len
    OBVIOUS
  <2> QED
    BY <2>1, ConcatAdjacentSubSeq
<1>5. SubSeq(s, 1, len) = s
  BY SubSeqFull
<1> QED
  BY <1>2, <1>3, <1>4, <1>5

\* What the queue weighs with a key after it, when the others weigh the same.
LEMMA WeightAdded ==
    ASSUME NEW S, NEW s \in Seq(S), NEW f, NEW g, NEW e,
           \A x \in S : f[x].bytes = g[x].bytes /\ g[x].bytes \in Nat, g[e].bytes \in Nat
    PROVE  WeightOf(g, s \o <<e>>) = WeightOf(f, s) + g[e].bytes
<1>1. WeightOf(f, s) = WeightOf(g, s)
  BY WeightSame
<1>2. PICK T : T = S \cup {e}
  OBVIOUS
<1>3. e \in T
  BY <1>2
<1>4. s \in Seq(T) /\ <<e>> \in Seq(T)
  BY <1>2, <1>3, SeqMonotonic, OneElement
<1>5. \A x \in T : g[x].bytes \in Nat
  BY <1>2
<1>6. WeightOf(g, s \o <<e>>) = WeightOf(g, s) + WeightOf(g, <<e>>)
  BY <1>4, <1>5, WeightConcat
<1>7. WeightOf(g, <<e>>) = g[e].bytes
  BY WeightOfOne
<1> QED
  BY <1>1, <1>6, <1>7

\* What stays of the queue when its first keys leave it.
LEMMA KeptIs ==
    ASSUME NEW S, NEW p \in Seq(S), NEW q \in Seq(S), NEW e \in S,
           IsInjective(p \o q), e \notin ToSet(p \o q)
    PROVE  /\ ToSet(q) \subseteq ToSet(p \o q)
           /\ Append(q, e) \in Seq(S) /\ IsInjective(Append(q, e))
           /\ ToSet(Append(q, e)) = ToSet(q) \cup {e}
           /\ Append(q, e) = q \o <<e>>
<1>1. ToSet(p \o q) = ToSet(p) \cup ToSet(q)
  BY InSomePart
<1>2. IsInjective(q)
  BY OnceInSomePart
<1>3. e \notin ToSet(q)
  BY <1>1
<1> QED
  BY <1>1, <1>2, <1>3, JoinsTheEnd

LEMMA StoreIsSound ==
    ASSUME CacheLimits, CacheSound, NEW k \in Keys, NEW b \in Nat, Insert(k, b, TRUE),
           used' = IF b > ByteLimit \/ EntryLimit = 0 THEN Without(used, k) ELSE Used(k)
    PROVE  CacheSound'
<1>l. PICK l : l = lru
  OBVIOUS
<1>u. PICK u : u = used
  OBVIOUS
<1>f. PICK f : f = entries
  OBVIOUS
<1>r. PICK r : r = RemoveFirst(l, k)
  OBVIOUS
<1>1. /\ IsInjective(l) /\ IsInjective(u) /\ EndsIn(Keys, u, l)
      /\ f \in [ToSet(l) -> [bytes : Nat, whole : BOOLEAN]] /\ DOMAIN f = ToSet(l)
      /\ \A x \in ToSet(l) : f[x].bytes \in Nat
  BY <1>l, <1>u, <1>f, CachedWeigh DEF CacheSound
<1>2. l \in Seq(Keys) /\ u \in Seq(Keys)
  BY <1>l, <1>u DEF CacheSound
<1>3. l \in Seq(ToSet(l))
  BY <1>l, CachedWeigh
<1>4. r \in Seq(Keys) /\ r \in Seq(ToSet(l))
  <2>1. RemoveFirst(l, k) \in Seq(Keys)
    BY <1>1, <1>2, WithoutIs
  <2>2. RemoveFirst(l, k) \in Seq(ToSet(l))
    BY <1>1, <1>3, WithoutIs
  <2> QED
    BY <1>r, <2>1, <2>2
<1>5. IsInjective(r) /\ ToSet(r) = ToSet(l) \ {k}
  <2>1. IsInjective(RemoveFirst(l, k)) /\ ToSet(RemoveFirst(l, k)) = ToSet(l) \ {k}
    BY <1>1, <1>2, WithoutIs
  <2> QED
    BY <1>r, <2>1
<1>6. WeightOf(f, r) \in Nat
  <2>1. \A x \in ToSet(l) : f[x].bytes \in Nat
    BY <1>1
  <2>2. r \in Seq(ToSet(l))
    BY <1>4
  <2> QED
    BY <2>1, <2>2, WeightConcat
<1>7. bytes - (IF k \in DOMAIN f THEN f[k].bytes ELSE 0) = WeightOf(f, r)
  <2>1. bytes = WeightOf(f, l)
    BY <1>f, <1>l DEF CacheSound
  <2>2. CASE k \in ToSet(l)
    <3>1. \A x \in ToSet(l) : f[x].bytes \in Nat
      BY <1>1
    <3>2. WeightOf(f, l) = WeightOf(f, RemoveFirst(l, k)) + f[k].bytes
      BY <1>3, <2>2, <3>1, WeightWithout
    <3>3. WeightOf(f, l) = WeightOf(f, r) + f[k].bytes /\ f[k].bytes \in Nat
      BY <1>r, <2>2, <3>1, <3>2
    <3> QED
      BY <1>1, <1>6, <2>1, <2>2, <3>3
  <2>3. CASE k \notin ToSet(l)
    <3>1. RemoveFirst(l, k) = l
      BY <1>2, <2>3, NothingToRemove
    <3> QED
      BY <1>1, <1>6, <1>r, <2>1, <2>3, <3>1
  <2> QED
    BY <2>2, <2>3
<1>8. EndsIn(Keys, RemoveFirst(u, k), r)
  <2>1. IsInjective(u) /\ EndsIn(Keys, u, l)
    BY <1>1
  <2>2. EndsIn(Keys, RemoveFirst(u, k), RemoveFirst(l, k))
    BY <1>2, <2>1, WithoutTail
  <2> QED
    BY <1>r, <2>2
<1>9. Len(r) \in Nat /\ Len(r) <= EntryLimit /\ WeightOf(f, r) <= ByteLimit
  <2>1. Len(RemoveFirst(l, k)) \in Nat /\ Len(RemoveFirst(l, k)) <= Len(l)
    BY <1>2, ShorterWithout
  <2>2. Len(l) <= EntryLimit /\ Len(l) \in Nat
    BY <1>2, <1>l, LenProperties DEF CacheSound
  <2>3. WeightOf(f, r) <= bytes /\ bytes <= ByteLimit /\ bytes \in Nat
    <3>1. bytes <= ByteLimit /\ bytes \in Nat
      BY CachedWeigh DEF CacheSound
    <3>2. (IF k \in DOMAIN f THEN f[k].bytes ELSE 0) \in Nat
      BY <1>1
    <3> QED
      BY <1>6, <1>7, <3>1, <3>2
  <2> QED
    BY <1>6, <1>r, <2>1, <2>2, <2>3 DEF CacheLimits
<1>10. \A x \in ToSet(l) : f[x].whole
  BY <1>1, <1>f DEF CacheSound, CachedIsWhole
<1>11. CASE b > ByteLimit \/ EntryLimit = 0
  <2>g. PICK g : g = [x \in ToSet(r) |-> f[x]]
    OBVIOUS
  <2>1. lru' = r /\ entries' = g /\ bytes' = WeightOf(f, r) /\ used' = RemoveFirst(u, k)
    BY <1>7, <1>11, <1>l, <1>u, <1>f, <1>r, <2>g DEF Insert, Without
  <2>2. RemoveFirst(u, k) \in Seq(Keys) /\ IsInjective(RemoveFirst(u, k))
    <3>1. IsInjective(u)
      BY <1>1
    <3> QED
      BY <1>2, <3>1, WithoutIs
  <2>3. g \in [ToSet(r) -> [bytes : Nat, whole : BOOLEAN]] /\ \A x \in ToSet(r) : g[x].whole
    BY <1>1, <1>5, <1>10, <2>g
  <2>4. WeightOf(f, r) = WeightOf(g, r)
    <3>1. \A x \in ToSet(r) : f[x].bytes = g[x].bytes
      BY <2>g
    <3>2. r \in Seq(ToSet(r))
      BY <1>4, ElementsAre
    <3> QED
      BY <3>1, <3>2, WeightSame
  <2>5. CachedIsWhole'
    BY <2>1, <2>3 DEF CachedIsWhole
  <2> QED
    BY <1>4, <1>5, <1>8, <1>9, <2>1, <2>2, <2>3, <2>4, <2>5 DEF CacheSound
<1>12. CASE ~(b > ByteLimit \/ EntryLimit = 0)
  <2>1. PICK n \in 0 .. Len(r) :
            /\ Evicted(r, Weight(r), b) = n
            /\ Weight(r) - Weight(SubSeq(r, 1, n)) + b <= ByteLimit
            /\ Len(r) - n < EntryLimit
    <3>1. \A x \in ToSet(l) : entries[x].bytes \in Nat
      BY <1>1, <1>f
    <3>2. b <= ByteLimit /\ EntryLimit # 0
      BY <1>12 DEF CacheLimits
    <3>3. r \in Seq(ToSet(l))
      BY <1>4
    <3> QED
      BY <3>1, <3>2, <3>3, EvictedIs
  <2>g. PICK gone : gone = SubSeq(r, 1, n)
    OBVIOUS
  <2>k. PICK kept : kept = SubSeq(r, n + 1, Len(r))
    OBVIOUS
  <2>2. /\ gone \in Seq(Keys) /\ kept \in Seq(Keys) /\ gone \o kept = r
        /\ Len(kept) = Len(r) - n
    <3>1. r \in Seq(Keys)
      BY <1>4
    <3> QED
      BY <2>g, <2>k, <3>1, SplitsAt
  <2>3. gone \in Seq(ToSet(l)) /\ kept \in Seq(ToSet(l))
    <3>1. r \in Seq(ToSet(l))
      BY <1>4
    <3> QED
      BY <2>g, <2>k, <3>1, SplitsAt
  <2>4. gone \in Seq(Keys) /\ kept \in Seq(Keys)
    BY <2>2
  <2>5. IsInjective(gone \o kept) /\ k \notin ToSet(gone \o kept)
    BY <1>5, <2>2
  <2>6. /\ ToSet(kept) \subseteq ToSet(gone \o kept)
        /\ Append(kept, k) \in Seq(Keys) /\ IsInjective(Append(kept, k))
        /\ ToSet(Append(kept, k)) = ToSet(kept) \cup {k}
        /\ Append(kept, k) = kept \o <<k>>
    BY <2>4, <2>5, KeptIs
  <2>7. ToSet(kept) \subseteq ToSet(l) /\ k \notin ToSet(kept)
    BY <1>5, <2>2, <2>6
  <2>8. /\ WeightOf(f, gone) \in Nat /\ WeightOf(f, kept) \in Nat
        /\ WeightOf(f, gone \o kept) = WeightOf(f, gone) + WeightOf(f, kept)
    <3>1. \A x \in ToSet(l) : f[x].bytes \in Nat
      BY <1>1
    <3> QED
      BY <2>3, <3>1, WeightConcat
  <2>10. Weight(r) = WeightOf(f, r) /\ Weight(gone) = WeightOf(f, gone)
    BY <1>f, CachedWeigh
  <2>11. Evicted(r, WeightOf(f, r), b) = n
    BY <2>1, <2>10
  <2>9. WeightOf(f, r) - WeightOf(f, gone) + b = WeightOf(f, kept) + b
    BY <2>2, <2>8
  <2>12. WeightOf(f, kept) + b <= ByteLimit
    BY <2>1, <2>9, <2>10, <2>g
  <2>13. PICK g : g = [x \in ToSet(kept) \cup {k} |->
                        IF x = k THEN [bytes |-> b, whole |-> TRUE] ELSE f[x]]
    OBVIOUS
  <2>14. /\ lru' = Append(kept, k) /\ entries' = g
         /\ bytes' = WeightOf(f, kept) + b
         /\ used' = Append(RemoveFirst(u, k), k)
    <3>1. bytes - (IF k \in DOMAIN entries THEN entries[k].bytes ELSE 0) = WeightOf(f, r)
      BY <1>7, <1>f
    <3>2. used' = Append(RemoveFirst(u, k), k)
      BY <1>12, <1>u DEF Used, Without
    <3>3. /\ lru' = Append(SubSeq(r, n + 1, Len(r)), k)
          /\ entries' = [x \in ToSet(SubSeq(r, n + 1, Len(r))) \cup {k} |->
                            IF x = k THEN [bytes |-> b, whole |-> TRUE] ELSE entries[x]]
          /\ bytes' = WeightOf(f, r) - Weight(SubSeq(r, 1, n)) + b
      BY <1>12, <1>l, <1>r, <2>11, <3>1 DEF Insert, Without
    <3> QED
      BY <1>f, <2>9, <2>10, <2>13, <2>g, <2>k, <3>2, <3>3
  <2>15. /\ Append(RemoveFirst(u, k), k) \in Seq(Keys)
         /\ IsInjective(Append(RemoveFirst(u, k), k))
         /\ Append(RemoveFirst(u, k), k) = RemoveFirst(u, k) \o <<k>>
    <3>1. IsInjective(u)
      BY <1>1
    <3> QED
      BY <1>2, <3>1, GoesToTheEnd
  <2>16. /\ g \in [ToSet(kept) \cup {k} -> [bytes : Nat, whole : BOOLEAN]]
         /\ \A x \in ToSet(kept) \cup {k} : g[x].whole
    <3>1. \A x \in ToSet(kept) : f[x] \in [bytes : Nat, whole : BOOLEAN] /\ f[x].whole
      BY <1>1, <1>10, <2>7
    <3>2. [bytes |-> b, whole |-> TRUE] \in [bytes : Nat, whole : BOOLEAN]
      OBVIOUS
    <3> QED
      BY <2>13, <3>1, <3>2
  <2>17. WeightOf(g, kept \o <<k>>) = WeightOf(f, kept) + b
    <3>1. \A x \in ToSet(kept) : f[x].bytes = g[x].bytes /\ g[x].bytes \in Nat
      BY <1>1, <2>7, <2>13
    <3>2. g[k].bytes = b /\ g[k].bytes \in Nat
      BY <2>13
    <3>3. kept \in Seq(ToSet(kept))
      BY <2>4, ElementsAre
    <3>4. WeightOf(g, kept \o <<k>>) = WeightOf(f, kept) + g[k].bytes
      BY <3>1, <3>2, <3>3, WeightAdded
    <3> QED
      BY <3>2, <3>4
  <2>18. Len(Append(kept, k)) <= EntryLimit
    <3>1. Len(Append(kept, k)) = Len(kept) + 1
      BY <2>4, AppendProperties
    <3>2. Len(r) - n < EntryLimit /\ Len(kept) = Len(r) - n /\ Len(r) - n \in Int
      BY <1>9, <2>1, <2>2
    <3> QED
      BY <3>1, <3>2 DEF CacheLimits
  <2>19. EndsIn(Keys, RemoveFirst(u, k) \o <<k>>, kept \o <<k>>)
    <3>1. <<k>> \in Seq(Keys)
      BY OneElement
    <3>2. EndsIn(Keys, RemoveFirst(u, k), gone \o kept)
      BY <1>8, <2>2
    <3>3. EndsIn(Keys, RemoveFirst(u, k), kept)
      BY <2>4, <3>2, EndsInLess
    <3> QED
      BY <2>4, <3>1, <3>3, EndsInMore
  <2>20. EndsIn(Keys, used', lru')
    BY <2>6, <2>14, <2>15, <2>19
  <2>21. CachedIsWhole'
    BY <2>14, <2>16 DEF CachedIsWhole
  <2>22. bytes' = WeightOf(entries', lru') /\ bytes' <= ByteLimit
    BY <2>6, <2>12, <2>14, <2>17
  <2>23. /\ lru' \in Seq(Keys) /\ IsInjective(lru') /\ Len(lru') <= EntryLimit
         /\ entries' \in [ToSet(lru') -> [bytes : Nat, whole : BOOLEAN]]
         /\ used' \in Seq(Keys) /\ IsInjective(used')
    BY <2>6, <2>14, <2>15, <2>16, <2>18
  <2> QED
    BY <2>20, <2>21, <2>22, <2>23 DEF CacheSound
<1> QED
  BY <1>11, <1>12

LEMMA InitIsSound == ASSUME KeysAssumption, CacheLimits PROVE CacheInit => CacheInv
<1> SUFFICES ASSUME CacheInit PROVE CacheInv
  OBVIOUS
<1>1. <<>> \in Seq(Keys) /\ Len(<<>>) = 0 /\ ToSet(<<>>) = {} /\ IsInjective(<<>>)
  BY DEF ToSet, IsInjective
<1>2. lru = <<>> /\ used = <<>> /\ entries = [x \in {} |-> 0] /\ bytes = 0
  BY DEF CacheInit
<1>3. entries \in [{} -> [bytes : Nat, whole : BOOLEAN]]
  BY <1>2
<1>4. WeightOf(entries, <<>>) = 0
  BY NothingWeighs
<1>5. EndsIn(Keys, <<>>, <<>>)
  <2>1. <<>> \in Seq(Keys) /\ <<>> = <<>> \o <<>>
    BY <1>1, ConcatEmptySeq
  <2> QED
    BY <2>1 DEF EndsIn
<1>6. CachedIsWhole
  BY <1>2 DEF CachedIsWhole
<1>7. CacheSound
  BY <1>1, <1>2, <1>3, <1>4, <1>5, <1>6 DEF CacheSound, CacheLimits
<1>8. RequestsAreTyped
  BY DEF CacheInit, RequestsAreTyped
<1> QED
  BY <1>7, <1>8 DEF CacheInv

\* What the requests leave of the cache.
LEMMA SoundUnchanged == CacheSound /\ UNCHANGED <<cacheVars, used>> => CacheSound'
<1> SUFFICES ASSUME CacheSound, UNCHANGED <<cacheVars, used>>
             PROVE  CacheSound'
  OBVIOUS
<1>1. entries' = entries /\ lru' = lru /\ bytes' = bytes /\ used' = used
  BY DEF cacheVars
<1>2. CachedIsWhole'
  BY <1>1 DEF CacheSound, CachedIsWhole
<1> QED
  BY <1>1, <1>2 DEF CacheSound

LEMMA NextIsSound ==
    ASSUME KeysAssumption, CacheLimits PROVE CacheInv /\ [CacheNext]_previewVars => CacheInv'
<1> SUFFICES ASSUME CacheInv, [CacheNext]_previewVars
             PROVE  CacheInv'
  OBVIOUS
<1> USE DEF CacheInv
<1>1. ASSUME NEW k \in Keys, Start(k)
      PROVE  CacheInv'
  <2>1. CacheSound'
    BY <1>1, SoundUnchanged DEF Start
  <2>2. RequestsAreTyped'
    BY <1>1 DEF Start, RequestsAreTyped
  <2> QED
    BY <2>1, <2>2
<1>2. CASE Hit
  <2>1. job.key \in DOMAIN entries /\ Get(job.key) /\ used' = Used(job.key)
    BY <1>2 DEF Hit
  <2>2. PICK k \in DOMAIN entries : k = job.key
    BY <2>1
  <2>3. Get(k) /\ used' = Used(k)
    BY <2>1, <2>2
  <2>4. CacheSound'
    BY <2>3, HitIsSound
  <2>5. RequestsAreTyped'
    BY <1>2 DEF Hit, RequestsAreTyped
  <2> QED
    BY <2>4, <2>5
<1>3. CASE Prepare
  <2>1. CacheSound'
    BY <1>3, SoundUnchanged DEF Prepare
  <2>2. job.key \in Keys
    BY <1>3 DEF Prepare, RequestsAreTyped, NoJob
  <2>3. Prepared(job.key, Bytes[job.key], TRUE)
            \in [stage : {"prepared"}, key : Keys, bytes : Nat, whole : BOOLEAN]
    BY <2>2 DEF Prepared, KeysAssumption
  <2>4. Prepared(job.key, 1, FALSE)
            \in [stage : {"prepared"}, key : Keys, bytes : Nat, whole : BOOLEAN]
    BY <2>2 DEF Prepared
  <2>5. RequestsAreTyped'
    BY <1>3, <2>3, <2>4 DEF Prepare, RequestsAreTyped
  <2> QED
    BY <2>1, <2>5
<1>4. CASE Store
  <2>1. /\ job.stage = "prepared" /\ job.whole
        /\ Insert(job.key, job.bytes, job.whole)
        /\ used' = IF job.bytes > ByteLimit \/ EntryLimit = 0
                   THEN Without(used, job.key) ELSE Used(job.key)
    BY <1>4 DEF Store, Cacheable
  <2>2. job \in [stage : {"prepared"}, key : Keys, bytes : Nat, whole : BOOLEAN]
    BY <2>1 DEF RequestsAreTyped, NoJob
  <2>3. job.key \in Keys /\ job.bytes \in Nat /\ job.whole = TRUE
    BY <2>1, <2>2
  <2>4. PICK k \in Keys : k = job.key
    BY <2>3
  <2>5. PICK b \in Nat : b = job.bytes
    BY <2>3
  <2>6. /\ Insert(k, b, TRUE)
        /\ used' = IF b > ByteLimit \/ EntryLimit = 0 THEN Without(used, k) ELSE Used(k)
    BY <2>1, <2>3, <2>4, <2>5
  <2>7. CacheSound'
    BY <2>6, StoreIsSound
  <2>8. RequestsAreTyped'
    BY <1>4 DEF Store, RequestsAreTyped
  <2> QED
    BY <2>7, <2>8
<1>5. CASE Deliver \/ Supersede
  <2>1. CacheSound'
    BY <1>5, SoundUnchanged DEF Deliver, Supersede
  <2>2. RequestsAreTyped'
    BY <1>5 DEF Deliver, Supersede, RequestsAreTyped
  <2> QED
    BY <2>1, <2>2
<1>6. CASE Panic
  <2>1. <<>> \in Seq(Keys) /\ Len(<<>>) = 0 /\ ToSet(<<>>) = {} /\ IsInjective(<<>>)
    BY DEF ToSet, IsInjective
  <2>2. lru' = <<>> /\ used' = <<>> /\ entries' = [x \in {} |-> 0] /\ bytes' = 0
    BY <1>6 DEF Panic
  <2>3. entries' \in [{} -> [bytes : Nat, whole : BOOLEAN]]
    BY <2>2
  <2>4. WeightOf(entries', <<>>) = 0
    BY NothingWeighs
  <2>5. EndsIn(Keys, <<>>, <<>>)
    <3>1. <<>> \in Seq(Keys) /\ <<>> = <<>> \o <<>>
      BY <2>1, ConcatEmptySeq
    <3> QED
      BY <3>1 DEF EndsIn
  <2>6. CachedIsWhole'
    BY <2>2 DEF CachedIsWhole
  <2>7. CacheSound'
    BY <2>1, <2>2, <2>3, <2>4, <2>5, <2>6 DEF CacheSound, CacheLimits
  <2>8. RequestsAreTyped'
    BY <1>6 DEF Panic, RequestsAreTyped
  <2> QED
    BY <2>7, <2>8
<1>7. ASSUME NEW k \in Large, Download(k)
      PROVE  CacheInv'
  <2>1. CacheSound'
    BY <1>7, SoundUnchanged DEF Download
  <2>2. RequestsAreTyped'
    BY <1>7 DEF Download, RequestsAreTyped
  <2> QED
    BY <2>1, <2>2
<1>8. CASE UNCHANGED previewVars
  <2>1. CacheSound'
    BY <1>8, SoundUnchanged DEF previewVars
  <2>2. RequestsAreTyped'
    BY <1>8 DEF previewVars, RequestsAreTyped
  <2> QED
    BY <2>1, <2>2
<1> QED
  BY <1>1, <1>2, <1>3, <1>4, <1>5, <1>6, <1>7, <1>8 DEF CacheNext

LEMMA SoundKeepsMostRecent ==
    ASSUME CacheLimits PROVE CacheInv => KeepsMostRecent
<1> SUFFICES ASSUME CacheInv PROVE KeepsMostRecent
  OBVIOUS
<1>1. CacheSound /\ RequestsAreTyped
  BY DEF CacheInv
<1>2. /\ bytes \in Nat /\ Weight(lru) = WeightOf(entries, lru)
  BY <1>1, CachedWeigh
<1>3. CacheTypeOK
  BY <1>1, <1>2 DEF CacheSound, RequestsAreTyped, CacheTypeOK
<1>4. CountIsExact
  BY <1>1, <1>2 DEF CacheSound, CountIsExact
<1>5. WithinLimits
  <2>1. PICK l \in Seq(Keys) : l = lru
    BY <1>1 DEF CacheSound
  <2>2. Cardinality(ToSet(l)) <= Len(l)
    BY NoMoreThanPlaces
  <2>3. DOMAIN entries = ToSet(l) /\ Len(l) <= EntryLimit /\ bytes <= ByteLimit
    BY <1>1, <2>1 DEF CacheSound
  <2>4. Len(l) \in Nat
    BY LenProperties
  <2>5. Cardinality(ToSet(l)) \in Nat
    <3>1. IsFiniteSet(ToSet(l))
      BY PlacesAreFew
    <3> QED
      BY <3>1, FS_CardinalityType
  <2> QED
    BY <2>2, <2>3, <2>4, <2>5 DEF WithinLimits, CacheLimits
<1>6. NewestAreCached
  <2>1. PICK l \in Seq(Keys) : l = lru
    BY <1>1 DEF CacheSound
  <2>2. PICK older \in Seq(Keys) : used = older \o lru
    BY <1>1 DEF CacheSound, EndsIn
  <2>3. IsSuffix(l, older \o l)
    BY EndsWith
  <2> QED
    BY <2>1, <2>2, <2>3 DEF NewestAreCached
<1> QED
  BY <1>1, <1>3, <1>4, <1>5, <1>6 DEF CacheSound, KeepsMostRecent

(***************************************************************************)
(* The cache holds the previews used last, whole ones only, within both    *)
(* limits, and counts their bytes exactly, for any keys, sizes and limits  *)
(* (PreviewCache::get, remove and insert).                                 *)
(***************************************************************************)
THEOREM CacheKeepsMostRecent ==
    ASSUME KeysAssumption, CacheLimits PROVE CacheSpec => []KeepsMostRecent
<1>1. CacheInit => CacheInv
  BY InitIsSound
<1>2. CacheInv /\ [CacheNext]_previewVars => CacheInv'
  BY NextIsSound
<1>3. CacheInv => KeepsMostRecent
  BY SoundKeepsMostRecent
<1> QED
  BY <1>1, <1>2, <1>3, PTL DEF CacheSpec

-----------------------------------------------------------------------------
(* The pages of a comparison: the inductive invariant.                      *)

PageRequests == [doc : Docs, generation : 0 .. MaxGeneration, page : Nat]

PagesTyped ==
    /\ page \in [Docs -> Nat] /\ \A d \in Docs : page[d] \in Pages(d)
    /\ generation \in [Docs -> 0 .. MaxGeneration]
    /\ preparing \in [Docs -> BOOLEAN] /\ linked \in [Docs -> BOOLEAN] /\ shown \in BOOLEAN
    /\ error \in [Docs -> Nat]
    /\ queue \in Seq(PageRequests) /\ Len(queue) <= Capacity
    /\ rendering \in PageRequests \cup {NoPage}
    /\ answers \in SUBSET [request : PageRequests, ok : BOOLEAN]

\* What is live was asked for by this visit of the page or by an earlier one.
LiveIsOfVisit ==
    \A r \in Live :
        /\ r.generation <= generation[r.doc]
        /\ r.generation = generation[r.doc] => r.page = page[r.doc] /\ preparing[r.doc]

AwaitedIsLive == \A d \in Docs : preparing[d] => RequestOf(d) \in Live

\* A page is prepared while it is not kept, so that it is never kept twice.
AwaitedIsMissing == \A d \in Docs : preparing[d] => ~Keeps(d, page[d])

KeptIsSound ==
    /\ cache \in [Docs -> Seq(Nat)] /\ keptBytes \in [Docs -> Nat]
    /\ \A d \in Docs : IsInjective(cache[d]) /\ ToSet(cache[d]) \subseteq Pages(d)
    /\ CacheIsBounded

PagesInv ==
    /\ PagesTyped /\ LiveIsOfVisit /\ AwaitedIsLive /\ RequestedOnce
    /\ AwaitedIsMissing /\ KeptIsSound /\ ErrorIsOfPage /\ LinkedAgree

LEMMA RequestsAre ==
    ASSUME DocsAssumption, LaneAssumption, PagesTyped
    PROVE  /\ \A d \in Docs : RequestOf(d) \in PageRequests
           /\ Live \subseteq PageRequests
           /\ NoPage \notin PageRequests
           /\ \A r \in PageRequests : r = RequestOf(r.doc) <=>
                  r.generation = generation[r.doc] /\ r.page = page[r.doc]
<1>1. \A d \in Docs : RequestOf(d) \in PageRequests
  BY DEF PagesTyped, RequestOf, PageRequests
<1>2. NoPage \notin PageRequests
  BY DEF NoPage, PageRequests
<1>3. Live \subseteq PageRequests
  <2>1. ToSet(queue) \subseteq PageRequests
    BY ElementsAre DEF PagesTyped
  <2> QED
    BY <2>1 DEF Live, PagesTyped
<1>4. \A r \in PageRequests : r = RequestOf(r.doc) <=>
          r.generation = generation[r.doc] /\ r.page = page[r.doc]
  BY DEF RequestOf, PageRequests
<1> QED
  BY <1>1, <1>2, <1>3, <1>4

LEMMA InvIsRequested ==
    ASSUME DocsAssumption, LaneAssumption, PagesInv
    PROVE  PagesAreRequested
<1>1. PagesTypeOK
  BY DEF PagesInv, PagesTyped, KeptIsSound, ErrorIsOfPage, PagesTypeOK
<1>2. PendingIsRequested
  <2>1. \A d \in Docs : RequestOf(d) \in Live => preparing[d]
    BY DEF PagesInv, LiveIsOfVisit, RequestOf
  <2> QED
    BY <2>1 DEF PagesInv, AwaitedIsLive, PagesTyped, PendingIsRequested
<1> QED
  BY <1>1, <1>2 DEF PagesAreRequested, PagesInv, KeptIsSound

-----------------------------------------------------------------------------
(* Pages are turned                                                         *)

Untouched(d) ==
    /\ page'[d] = page[d] /\ generation'[d] = generation[d]
    /\ preparing'[d] = preparing[d] /\ error'[d] = error[d]

\* The visit of a page ends: what it asked for is nobody's.
Left(d) ==
    /\ generation'[d] = generation[d] + 1 /\ preparing'[d] = FALSE
    /\ page'[d] \in Pages(d)
    /\ \/ error'[d] = None
       \/ error'[d] = error[d] /\ page'[d] = page[d]

LEMMA VisitsEnd ==
    ASSUME DocsAssumption, LaneAssumption, PagesInv, UNCHANGED <<keptVars, laneVars>>,
           Bounded \/ \A d \in Docs : Untouched(d),
           \A d \in Docs : Untouched(d) \/ Left(d),
           page' = [d \in Docs |-> page'[d]],
           generation' = [d \in Docs |-> generation'[d]],
           preparing' = [d \in Docs |-> preparing'[d]], error' = [d \in Docs |-> error'[d]],
           linked' \in [Docs -> BOOLEAN], shown' \in BOOLEAN, LinkedAgree'
    PROVE  PagesInv'
<1>1. \A d \in Docs :
          /\ page[d] \in Pages(d) /\ generation[d] \in 0 .. MaxGeneration
          /\ preparing[d] \in BOOLEAN /\ error[d] \in Nat
  BY DEF PagesInv, PagesTyped
<1>2. PagesTyped'
  <2>1. \A d \in Docs : page'[d] \in Pages(d) /\ page'[d] \in Nat
    BY <1>1 DEF Untouched, Left, DocsAssumption, Pages
  <2>2. \A d \in Docs : generation'[d] \in 0 .. MaxGeneration
    BY <1>1 DEF Untouched, Left, Bounded, LaneAssumption
  <2>3. \A d \in Docs : preparing'[d] \in BOOLEAN
    BY <1>1 DEF Untouched, Left
  <2>6. \A d \in Docs : error'[d] \in Nat
    BY <1>1 DEF Untouched, Left, None
  <2>4. /\ page' \in [Docs -> Nat] /\ generation' \in [Docs -> 0 .. MaxGeneration]
        /\ preparing' \in [Docs -> BOOLEAN] /\ error' \in [Docs -> Nat]
    BY <2>1, <2>2, <2>3, <2>6
  <2>5. \A d \in Docs : Pages(d)' = Pages(d)
    BY DEF Pages
  <2> QED
    BY <2>1, <2>4, <2>5 DEF PagesInv, PagesTyped, laneVars
<1>3. Live' = Live /\ RequestedOnce'
  BY DEF PagesInv, Live, RequestedOnce, laneVars
<1>4. LiveIsOfVisit'
  <2> SUFFICES ASSUME NEW r \in Live
               PROVE  /\ r.generation <= generation'[r.doc]
                      /\ r.generation = generation'[r.doc] =>
                             r.page = page'[r.doc] /\ preparing'[r.doc]
    BY <1>3 DEF LiveIsOfVisit
  <2>1. r.doc \in Docs /\ r.generation \in Nat /\ r.generation <= generation[r.doc]
    BY RequestsAre DEF PagesInv, PageRequests, LiveIsOfVisit
  <2>2. CASE Untouched(r.doc)
    BY <2>2 DEF Untouched, PagesInv, LiveIsOfVisit
  <2>3. CASE Left(r.doc)
    <3>1. generation[r.doc] \in Nat /\ generation'[r.doc] = generation[r.doc] + 1
      BY <1>1, <2>1, <2>3 DEF Left, LaneAssumption
    <3> QED
      BY <2>1, <3>1
  <2> QED
    BY <2>1, <2>2, <2>3
<1>5. AwaitedIsLive'
  <2> SUFFICES ASSUME NEW d \in Docs, preparing'[d]
               PROVE  RequestOf(d)' \in Live
    BY <1>3 DEF AwaitedIsLive
  <2>1. Untouched(d)
    BY DEF Left
  <2> QED
    BY <2>1 DEF Untouched, PagesInv, AwaitedIsLive, RequestOf
<1>6. AwaitedIsMissing'
  <2> SUFFICES ASSUME NEW d \in Docs, preparing'[d]
               PROVE  ~Keeps(d, page[d])' 
    BY DEF AwaitedIsMissing
  <2>1. Untouched(d)
    BY DEF Left
  <2> QED
    BY <2>1 DEF Untouched, PagesInv, AwaitedIsMissing, Keeps, keptVars
<1>7. KeptIsSound'
  BY DEF PagesInv, KeptIsSound, CacheIsBounded, Weighed, Pages, keptVars
<1>8. ErrorIsOfPage'
  BY <1>1 DEF PagesInv, ErrorIsOfPage, Untouched, Left
<1> QED
  BY <1>2, <1>3, <1>4, <1>5, <1>6, <1>7, <1>8 DEF PagesInv

\* A document shows its last page when it has no such page.
LEMMA TargetIs ==
    ASSUME DocsAssumption, NEW d \in Docs, NEW p \in Nat
    PROVE  Target(d, p) \in Pages(d)
BY DEF DocsAssumption, Target, Pages

LEMMA PagesAre ==
    ASSUME DocsAssumption, NEW d \in Docs
    PROVE  Pages(d) \subseteq Nat
BY DEF DocsAssumption, Pages

LEMMA SelectIs ==
    ASSUME DocsAssumption, PagesInv, NEW followers \in SUBSET Docs, NEW p \in Nat,
           SelectIn(followers, p)
    PROVE  /\ page' = [d \in Docs |-> page'[d]]
           /\ generation' = [d \in Docs |-> generation'[d]]
           /\ preparing' = [d \in Docs |-> preparing'[d]] /\ error' = [d \in Docs |-> error'[d]]
           /\ \A d \in Docs : Untouched(d) \/ Left(d)
           /\ \A d \in followers : page'[d] = Target(d, p)
<1> DEFINE target == [x \in Docs |-> Target(x, p)]
           moved == {x \in followers : target[x] # page[x]}
<1>1. Turn(moved, target)
  BY DEF SelectIn
<1>2. /\ page' = [d \in Docs |-> IF d \in moved THEN target[d] ELSE page[d]]
      /\ generation' = [d \in Docs |-> IF d \in moved THEN generation[d] + 1 ELSE generation[d]]
      /\ preparing' = [d \in Docs |-> d \notin moved /\ preparing[d]]
      /\ error' = [d \in Docs |-> IF d \in moved THEN None ELSE error[d]]
  BY <1>1 DEF Turn
<1>3. ASSUME NEW d \in Docs, d \in moved
      PROVE  Left(d) /\ page'[d] = Target(d, p)
  <2>1. /\ page'[d] = Target(d, p) /\ generation'[d] = generation[d] + 1
        /\ preparing'[d] = FALSE /\ error'[d] = None
    BY <1>2, <1>3
  <2>2. Target(d, p) \in Pages(d)
    BY TargetIs
  <2> QED
    BY <2>1, <2>2 DEF Left
<1>4. ASSUME NEW d \in Docs, d \notin moved
      PROVE  Untouched(d) /\ (d \in followers => page'[d] = Target(d, p))
  <2>1. /\ page'[d] = page[d] /\ generation'[d] = generation[d] /\ error'[d] = error[d]
    BY <1>2, <1>4
  <2>2. preparing'[d] = preparing[d]
    <3>1. preparing'[d] = (TRUE /\ preparing[d])
      BY <1>2, <1>4, Zenon
    <3>2. preparing[d] \in BOOLEAN
      BY DEF PagesInv, PagesTyped
    <3> QED
      BY <3>1, <3>2
  <2>3. d \in followers => Target(d, p) = page[d]
    BY <1>4
  <2> QED
    BY <2>1, <2>2, <2>3 DEF Untouched
<1> HIDE DEF moved
<1>5. /\ page' = [d \in Docs |-> page'[d]] /\ generation' = [d \in Docs |-> generation'[d]]
      /\ preparing' = [d \in Docs |-> preparing'[d]] /\ error' = [d \in Docs |-> error'[d]]
  BY <1>2
<1> QED
  BY <1>3, <1>4, <1>5

LEMMA SelectInv ==
    ASSUME DocsAssumption, LaneAssumption, PagesInv, NEW d \in Docs, NEW p \in Pages(d),
           Select(d, p)
    PROVE  PagesInv'
<1> DEFINE followers == IF linked[d] THEN Docs ELSE {d}
<1>1. p \in Nat /\ followers \in SUBSET Docs
  BY PagesAre
<1>2. SelectIn(followers, p) /\ Bounded /\ UNCHANGED <<keptVars, laneVars>>
      /\ linked' = linked /\ shown' = shown
  BY DEF Select
<1>3. /\ page' = [x \in Docs |-> page'[x]] /\ generation' = [x \in Docs |-> generation'[x]]
      /\ preparing' = [x \in Docs |-> preparing'[x]] /\ error' = [x \in Docs |-> error'[x]]
      /\ \A x \in Docs : Untouched(x) \/ Left(x)
      /\ \A x \in followers : page'[x] = Target(x, p)
  <2> HIDE DEF followers
  <2> QED
    BY <1>1, <1>2, SelectIs
<1>4. LinkedAgree'
  <2> SUFFICES ASSUME \A x \in Docs : linked[x]
               PROVE  \E w \in UNION {Pages(x) : x \in Docs} : \A x \in Docs : page'[x] = Target(x, w)
    BY <1>2 DEF LinkedAgree, Pages, Target
  <2>1. \A x \in Docs : page'[x] = Target(x, p)
    BY <1>3
  <2> QED
    BY <2>1
<1>5. linked' \in [Docs -> BOOLEAN] /\ shown' \in BOOLEAN
  BY <1>2 DEF PagesInv, PagesTyped
<1> QED
  BY <1>2, <1>3, <1>4, <1>5, VisitsEnd

LEMMA LinkInv ==
    ASSUME DocsAssumption, LaneAssumption, PagesInv, NEW d \in Docs, Link(d)
    PROVE  PagesInv'
<1>1. /\ Bounded /\ UNCHANGED <<keptVars, laneVars>> /\ shown' = shown
      /\ linked' = [x \in Docs |-> ~linked[d]]
      /\ IF linked[d] THEN UNCHANGED navVars ELSE SelectIn(Docs, page[d])
  BY DEF Link
<1>2. linked' \in [Docs -> BOOLEAN] /\ shown' \in BOOLEAN
  BY <1>1 DEF PagesInv, PagesTyped
<1>3. CASE linked[d]
  <2>1. ~linked'[d]
    BY <1>1, <1>3
  <2>2. LinkedAgree'
    BY <2>1 DEF LinkedAgree
  <2>3. /\ page' = [x \in Docs |-> page'[x]] /\ generation' = [x \in Docs |-> generation'[x]]
        /\ preparing' = [x \in Docs |-> preparing'[x]] /\ error' = [x \in Docs |-> error'[x]]
        /\ \A x \in Docs : Untouched(x) \/ Left(x)
    BY <1>1, <1>3 DEF navVars, PagesInv, PagesTyped, Untouched
  <2> QED
    BY <1>1, <1>2, <2>2, <2>3, VisitsEnd
<1>4. CASE ~linked[d]
  <2>1. page[d] \in Nat /\ page[d] \in Pages(d) /\ Docs \in SUBSET Docs
    BY DEF PagesInv, PagesTyped
  <2>2. /\ page' = [x \in Docs |-> page'[x]] /\ generation' = [x \in Docs |-> generation'[x]]
        /\ preparing' = [x \in Docs |-> preparing'[x]] /\ error' = [x \in Docs |-> error'[x]]
        /\ \A x \in Docs : Untouched(x) \/ Left(x)
        /\ \A x \in Docs : page'[x] = Target(x, page[d])
    BY <1>1, <1>4, <2>1, SelectIs
  <2>3. LinkedAgree'
    <3>1. page[d] \in UNION {Pages(x) : x \in Docs}
      BY <2>1
    <3> QED
      BY <2>2, <3>1 DEF LinkedAgree, Pages, Target
  <2> QED
    BY <1>1, <1>2, <2>2, <2>3, VisitsEnd
<1> QED
  BY <1>3, <1>4

LEMMA RetryInv ==
    ASSUME DocsAssumption, LaneAssumption, PagesInv, NEW d \in Docs, Retry(d)
    PROVE  PagesInv'
<1>1. /\ Bounded /\ UNCHANGED <<page, keptVars, linked, shown, laneVars>>
      /\ error' = [error EXCEPT ![d] = None] /\ preparing' = [preparing EXCEPT ![d] = FALSE]
      /\ generation' = [generation EXCEPT ![d] = @ + 1]
  BY DEF Retry
<1>2. /\ page \in [Docs -> Nat] /\ generation \in [Docs -> 0 .. MaxGeneration]
      /\ preparing \in [Docs -> BOOLEAN] /\ error \in [Docs -> Nat]
      /\ linked \in [Docs -> BOOLEAN] /\ shown \in BOOLEAN /\ \A x \in Docs : page[x] \in Pages(x)
  BY DEF PagesInv, PagesTyped
<1>3. /\ page' = [x \in Docs |-> page'[x]] /\ generation' = [x \in Docs |-> generation'[x]]
      /\ preparing' = [x \in Docs |-> preparing'[x]] /\ error' = [x \in Docs |-> error'[x]]
  BY <1>1, <1>2
<1>4. Left(d)
  BY <1>1, <1>2 DEF Left
<1>5. \A x \in Docs : x # d => Untouched(x)
  BY <1>1, <1>2 DEF Untouched
<1>6. LinkedAgree'
  BY <1>1 DEF PagesInv, LinkedAgree, Pages, Target
<1> QED
  BY <1>1, <1>2, <1>3, <1>4, <1>5, <1>6, VisitsEnd

LEMMA HideInv ==
    ASSUME DocsAssumption, LaneAssumption, PagesInv, Hide \/ Show
    PROVE  PagesInv'
<1>1. /\ UNCHANGED <<page, error, keptVars, linked, laneVars>> /\ shown' \in BOOLEAN
      /\ \/ UNCHANGED navVars
         \/ /\ Bounded
            /\ generation' = [d \in Docs |-> generation[d] + 1]
            /\ preparing' = [d \in Docs |-> FALSE]
  BY DEF Hide, Show, navVars
<1>2. /\ page \in [Docs -> Nat] /\ generation \in [Docs -> 0 .. MaxGeneration]
      /\ preparing \in [Docs -> BOOLEAN] /\ error \in [Docs -> Nat]
      /\ linked \in [Docs -> BOOLEAN] /\ \A x \in Docs : page[x] \in Pages(x)
  BY DEF PagesInv, PagesTyped
<1>3. /\ page' = [x \in Docs |-> page'[x]] /\ generation' = [x \in Docs |-> generation'[x]]
      /\ preparing' = [x \in Docs |-> preparing'[x]] /\ error' = [x \in Docs |-> error'[x]]
  BY <1>1, <1>2 DEF navVars
<1>4. LinkedAgree'
  BY <1>1 DEF PagesInv, LinkedAgree, Pages, Target
<1>5. CASE UNCHANGED navVars
  <2>1. \A x \in Docs : Untouched(x)
    BY <1>5 DEF navVars, Untouched
  <2> QED
    BY <1>1, <1>2, <1>3, <1>4, <2>1, VisitsEnd
<1>6. CASE ~UNCHANGED navVars
  <2>1. \A x \in Docs : Left(x)
    BY <1>1, <1>2, <1>6 DEF Left
  <2>2. Bounded
    BY <1>1, <1>6
  <2> QED
    BY <1>1, <1>2, <1>3, <1>4, <2>1, <2>2, VisitsEnd
<1> QED
  BY <1>5, <1>6

-----------------------------------------------------------------------------
(* Pages are asked for and answered                                         *)

LEMMA PromoteInv ==
    ASSUME DocsAssumption, LaneAssumption, PagesInv, NEW d \in Docs, Promote(d)
    PROVE  PagesInv'
<1> PICK promoted : promoted = Append(RemoveFirst(cache[d], page[d]), page[d])
  OBVIOUS
<1>1. /\ page[d] \in ToSet(cache[d]) /\ cache' = [cache EXCEPT ![d] = promoted]
      /\ UNCHANGED <<navVars, keptBytes, linked, shown, laneVars>>
  BY DEF Promote, Keeps
<1>2. /\ cache \in [Docs -> Seq(Nat)] /\ IsInjective(cache[d]) /\ page[d] \in Nat
  BY DEF PagesInv, PagesTyped, KeptIsSound
<1>3. PICK s \in Seq(Nat) : s = cache[d]
  BY <1>2
<1> PICK n \in Nat : n = page[d]
  BY <1>2
<1> PICK one : one = <<n>>
  OBVIOUS
<1>4. /\ promoted \in Seq(Nat) /\ IsInjective(promoted) /\ ToSet(promoted) = ToSet(s)
      /\ promoted = RemoveFirst(s, n) \o one
  <2>1. s \in Seq(Nat) /\ IsInjective(s) /\ promoted = Append(RemoveFirst(s, n), n)
        /\ n \in ToSet(s)
    BY <1>1, <1>2, <1>3
  <2>2. LET t == Append(RemoveFirst(s, n), n) IN
        /\ t \in Seq(Nat) /\ IsInjective(t) /\ ToSet(t) = ToSet(s) \cup {n}
        /\ t = RemoveFirst(s, n) \o <<n>>
    BY <2>1, GoesToTheEnd
  <2> QED
    BY <2>1, <2>2
<1>5. Len(promoted) = Len(s)
  <2>1. n \in ToSet(s)
    BY <1>1, <1>3
  <2>2. PICK p \in Seq(Nat), q \in Seq(Nat) : s = (p \o one) \o q /\ n \notin ToSet(p)
    BY <2>1, FirstSplits
  <2>3. RemoveFirst(s, n) = p \o q
    BY <2>2, RemovesTheFirst
  <2>4. one \in Seq(Nat) /\ Len(one) = 1
    OBVIOUS
  <2>5. \A x, y \in Seq(Nat) : x \o y \in Seq(Nat) /\ Len(x \o y) = Len(x) + Len(y)
    BY ConcatProperties
  <2>6. PICK a \in Nat : a = Len(p)
    BY LenProperties
  <2>7. PICK b \in Nat : b = Len(q)
    BY LenProperties
  <2>8. p \o one \in Seq(Nat) /\ Len(p \o one) = a + 1
    BY <2>4, <2>5, <2>6
  <2>9. Len(s) = (a + 1) + b
    BY <2>2, <2>5, <2>7, <2>8
  <2>10. p \o q \in Seq(Nat) /\ Len(p \o q) = a + b
    BY <2>5, <2>6, <2>7
  <2>11. Len((p \o q) \o one) = (a + b) + 1
    BY <2>4, <2>5, <2>10
  <2> QED
    BY <1>4, <2>3, <2>9, <2>11
<1>6. /\ cache' \in [Docs -> Seq(Nat)]
      /\ \A x \in Docs : /\ IsInjective(cache'[x]) /\ ToSet(cache'[x]) = ToSet(cache[x])
                         /\ Len(cache'[x]) = Len(cache[x])
  <2>1. cache' \in [Docs -> Seq(Nat)]
    BY <1>1, <1>2, <1>4
  <2>2. \A x \in Docs : cache'[x] = IF x = d THEN promoted ELSE cache[x]
    BY <1>1, <1>2
  <2>3. \A x \in Docs : IsInjective(cache[x])
    BY DEF PagesInv, KeptIsSound
  <2> QED
    BY <1>3, <1>4, <1>5, <2>1, <2>2, <2>3
<1>7. KeptIsSound'
  BY <1>1, <1>6 DEF PagesInv, KeptIsSound, CacheIsBounded, Weighed, Pages
<1>8. AwaitedIsMissing'
  BY <1>1, <1>6 DEF PagesInv, AwaitedIsMissing, Keeps, navVars
<1>9. PagesTyped' /\ LinkedAgree' /\ ErrorIsOfPage'
  BY <1>1 DEF PagesInv, PagesTyped, LinkedAgree, ErrorIsOfPage, Pages, Target, navVars, laneVars
<1>10. Live' = Live /\ RequestedOnce'
  BY <1>1 DEF PagesInv, Live, RequestedOnce, laneVars
<1>11. LiveIsOfVisit' /\ AwaitedIsLive'
  BY <1>1, <1>10 DEF PagesInv, LiveIsOfVisit, AwaitedIsLive, RequestOf, navVars
<1> QED
  BY <1>7, <1>8, <1>9, <1>10, <1>11 DEF PagesInv

\* What a step keeps that turns no page and keeps none.
LEMMA StandsStill ==
    ASSUME PagesInv, UNCHANGED <<page, error, keptVars, linked>>
    PROVE  LinkedAgree' /\ ErrorIsOfPage' /\ KeptIsSound'
BY DEF PagesInv, LinkedAgree, ErrorIsOfPage, KeptIsSound, CacheIsBounded, Weighed, Pages, Target,
       keptVars

LEMMA RequestInv ==
    ASSUME DocsAssumption, LaneAssumption, PagesInv, NEW d \in Docs, Request(d)
    PROVE  PagesInv'
<1> PICK r : r = RequestOf(d)
  OBVIOUS
<1>1. /\ ~preparing[d] /\ ~Keeps(d, page[d])
      /\ preparing' = [preparing EXCEPT ![d] = TRUE]
      /\ UNCHANGED <<page, generation, error, keptVars, linked, shown, rendering>>
      /\ \/ Len(queue) < Capacity /\ queue' = Append(queue, r) /\ answers' = answers
         \/ /\ answers' = answers \cup {[request |-> r, ok |-> FALSE]}
            /\ queue' = queue
  BY DEF Request, MayRequest
<1>2. /\ r \in PageRequests /\ r.doc = d /\ r.generation = generation[d] /\ r.page = page[d]
      /\ queue \in Seq(PageRequests) /\ preparing \in [Docs -> BOOLEAN]
      /\ IsInjective(queue) /\ Len(queue) <= Capacity
  BY RequestsAre DEF PagesInv, PagesTyped, RequestOf, RequestedOnce
<1>3. r \notin Live
  BY <1>1, <1>2 DEF PagesInv, LiveIsOfVisit
<1>4. /\ r \notin ToSet(queue) /\ r # rendering /\ \A a \in answers : a.request # r
  BY <1>2, <1>3, RequestsAre DEF Live, PagesInv
<1>5. /\ queue' \in Seq(PageRequests) /\ IsInjective(queue') /\ Len(queue') <= Capacity
      /\ answers' \in SUBSET [request : PageRequests, ok : BOOLEAN]
      /\ Live' = Live \cup {r} /\ RequestedOnce'
  <2>1. CASE Len(queue) < Capacity /\ queue' = Append(queue, r) /\ answers' = answers
    <3>1. /\ queue' \in Seq(PageRequests) /\ IsInjective(queue')
          /\ ToSet(queue') = ToSet(queue) \cup {r}
      <4> PICK s : s = queue
        OBVIOUS
      <4> PICK S : S = PageRequests
        OBVIOUS
      <4>1. s \in Seq(S) /\ IsInjective(s) /\ r \notin ToSet(s) /\ r \in S
        BY <1>2, <1>4
      <4>2. /\ Append(s, r) \in Seq(S) /\ IsInjective(Append(s, r))
            /\ ToSet(Append(s, r)) = ToSet(s) \cup {r}
            /\ Append(s, r) = s \o <<r>>
        BY <4>1, JoinsTheEnd
      <4> QED
        BY <2>1, <4>2
    <3>2. Len(queue') = Len(queue) + 1
      BY <1>2, <2>1, AppendProperties
    <3>3. Len(queue) \in Nat /\ Len(queue') <= Capacity
      BY <1>2, <2>1, <3>2, LenProperties DEF LaneAssumption
    <3>4. Live' = Live \cup {r}
      BY <1>1, <2>1, <3>1 DEF Live
    <3>5. RequestedOnce'
      BY <1>1, <1>4, <2>1, <3>1 DEF PagesInv, RequestedOnce
    <3> QED
      BY <2>1, <3>1, <3>3, <3>4, <3>5 DEF PagesInv, PagesTyped
  <2>2. CASE answers' = answers \cup {[request |-> r, ok |-> FALSE]} /\ queue' = queue
    <3> PICK full : full = [request |-> r, ok |-> FALSE]
      OBVIOUS
    <3>5. full.request = r /\ answers' = answers \cup {full}
      BY <2>2
    <3>1. answers' \in SUBSET [request : PageRequests, ok : BOOLEAN]
      <4>1. full \in [request : PageRequests, ok : BOOLEAN]
        BY <1>2
      <4> QED
        BY <3>5, <4>1 DEF PagesInv, PagesTyped
    <3>2. {a.request : a \in answers'} = {a.request : a \in answers} \cup {r}
      BY <3>5
    <3>3. Live' = Live \cup {r}
      BY <1>1, <2>2, <3>2 DEF Live
    <3>4. RequestedOnce'
      BY <1>1, <1>4, <2>2, <3>5 DEF PagesInv, RequestedOnce
    <3> QED
      BY <1>2, <2>2, <3>1, <3>3, <3>4
  <2> QED
    BY <1>1, <2>1, <2>2
<1>6. PagesTyped'
  BY <1>1, <1>2, <1>5 DEF PagesInv, PagesTyped, Pages
<1>7. LiveIsOfVisit'
  <2> SUFFICES ASSUME NEW x \in Live \cup {r}
               PROVE  /\ x.generation <= generation[x.doc]
                      /\ x.generation = generation[x.doc] =>
                             x.page = page[x.doc] /\ preparing'[x.doc]
    BY <1>1, <1>5 DEF LiveIsOfVisit
  <2>1. CASE x \in Live
    <3>1. x.doc \in Docs
      BY <2>1, RequestsAre DEF PageRequests, PagesInv
    <3>2. preparing[x.doc] => preparing'[x.doc]
      BY <1>1, <1>2, <3>1
    <3> QED
      BY <2>1, <3>2 DEF PagesInv, LiveIsOfVisit
  <2>2. CASE x = r
    <3>1. preparing'[d] /\ generation[d] \in Nat
      BY <1>1, <1>2 DEF PagesInv, PagesTyped
    <3> QED
      BY <1>2, <2>2, <3>1
  <2> QED
    BY <2>1, <2>2
<1>8. AwaitedIsLive'
  <2> SUFFICES ASSUME NEW x \in Docs, preparing'[x]
               PROVE  RequestOf(x) \in Live \cup {r}
    BY <1>1, <1>5 DEF AwaitedIsLive, RequestOf
  <2>1. x # d => preparing[x]
    BY <1>1, <1>2
  <2> QED
    BY <2>1 DEF PagesInv, AwaitedIsLive
<1>9. AwaitedIsMissing'
  <2> SUFFICES ASSUME NEW x \in Docs, preparing'[x]
               PROVE  ~Keeps(x, page[x])
    BY <1>1 DEF AwaitedIsMissing, Keeps, keptVars
  <2>1. x # d => preparing[x]
    BY <1>1, <1>2
  <2> QED
    BY <1>1, <2>1 DEF PagesInv, AwaitedIsMissing
<1>10. LinkedAgree' /\ ErrorIsOfPage' /\ KeptIsSound'
  BY <1>1, StandsStill
<1> QED
  BY <1>5, <1>6, <1>7, <1>8, <1>9, <1>10 DEF PagesInv

\* A request moves along the lane.
LEMMA SameLive ==
    ASSUME PagesInv, Live' = Live, UNCHANGED <<navVars, keptVars, linked, shown>>,
           PagesTyped', RequestedOnce'
    PROVE  PagesInv'
<1>1. LinkedAgree' /\ ErrorIsOfPage' /\ KeptIsSound'
  BY StandsStill DEF navVars
<1>2. LiveIsOfVisit' /\ AwaitedIsLive' /\ AwaitedIsMissing'
  BY DEF PagesInv, LiveIsOfVisit, AwaitedIsLive, AwaitedIsMissing, RequestOf, Keeps, navVars,
         keptVars
<1> QED
  BY <1>1, <1>2 DEF PagesInv

LEMMA FirstIs ==
    ASSUME NEW S, NEW s \in Seq(S), s # <<>>, IsInjective(s)
    PROVE  /\ Head(s) \in S /\ Tail(s) \in Seq(S) /\ Len(Tail(s)) = Len(s) - 1
           /\ IsInjective(Tail(s)) /\ Head(s) \notin ToSet(Tail(s))
           /\ ToSet(s) = ToSet(Tail(s)) \cup {Head(s)}
<1> PICK h : h = Head(s)
  OBVIOUS
<1> PICK t : t = Tail(s)
  OBVIOUS
<1>1. h \in S /\ t \in Seq(S) /\ Len(t) = Len(s) - 1 /\ s = <<h>> \o t
  BY HeadTailProperties
<1> PICK one : one = <<h>>
  OBVIOUS
<1>2. one \in Seq(S) /\ ToSet(one) = {h}
  BY <1>1, OneElement
<1>3. s = one \o t /\ t \in Seq(S) /\ one \in Seq(S)
  BY <1>1, <1>2
<1>4. ToSet(one \o t) = ToSet(one) \cup ToSet(t)
  <2>1. \A x, y \in Seq(S) : ToSet(x \o y) = ToSet(x) \cup ToSet(y)
    BY InSomePart
  <2> QED
    BY <1>3, <2>1
<1>5. IsInjective(one \o t) <=>
          IsInjective(one) /\ IsInjective(t) /\ ToSet(one) \cap ToSet(t) = {}
  BY <1>3, OnceInSomePart
<1> QED
  BY <1>1, <1>2, <1>3, <1>4, <1>5

LEMMA TakePageInv ==
    ASSUME DocsAssumption, LaneAssumption, PagesInv, TakePage
    PROVE  PagesInv'
<1>1. /\ rendering = NoPage /\ queue # <<>> /\ rendering' = Head(queue) /\ queue' = Tail(queue)
      /\ UNCHANGED <<navVars, keptVars, linked, shown, answers>>
  BY DEF TakePage
<1>2. queue \in Seq(PageRequests) /\ IsInjective(queue) /\ Len(queue) <= Capacity
  BY DEF PagesInv, PagesTyped, RequestedOnce
<1>3. /\ rendering' \in PageRequests /\ queue' \in Seq(PageRequests) /\ IsInjective(queue')
      /\ Len(queue') = Len(queue) - 1
      /\ rendering' \notin ToSet(queue') /\ ToSet(queue) = ToSet(queue') \cup {rendering'}
  BY <1>1, <1>2, FirstIs
<1>4. PagesTyped'
  <2>1. Len(queue) \in Nat /\ Len(queue') <= Capacity
    BY <1>2, <1>3, LenProperties DEF LaneAssumption
  <2> QED
    BY <1>1, <1>3, <2>1 DEF PagesInv, PagesTyped, Pages, navVars
<1>5. Live' = Live
  <2>1. rendering' # NoPage
    BY <1>3, RequestsAre DEF PagesInv
  <2> QED
    BY <1>1, <1>3, <2>1 DEF Live
<1>6. RequestedOnce'
  BY <1>1, <1>3 DEF PagesInv, RequestedOnce
<1> QED
  BY <1>1, <1>4, <1>5, <1>6, SameLive

LEMMA FinishPageInv ==
    ASSUME DocsAssumption, LaneAssumption, PagesInv, FinishPage
    PROVE  PagesInv'
<1>1. PICK ok \in BOOLEAN :
          /\ rendering # NoPage /\ rendering' = NoPage
          /\ answers' = answers \cup {[request |-> rendering, ok |-> ok]}
          /\ UNCHANGED <<navVars, keptVars, linked, shown, queue>>
  BY DEF FinishPage
<1>2. rendering \in PageRequests
  BY <1>1 DEF PagesInv, PagesTyped
<1>3. PagesTyped'
  <2>1. answers' \in SUBSET [request : PageRequests, ok : BOOLEAN]
    BY <1>1, <1>2 DEF PagesInv, PagesTyped
  <2> QED
    BY <1>1, <2>1 DEF PagesInv, PagesTyped, Pages, navVars
<1>4. Live' = Live
  <2> PICK full : full = [request |-> rendering, ok |-> ok]
    OBVIOUS
  <2>2. full.request = rendering /\ answers' = answers \cup {full}
    BY <1>1
  <2>1. {a.request : a \in answers'} = {a.request : a \in answers} \cup {rendering}
    BY <2>2
  <2> QED
    BY <1>1, <2>1 DEF Live
<1>5. RequestedOnce'
  <2>1. NoPage \notin ToSet(queue) /\ \A a \in answers : a.request # NoPage
    <3>1. ToSet(queue) \subseteq PageRequests /\ \A a \in answers : a.request \in PageRequests
      BY ElementsAre DEF PagesInv, PagesTyped
    <3> QED
      BY <3>1, RequestsAre DEF PagesInv
  <2>2. \A a \in answers : a.request # rendering /\ a.request \notin ToSet(queue)
    BY DEF PagesInv, RequestedOnce
  <2>3. \A a \in answers' :
            a \in answers \/ a = [request |-> rendering, ok |-> ok]
    BY <1>1
  <2>4. IsInjective(queue) /\ rendering \notin ToSet(queue)
        /\ \A a, b \in answers : a.request = b.request => a = b
    BY DEF PagesInv, RequestedOnce
  <2>5. \A a \in answers' : a.request \notin ToSet(queue) \cup {NoPage}
    BY <1>1, <2>1, <2>2, <2>3, <2>4
  <2>6. \A a, b \in answers' : a.request = b.request => a = b
    BY <2>2, <2>3, <2>4
  <2> QED
    BY <1>1, <2>1, <2>4, <2>5, <2>6 DEF RequestedOnce
<1> QED
  BY <1>1, <1>3, <1>4, <1>5, SameLive

-----------------------------------------------------------------------------
(* Answers are received                                                     *)

LEMMA SizesAdd ==
    ASSUME NEW a \in Nat, NEW n \in 0 .. a, NEW z \in Nat
    PROVE  (a - n) * z = a * z - n * z /\ ((a - n) + 1) * z = a * z - n * z + z
OBVIOUS

\* The oldest pages leave until there is room for one more.
LEMMA RoomIs ==
    ASSUME DocsAssumption, PagesFit, PagesInv, NEW d \in Docs
    PROVE  \E n \in 0 .. Len(cache[d]) :
               /\ Kept(d) = SubSeq(cache[d], n + 1, Len(cache[d]))
               /\ Len(cache[d]) - n < CachePages
               /\ keptBytes[d] - n * PageSize[d] + PageSize[d] <= CacheBytes
<1> DEFINE room == {n \in 0 .. Len(cache[d]) :
                       /\ Len(cache[d]) - n < CachePages
                       /\ keptBytes[d] - n * PageSize[d] + PageSize[d] <= CacheBytes}
<1>1. PICK s \in Seq(Nat) : s = cache[d]
  BY DEF PagesInv, KeptIsSound
<1>2. PICK len \in Nat : len = Len(s)
  BY LenProperties
<1>3. /\ keptBytes[d] = len * PageSize[d] /\ PageSize[d] \in Nat
      /\ PageSize[d] <= CacheBytes /\ 0 < CachePages
  BY <1>1, <1>2 DEF PagesInv, KeptIsSound, CacheIsBounded, Weighed, PagesFit
<1>4. len \in room
  <2>1. PICK size \in Nat : size = PageSize[d]
    BY <1>3
  <2>2. PICK all \in Int : all = len * size
    OBVIOUS
  <2>3. all - all + size = size /\ len - len = 0
    OBVIOUS
  <2> QED
    BY <1>1, <1>2, <1>3, <2>1, <2>2, <2>3
<1>5. PICK n \in room : \A m \in room : n <= m
  <2>1. room \in SUBSET Nat /\ room # {}
    BY <1>1, <1>2, <1>4
  <2> HIDE DEF room
  <2> QED
    BY <2>1, LeastNumber
<1> PICK e \in room : e = CHOOSE i \in room : \A m \in room : i <= m
  BY <1>5
<1>6. Kept(d) = SubSeq(cache[d], e + 1, Len(cache[d]))
  BY DEF Kept
<1> QED
  BY <1>6

LEMMA KeepIsSound ==
    ASSUME DocsAssumption, PagesFit, PagesInv, NEW d \in Docs, ~Keeps(d, page[d]),
           Keep(d, page[d])
    PROVE  KeptIsSound' /\ \A x \in Docs : x # d => cache'[x] = cache[x]
<1> PICK kept : kept = Kept(d)
  OBVIOUS
<1>1. PICK s \in Seq(Nat) : s = cache[d]
  BY DEF PagesInv, KeptIsSound
<1>2. PICK len \in Nat : len = Len(s)
  BY LenProperties
<1>3. PICK p \in Nat : p = page[d]
  BY DEF PagesInv, PagesTyped
<1>4. PICK size \in Nat : size = PageSize[d]
  BY DEF PagesFit
<1>5. PICK n \in 0 .. len :
          /\ kept = SubSeq(s, n + 1, len) /\ len - n < CachePages
          /\ keptBytes[d] - n * size + size <= CacheBytes
  BY <1>1, <1>2, <1>4, RoomIs
<1>6. /\ IsInjective(s) /\ ToSet(s) \subseteq Pages(d) /\ p \in Pages(d) /\ p \notin ToSet(s)
      /\ keptBytes[d] = len * size
  BY <1>1, <1>2, <1>3, <1>4
     DEF PagesInv, KeptIsSound, PagesTyped, Keeps, CacheIsBounded, Weighed
<1>7. /\ kept \in Seq(Nat) /\ Len(kept) = len - n /\ IsInjective(kept)
      /\ ToSet(kept) \subseteq ToSet(s)
  <2> PICK first : first = SubSeq(s, 1, n)
    OBVIOUS
  <2>1. n \in 0 .. Len(s)
    BY <1>2
  <2>2. first \in Seq(Nat) /\ kept \in Seq(Nat) /\ first \o kept = s /\ Len(kept) = len - n
    <3>1. /\ SubSeq(s, 1, n) \in Seq(Nat) /\ SubSeq(s, n + 1, Len(s)) \in Seq(Nat)
          /\ SubSeq(s, 1, n) \o SubSeq(s, n + 1, Len(s)) = s
          /\ Len(SubSeq(s, n + 1, Len(s))) = Len(s) - n
      BY <2>1, SplitsAt
    <3> QED
      BY <1>2, <1>5, <3>1
  <2>3. ToSet(first \o kept) = ToSet(first) \cup ToSet(kept)
    <3>1. \A x, y \in Seq(Nat) : ToSet(x \o y) = ToSet(x) \cup ToSet(y)
      BY InSomePart
    <3> QED
      BY <2>2, <3>1
  <2>4. IsInjective(first \o kept) => IsInjective(kept)
    <3>1. \A x, y \in Seq(Nat) : IsInjective(x \o y) => IsInjective(y)
      BY OnceInSomePart
    <3> QED
      BY <2>2, <3>1
  <2> QED
    BY <1>6, <2>2, <2>3, <2>4
<1> PICK new : new = Append(kept, p)
  OBVIOUS
<1>8. new \in Seq(Nat) /\ IsInjective(new) /\ ToSet(new) = ToSet(kept) \cup {p}
  <2>1. kept \in Seq(Nat) /\ IsInjective(kept) /\ p \notin ToSet(kept)
    BY <1>6, <1>7
  <2>2. /\ Append(kept, p) \in Seq(Nat) /\ IsInjective(Append(kept, p))
        /\ ToSet(Append(kept, p)) = ToSet(kept) \cup {p}
        /\ Append(kept, p) = kept \o <<p>>
    BY <2>1, JoinsTheEnd
  <2> QED
    BY <2>2
<1>9. Len(new) = (len - n) + 1
  BY <1>7, AppendProperties
<1>10. /\ cache' = [cache EXCEPT ![d] = new]
       /\ keptBytes' = [keptBytes EXCEPT ![d] =
               keptBytes[d] - (len - Len(kept)) * PageSize[d] + PageSize[d]]
  BY <1>1, <1>2, <1>3 DEF Keep
<1>11. keptBytes[d] - (len - Len(kept)) * size + size = keptBytes[d] - n * size + size
  BY <1>7
<1>12. PICK total : total = keptBytes[d] - n * size + size
  OBVIOUS
<1>13. total \in Nat /\ total = Len(new) * size /\ total <= CacheBytes
  <2>1. ((len - n) + 1) * size = len * size - n * size + size
    BY SizesAdd
  <2>2. ((len - n) + 1) * size \in Nat
    OBVIOUS
  <2> QED
    BY <1>5, <1>6, <1>9, <1>12, <2>1, <2>2
<1>14. /\ cache \in [Docs -> Seq(Nat)] /\ keptBytes \in [Docs -> Nat]
       /\ \A x \in Docs : IsInjective(cache[x]) /\ ToSet(cache[x]) \subseteq Pages(x)
       /\ \A x \in Docs : /\ Len(cache[x]) <= CachePages /\ keptBytes[x] <= CacheBytes
                          /\ keptBytes[x] = Len(cache[x]) * PageSize[x]
  BY DEF PagesInv, KeptIsSound, CacheIsBounded, Weighed
<1>15. keptBytes' = [keptBytes EXCEPT ![d] = total]
  BY <1>4, <1>10, <1>11, <1>12
<1>16. cache' \in [Docs -> Seq(Nat)] /\ keptBytes' \in [Docs -> Nat]
  BY <1>8, <1>10, <1>13, <1>14, <1>15
<1>17. /\ cache'[d] = new /\ keptBytes'[d] = total
       /\ \A x \in Docs : x # d => cache'[x] = cache[x] /\ keptBytes'[x] = keptBytes[x]
  BY <1>10, <1>14, <1>15
<1>18. \A x \in Docs : IsInjective(cache'[x]) /\ ToSet(cache'[x]) \subseteq Pages(x)
  BY <1>6, <1>7, <1>8, <1>14, <1>17
<1>19. \A x \in Docs : /\ Len(cache'[x]) <= CachePages /\ keptBytes'[x] <= CacheBytes
                       /\ keptBytes'[x] = Len(cache'[x]) * PageSize[x]
  <2>1. Len(new) <= CachePages
    BY <1>5, <1>9 DEF PagesFit
  <2> QED
    BY <1>4, <1>13, <1>14, <1>17, <2>1
<1> QED
  BY <1>16, <1>17, <1>18, <1>19 DEF KeptIsSound, CacheIsBounded, Weighed, Pages

LEMMA ReceivePageInv ==
    ASSUME DocsAssumption, LaneAssumption, PagesFit, PagesInv, ReceivePage
    PROVE  PagesInv'
<1>1. PICK a \in answers :
          /\ answers' = answers \ {a}
          /\ LET d == a.request.doc IN
             IF ~Accepts(a.request) THEN UNCHANGED <<navVars, keptVars>>
             ELSE /\ preparing' = [preparing EXCEPT ![d] = FALSE]
                  /\ IF a.ok THEN Keep(d, a.request.page) /\ UNCHANGED error
                     ELSE error' = [error EXCEPT ![d] = a.request.page] /\ UNCHANGED keptVars
                  /\ UNCHANGED <<page, generation>>
          /\ UNCHANGED <<linked, shown, queue, rendering>>
  BY DEF ReceivePage
<1> PICK r : r = a.request
  OBVIOUS
<1> PICK d : d = r.doc
  OBVIOUS
<1>2. r \in PageRequests /\ d \in Docs /\ r.page \in Nat
  BY DEF PagesInv, PagesTyped, PageRequests
<1>3. /\ page \in [Docs -> Nat] /\ preparing \in [Docs -> BOOLEAN] /\ error \in [Docs -> Nat]
      /\ answers \in SUBSET [request : PageRequests, ok : BOOLEAN]
  BY DEF PagesInv, PagesTyped
<1>4. UNCHANGED <<page, generation, linked, shown, queue, rendering>>
  BY <1>1 DEF navVars
<1>5. Live' = Live \ {r} /\ RequestedOnce'
  <2>1. /\ IsInjective(queue) /\ rendering \notin ToSet(queue)
        /\ \A b \in answers : b.request \notin ToSet(queue) \cup {rendering}
        /\ \A b, c \in answers : b.request = c.request => b = c
    BY DEF PagesInv, RequestedOnce
  <2>2. {b.request : b \in answers'} = {b.request : b \in answers} \ {r}
    <3>1. \A b \in answers : b \in answers' <=> b.request # r
      BY <1>1, <2>1
    <3> QED
      BY <1>1, <3>1
  <2>3. r \notin ToSet(queue) \cup {rendering}
    BY <2>1
  <2>4. Live' = Live \ {r}
    BY <1>4, <2>2, <2>3 DEF Live
  <2>5. RequestedOnce'
    BY <1>1, <1>4, <2>1 DEF RequestedOnce
  <2> QED
    BY <2>4, <2>5
<1>6. answers' \in SUBSET [request : PageRequests, ok : BOOLEAN]
  BY <1>1, <1>3
<1>7. r = RequestOf(d) <=> r.generation = generation[d] /\ r.page = page[d]
  BY <1>2, RequestsAre DEF PagesInv
<1>8. CASE ~Accepts(r)
  <2>1. UNCHANGED <<navVars, keptVars>>
    BY <1>1, <1>8
  <2>2. PagesTyped'
    BY <1>4, <1>6, <2>1 DEF PagesInv, PagesTyped, Pages, navVars
  <2>3. LinkedAgree' /\ ErrorIsOfPage' /\ KeptIsSound'
    BY <1>4, <2>1, StandsStill DEF navVars
  <2>4. LiveIsOfVisit' /\ AwaitedIsMissing'
    BY <1>4, <1>5, <2>1 DEF PagesInv, LiveIsOfVisit, AwaitedIsMissing, Keeps, navVars, keptVars
  <2>5. AwaitedIsLive'
    <3> SUFFICES ASSUME NEW x \in Docs, preparing[x]
                 PROVE  RequestOf(x) \in Live \ {r}
      BY <1>4, <1>5, <2>1 DEF AwaitedIsLive, RequestOf, navVars
    <3>1. RequestOf(x) \in Live
      BY DEF PagesInv, AwaitedIsLive
    <3>2. RequestOf(x) # r
      BY <1>7, <1>8 DEF Accepts, RequestOf
    <3> QED
      BY <3>1, <3>2
  <2> QED
    BY <1>5, <2>2, <2>3, <2>4, <2>5 DEF PagesInv
<1>9. CASE Accepts(r)
  <2>1. /\ preparing' = [preparing EXCEPT ![d] = FALSE]
        /\ \/ Keep(d, r.page) /\ error' = error
           \/ error' = [error EXCEPT ![d] = r.page] /\ UNCHANGED keptVars
    BY <1>1, <1>9
  <2>2. r.page = page[d] /\ r.generation = generation[d] /\ preparing[d] /\ r = RequestOf(d)
    BY <1>7, <1>9 DEF Accepts
  <2>3. /\ ~preparing'[d] /\ \A x \in Docs : x # d => preparing'[x] = preparing[x]
        /\ preparing' \in [Docs -> BOOLEAN]
    BY <1>2, <1>3, <2>1
  <2>4. error' \in [Docs -> Nat] /\ ErrorIsOfPage'
    <3>1. error' = error \/ error' = [error EXCEPT ![d] = page[d]]
      BY <2>1, <2>2
    <3>2. error' \in [Docs -> Nat]
      BY <1>2, <1>3, <3>1
    <3>3. \A x \in Docs : error'[x] = error[x] \/ error'[x] = page[x]
      BY <1>2, <1>3, <3>1
    <3> QED
      BY <1>4, <3>2, <3>3 DEF PagesInv, ErrorIsOfPage
  <2>5. PagesTyped'
    BY <1>4, <1>6, <2>3, <2>4 DEF PagesInv, PagesTyped, Pages
  <2>6. KeptIsSound' /\ \A x \in Docs : x # d => cache'[x] = cache[x]
    <3>1. CASE UNCHANGED keptVars
      BY <3>1 DEF PagesInv, KeptIsSound, CacheIsBounded, Weighed, Pages, keptVars
    <3>2. CASE Keep(d, page[d])
      <4>1. ~Keeps(d, page[d])
        BY <1>2, <2>2 DEF PagesInv, AwaitedIsMissing
      <4> QED
        BY <1>2, <3>2, <4>1, KeepIsSound
    <3> QED
      BY <2>1, <2>2, <3>1, <3>2
  <2>7. AwaitedIsMissing'
    BY <1>4, <2>3, <2>6 DEF PagesInv, AwaitedIsMissing, Keeps
  <2>8. LinkedAgree'
    BY <1>4 DEF PagesInv, LinkedAgree, Pages, Target
  <2>9. LiveIsOfVisit'
    <3> SUFFICES ASSUME NEW x \in Live, x # r
                 PROVE  /\ x.generation <= generation[x.doc]
                        /\ x.generation = generation[x.doc] =>
                               x.page = page[x.doc] /\ preparing'[x.doc]
      BY <1>4, <1>5 DEF LiveIsOfVisit
    <3>1. x \in PageRequests /\ x.doc \in Docs
      BY RequestsAre DEF PagesInv, PageRequests
    <3>2. /\ x.generation <= generation[x.doc]
          /\ x.generation = generation[x.doc] => x.page = page[x.doc] /\ preparing[x.doc]
      BY DEF PagesInv, LiveIsOfVisit
    <3>3. x.generation = generation[x.doc] => x = RequestOf(x.doc)
      BY <3>1, <3>2, RequestsAre DEF PagesInv
    <3>4. x.generation = generation[x.doc] => x.doc # d
      BY <2>2, <3>3
    <3> QED
      BY <2>3, <3>1, <3>2, <3>4
  <2>10. AwaitedIsLive'
    <3> SUFFICES ASSUME NEW x \in Docs, preparing'[x]
                 PROVE  RequestOf(x) \in Live \ {r}
      BY <1>4, <1>5 DEF AwaitedIsLive, RequestOf
    <3>1. x # d /\ preparing[x]
      BY <2>3
    <3>2. RequestOf(x) \in Live
      BY <3>1 DEF PagesInv, AwaitedIsLive
    <3>3. RequestOf(x) # r
      BY <3>1 DEF RequestOf
    <3> QED
      BY <3>2, <3>3
  <2> QED
    BY <1>5, <2>4, <2>5, <2>6, <2>7, <2>8, <2>9, <2>10 DEF PagesInv
<1> QED
  BY <1>8, <1>9

-----------------------------------------------------------------------------
(* The comparison                                                           *)

LEMMA PagesInitInv ==
    ASSUME DocsAssumption, LaneAssumption, PagesFit, PagesInit
    PROVE  PagesInv
<1>1. PICK first \in [Docs -> BOOLEAN] :
          /\ cache = [d \in Docs |-> IF first[d] THEN <<0>> ELSE <<>>]
          /\ keptBytes = [d \in Docs |-> IF first[d] THEN PageSize[d] ELSE 0]
  BY DEF PagesInit
<1>2. Live = {}
  BY DEF PagesInit, Live, ToSet
<1>3. \A d \in Docs : 0 \in Pages(d)
  BY DEF DocsAssumption, Pages
<1>4. PagesTyped
  <2>1. /\ page \in [Docs -> Nat] /\ generation \in [Docs -> 0 .. MaxGeneration]
        /\ preparing \in [Docs -> BOOLEAN] /\ linked \in [Docs -> BOOLEAN]
        /\ error \in [Docs -> Nat] /\ shown \in BOOLEAN
    BY DEF PagesInit, LaneAssumption, None
  <2>2. queue \in Seq(PageRequests) /\ Len(queue) <= Capacity
    BY DEF PagesInit, LaneAssumption
  <2> QED
    BY <1>3, <2>1, <2>2 DEF PagesInit, PagesTyped
<1>5. LiveIsOfVisit /\ AwaitedIsLive /\ AwaitedIsMissing /\ ErrorIsOfPage /\ RequestedOnce
  BY <1>2 DEF PagesInit, LiveIsOfVisit, AwaitedIsLive, AwaitedIsMissing, ErrorIsOfPage,
              RequestedOnce, IsInjective, ToSet
<1>6. KeptIsSound
  <2> PICK one : one = <<0>>
    OBVIOUS
  <2> PICK none : none = <<>>
    OBVIOUS
  <2>1. one \in Seq(Nat) /\ ToSet(one) = {0} /\ IsInjective(one) /\ Len(one) = 1
    BY OneElement
  <2>2. none \in Seq(Nat) /\ ToSet(none) = {} /\ IsInjective(none) /\ Len(none) = 0
    BY DEF ToSet, IsInjective
  <2>3. \A d \in Docs : PageSize[d] \in Nat /\ PageSize[d] <= CacheBytes
    BY DEF PagesFit
  <2>4. \A d \in Docs : /\ cache[d] = IF first[d] THEN one ELSE none
                        /\ keptBytes[d] = IF first[d] THEN PageSize[d] ELSE 0
    BY <1>1
  <2>5. cache \in [Docs -> Seq(Nat)] /\ keptBytes \in [Docs -> Nat]
    BY <1>1, <2>1, <2>2, <2>3
  <2>6. \A d \in Docs : IsInjective(cache[d]) /\ ToSet(cache[d]) \subseteq Pages(d)
    BY <1>3, <2>1, <2>2, <2>4
  <2>7. \A d \in Docs : /\ Len(cache[d]) <= CachePages /\ keptBytes[d] <= CacheBytes
                        /\ keptBytes[d] = Len(cache[d]) * PageSize[d]
    <3> SUFFICES ASSUME NEW d \in Docs
                 PROVE  /\ Len(cache[d]) <= CachePages /\ keptBytes[d] <= CacheBytes
                        /\ keptBytes[d] = Len(cache[d]) * PageSize[d]
      OBVIOUS
    <3>1. PICK size \in Nat : size = PageSize[d]
      BY <2>3
    <3>2. 1 * size = size /\ 0 * size = 0
      OBVIOUS
    <3>3. Len(cache[d]) = IF first[d] THEN 1 ELSE 0
      BY <2>1, <2>2, <2>4
    <3>4. Len(cache[d]) <= CachePages /\ keptBytes[d] <= CacheBytes
      BY <2>3, <2>4, <3>3 DEF PagesFit
    <3>5. keptBytes[d] = Len(cache[d]) * size
      BY <2>4, <3>1, <3>2, <3>3
    <3> QED
      BY <3>1, <3>4, <3>5
  <2> QED
    BY <2>5, <2>6, <2>7 DEF KeptIsSound, CacheIsBounded, Weighed
<1>7. LinkedAgree
  <2>1. PICK d \in Docs : TRUE
    BY DEF DocsAssumption
  <2>2. ~linked[d]
    BY DEF PagesInit
  <2> QED
    BY <2>2 DEF LinkedAgree
<1> QED
  BY <1>4, <1>5, <1>6, <1>7 DEF PagesInv

LEMMA PagesNextInv ==
    ASSUME DocsAssumption, LaneAssumption, PagesFit, PagesInv, [PagesNext]_pageVars
    PROVE  PagesInv'
<1>1. CASE UNCHANGED pageVars
  <2>1. /\ UNCHANGED <<navVars, keptVars, linked, shown>>
        /\ UNCHANGED <<queue, rendering, answers>>
    BY <1>1 DEF pageVars, laneVars
  <2>2. Live' = Live /\ RequestedOnce' /\ PagesTyped'
    BY <2>1 DEF PagesInv, Live, RequestedOnce, PagesTyped, Pages, navVars
  <2> QED
    BY <2>1, <2>2, SameLive
<1>2. CASE PagesUser
  BY <1>2, SelectInv, LinkInv, RetryInv, HideInv DEF PagesUser
<1>3. CASE \E d \in Docs : Promote(d) \/ Request(d)
  BY <1>3, PromoteInv, RequestInv
<1>4. CASE TakePage \/ FinishPage \/ ReceivePage
  BY <1>4, TakePageInv, FinishPageInv, ReceivePageInv
<1> QED
  BY <1>1, <1>2, <1>3, <1>4 DEF PagesNext

(***************************************************************************)
(* PagesAreRequested holds for any documents, page sizes, limits of the    *)
(* cache and capacity of the lane: a page that is waited for has exactly   *)
(* one request in the lane, which is of this visit of it, an error is of   *)
(* the page on screen, linked sides show one page, and what is kept is     *)
(* bounded and counted (pdf_view.rs).                                      *)
(***************************************************************************)
THEOREM PagesArePrepared ==
    ASSUME DocsAssumption, LaneAssumption, PagesFit
    PROVE  PagesSpec => []PagesAreRequested
<1>1. PagesInit => PagesInv
  BY PagesInitInv
<1>2. PagesInv /\ [PagesNext]_pageVars => PagesInv'
  BY PagesNextInv
<1>3. PagesInv => PagesAreRequested
  BY InvIsRequested
<1> QED
  BY <1>1, <1>2, <1>3, PTL DEF PagesSpec

-----------------------------------------------------------------------------
(* The frames of two models: the inductive invariant.                       *)

Pictures == [view : Views, low : BOOLEAN, clip : Nat, seconds : Nat]

SideStates == [view : Views, linked : BOOLEAN, dragging : BOOLEAN, scrubbing : BOOLEAN,
               clip : Nat, offset : Nat, duration : Nat, playing : BOOLEAN, pose : Nat,
               generation : Nat, pending : BOOLEAN, error : BOOLEAN,
               frame : Pictures \cup {NoFrame}]

FrameRequests == [doc : Models, generation : Nat, frame : Pictures]

FrameAnswers == [requests : SUBSET FrameRequests, done : BOOLEAN, failed : SUBSET Models]

\* Two sides, each at a time within its clip.
SoundSides(sides) ==
    /\ sides \in [Models -> SideStates]
    /\ \A d \in Models :
        /\ sides[d].clip \in Clips[d]
        /\ sides[d].pose <= sides[d].clip /\ sides[d].offset <= sides[d].duration

\* They play together, and rest at one time.
OneClock(sides) ==
    /\ sides[First].playing <=> sides[Second].playing
    /\ sides[First].offset = sides[Second].offset
    /\ sides[First].duration = sides[Second].duration
    /\ \A d \in Models :
        ~sides[d].playing => sides[d].pose = Lesser(sides[d].offset, sides[d].clip)

LaneTyped ==
    /\ slot \in SUBSET FrameRequests /\ drawing \in SUBSET FrameRequests
    /\ frames \in SUBSET FrameAnswers
    /\ IsFiniteSet(LiveFrames)

\* A frame that a side waits for is to come from one job.
ComesOnce ==
    /\ \A r \in slot, q \in drawing : r.doc = q.doc /\ IsPresent(r) => ~IsPresent(q)
    /\ \A r \in slot \cup drawing, a \in frames : \A q \in a.requests :
           r.doc = q.doc /\ IsPresent(r) => ~IsPresent(q)
    /\ \A a, b \in frames : \A r \in a.requests, q \in b.requests :
           r.doc = q.doc /\ IsPresent(r) /\ IsPresent(q) => a = b

FramesInv ==
    /\ SoundSides(doc) /\ LaneTyped /\ changes \in 0 .. MaxChanges
    /\ seen \in BOOLEAN /\ focused \in BOOLEAN /\ repaint \in BOOLEAN
    /\ ComesOnce /\ FramesArePending
    /\ CamerasAgree /\ OneClock(doc) /\ HiddenIsIdle

LEMMA InvIsFrames == FramesInv => FramesAreRequested
<1> SUFFICES ASSUME FramesInv PROVE FramesAreRequested
  OBVIOUS
<1>1. FramesTypeOK
  <2>1. \A d \in Models : doc[d].view \in Views
    BY DEF FramesInv, SoundSides, SideStates
  <2> QED
    BY <2>1 DEF FramesInv, SoundSides, FramesTypeOK
<1>2. ClockIsShared
  BY DEF FramesInv, OneClock, ClockIsShared
<1> QED
  BY <1>1, <1>2 DEF FramesInv, FramesAreRequested

\* No live request has the generation that a side is given.
LEMMA FreshIs ==
    ASSUME FramesInv, NEW d \in Models
    PROVE  /\ FreshGeneration(d) \in Nat
           /\ \A r \in LiveFrames : r.doc = d => r.generation # FreshGeneration(d)
<1> DEFINE own == {x \in LiveFrames : x.doc = d}
           carried == {r.generation : r \in own}
           free == {n \in 0 .. Cardinality(carried) : n \notin carried}
<1>1. IsFiniteSet(own)
  BY FS_Subset DEF FramesInv, LaneTyped
<1>2. IsFiniteSet(carried)
  <2> DEFINE f == [x \in own |-> x.generation]
  <2>1. f \in Surjection(own, carried)
    BY DEF Surjection
  <2> QED
    BY <1>1, <2>1, FS_Surjection
<1> HIDE DEF carried
<1>3. PICK n \in Nat : n = Cardinality(carried)
  BY <1>2, FS_CardinalityType
<1>4. free # {}
  <2> SUFFICES ASSUME 0 .. n \subseteq carried
               PROVE  FALSE
    BY <1>3
  <2>1. Cardinality(0 .. n) = n + 1
    BY FS_Interval
  <2>2. Cardinality(0 .. n) <= Cardinality(carried)
    BY <1>2, FS_Subset
  <2> QED
    BY <1>3, <2>1, <2>2
<1>5. PICK m \in free : \A k \in free : m <= k
  <2>1. free \in SUBSET Nat
    BY <1>3
  <2> QED
    BY <1>4, <2>1, LeastNumber
<1>6. /\ m \in 0 .. Cardinality(carried) /\ m \notin carried
      /\ \A k \in 0 .. m - 1 : k \in carried
  BY <1>3, <1>5
<1> DEFINE P(i) == i \notin carried /\ \A k \in 0 .. i - 1 : k \in carried
<1>7. FreshGeneration(d) = CHOOSE i \in 0 .. Cardinality(carried) : P(i)
  BY DEF FreshGeneration, carried
<1> PICK g : g = FreshGeneration(d)
  OBVIOUS
<1>8. g \in 0 .. Cardinality(carried) /\ P(g)
  <2>1. m \in 0 .. Cardinality(carried) /\ P(m)
    BY <1>6
  <2> HIDE DEF P
  <2> QED
    BY <1>7, <2>1
<1>9. \A r \in LiveFrames : r.doc = d => r.generation \in carried
  BY DEF carried
<1> QED
  BY <1>3, <1>8, <1>9

\* A side that is changed waits no more, under a new generation; any other
\* waits as before.
Regenerated ==
    \A d \in Models :
        \/ doc'[d].generation = doc[d].generation /\ doc'[d].pending = doc[d].pending
        \/ doc'[d].generation = FreshGeneration(d) /\ ~doc'[d].pending

LEMMA PromisesHold ==
    ASSUME FramesInv, SoundSides(doc'), Regenerated, UNCHANGED jobVars
    PROVE  LaneTyped' /\ ComesOnce' /\ FramesArePending'
<1>1. LiveFrames' = LiveFrames /\ slot' = slot /\ drawing' = drawing /\ frames' = frames
  BY DEF jobVars, LiveFrames
<1>2. LaneTyped'
  <2>1. LaneTyped
    BY DEF FramesInv
  <2> QED
    BY <1>1, <2>1 DEF LaneTyped
<1>3. /\ slot \subseteq LiveFrames /\ drawing \subseteq LiveFrames
      /\ \A a \in frames : a.requests \subseteq LiveFrames
  BY DEF LiveFrames
<1>4. LiveFrames \subseteq FrameRequests
  BY DEF FramesInv, LaneTyped, LiveFrames, FrameAnswers
<1>5. \A d \in Models : \A r \in LiveFrames :
          r.doc = d /\ IsPresent(r)' => IsPresent(r) /\ doc'[d].pending = doc[d].pending
  <2> SUFFICES ASSUME NEW d \in Models, NEW r \in LiveFrames, r.doc = d, IsPresent(r)'
               PROVE  IsPresent(r) /\ doc'[d].pending = doc[d].pending
    OBVIOUS
  <2>1. r.generation # FreshGeneration(d)
    BY FreshIs
  <2>2. doc'[d].generation = r.generation
    BY DEF IsPresent
  <2> QED
    BY <2>1, <2>2 DEF Regenerated, IsPresent
<1>6. ComesOnce'
  <2>1. \A r \in LiveFrames : IsPresent(r)' => IsPresent(r)
    BY <1>4, <1>5 DEF FrameRequests
  <2>2. ComesOnce
    BY DEF FramesInv
  <2> QED
    BY <1>1, <1>3, <2>1, <2>2 DEF ComesOnce
<1>7. FramesArePending'
  <2> SUFFICES ASSUME NEW d \in Models
               PROVE  doc'[d].pending <=> \E r \in LiveFrames : r.doc = d /\ IsPresent(r)'
    BY <1>1 DEF FramesArePending
  <2>1. doc[d].pending <=> \E r \in LiveFrames : r.doc = d /\ IsPresent(r)
    BY DEF FramesInv, FramesArePending
  <2>2. CASE doc'[d].generation = doc[d].generation /\ doc'[d].pending = doc[d].pending
    BY <2>1, <2>2 DEF IsPresent
  <2>3. CASE doc'[d].generation = FreshGeneration(d) /\ ~doc'[d].pending
    BY <2>3, FreshIs DEF IsPresent
  <2> QED
    BY <2>2, <2>3 DEF Regenerated
<1> QED
  BY <1>2, <1>6, <1>7

-----------------------------------------------------------------------------
(* A side that is changed.                                                  *)

LEMMA InvalidatedIs ==
    ASSUME FramesInv, NEW d \in Models, NEW s \in SideStates
    PROVE  /\ Invalidated(d, s) \in SideStates
           /\ Invalidated(d, s).generation = FreshGeneration(d)
           /\ ~Invalidated(d, s).pending
           /\ Invalidated(d, s).view = s.view /\ Invalidated(d, s).linked = s.linked
           /\ Invalidated(d, s).dragging = s.dragging
           /\ Invalidated(d, s).scrubbing = s.scrubbing
           /\ Invalidated(d, s).clip = s.clip /\ Invalidated(d, s).offset = s.offset
           /\ Invalidated(d, s).duration = s.duration
           /\ Invalidated(d, s).playing = s.playing /\ Invalidated(d, s).pose = s.pose
<1> PICK g \in Nat : g = FreshGeneration(d)
  BY FreshIs
<1>1. Invalidated(d, s) = [s EXCEPT !.generation = g, !.pending = FALSE, !.error = FALSE]
  BY DEF Invalidated
<1> QED
  BY <1>1 DEF SideStates

LEMMA LesserIs ==
    ASSUME NEW a \in Nat, NEW b \in Nat
    PROVE  Lesser(a, b) \in Nat /\ Lesser(a, b) <= a /\ Lesser(a, b) <= b
BY DEF Lesser

LEMMA LongestIs ==
    ASSUME NEW sides, \A d \in Models : sides[d].clip \in Nat
    PROVE  Longest(sides) \in Nat
<1> PICK a \in Nat : a = sides[First].clip
  BY DEF Models
<1> PICK b \in Nat : b = sides[Second].clip
  BY DEF Models
<1>1. {sides[d].clip : d \in Models} = {a, b}
  BY DEF Models
<1>2. \E x \in {a, b} : \A y \in {a, b} : x >= y
  OBVIOUS
<1>3. Max({a, b}) \in {a, b}
  BY <1>2 DEF Max
<1> QED
  BY <1>1, <1>3 DEF Longest

\* The sides before their clock is set.
Clipped(sides) == sides \in [Models -> SideStates] /\ \A d \in Models : sides[d].clip \in Clips[d]

LEMMA SoughtIs ==
    ASSUME FramesInv, NEW sides, Clipped(sides), NEW t \in Nat
    PROVE  /\ SoundSides(Sought(sides, t)) /\ OneClock(Sought(sides, t))
           /\ \A d \in Models :
               /\ Sought(sides, t)[d].generation = FreshGeneration(d)
               /\ ~Sought(sides, t)[d].pending /\ ~Sought(sides, t)[d].playing
               /\ Sought(sides, t)[d].view = sides[d].view
               /\ Sought(sides, t)[d].linked = sides[d].linked
<1>1. PICK longest \in Nat : longest = Longest(sides)
  <2>1. \A d \in Models : sides[d].clip \in Nat
    BY DEF Clipped, SideStates
  <2> QED
    BY <2>1, LongestIs
<1>2. PICK offset \in Nat : offset = Lesser(t, longest) /\ offset <= longest
  BY LesserIs
<1> PICK sought : sought = Sought(sides, t)
  OBVIOUS
<1> DEFINE Rest(d) == [sides[d] EXCEPT !.playing = FALSE, !.offset = offset,
               !.duration = longest, !.pose = Lesser(offset, sides[d].clip)]
<1>3. sought = [d \in Models |-> Invalidated(d, Rest(d))]
  BY <1>1, <1>2 DEF Sought
<1>4. ASSUME NEW d \in Models
      PROVE  /\ Rest(d) \in SideStates
             /\ ~Rest(d).playing /\ Rest(d).offset = offset /\ Rest(d).duration = longest
             /\ Rest(d).pose = Lesser(offset, Rest(d).clip)
             /\ Rest(d).pose <= Rest(d).clip /\ Rest(d).clip = sides[d].clip
             /\ Rest(d).view = sides[d].view /\ Rest(d).linked = sides[d].linked
  <2> PICK s \in SideStates : s = sides[d]
    BY DEF Clipped
  <2>1. s.clip \in Nat
    BY DEF SideStates
  <2>2. PICK p \in Nat : p = Lesser(offset, s.clip) /\ p <= s.clip
    BY <2>1, LesserIs
  <2>3. Rest(d) = [s EXCEPT !.playing = FALSE, !.offset = offset, !.duration = longest, !.pose = p]
    BY <2>2
  <2> HIDE DEF Rest
  <2> QED
    BY <2>2, <2>3 DEF SideStates
<1> HIDE DEF Rest
<1>5. ASSUME NEW d \in Models
      PROVE  /\ sought[d] \in SideStates
             /\ sought[d].generation = FreshGeneration(d)
             /\ ~sought[d].pending /\ ~sought[d].playing
             /\ sought[d].view = sides[d].view /\ sought[d].linked = sides[d].linked
             /\ sought[d].offset = offset /\ sought[d].duration = longest
             /\ sought[d].pose = Lesser(offset, sought[d].clip)
             /\ sought[d].pose <= sought[d].clip /\ sought[d].clip = sides[d].clip
  <2> PICK s \in SideStates : s = Rest(d)
    BY <1>4
  <2>1. sought[d] = Invalidated(d, s)
    BY <1>3
  <2> QED
    BY <1>4, <2>1, InvalidatedIs
<1>6. SoundSides(sought)
  <2>1. sought \in [Models -> SideStates]
    BY <1>3, <1>5
  <2> QED
    BY <1>2, <1>5, <2>1 DEF SoundSides, Clipped
<1>7. First \in Models /\ Second \in Models
  BY DEF Models
<1>8. OneClock(sought)
  BY <1>5, <1>7 DEF OneClock
<1> QED
  BY <1>5, <1>6, <1>8

LEMMA PausedIs ==
    ASSUME FramesInv, NEW sides, Clipped(sides), NEW t \in Nat
    PROVE  /\ SoundSides(Paused(sides, t)) /\ OneClock(Paused(sides, t))
           /\ \A d \in Models :
               /\ Paused(sides, t)[d].generation = FreshGeneration(d)
               /\ ~Paused(sides, t)[d].pending /\ ~Paused(sides, t)[d].playing
               /\ Paused(sides, t)[d].view = sides[d].view
               /\ Paused(sides, t)[d].linked = sides[d].linked
<1> PICK sought : sought = Sought(sides, t)
  OBVIOUS
<1> PICK paused : paused = Paused(sides, t)
  OBVIOUS
<1>1. /\ SoundSides(sought) /\ OneClock(sought)
      /\ \A d \in Models :
          /\ sought[d].generation = FreshGeneration(d)
          /\ ~sought[d].pending /\ ~sought[d].playing
          /\ sought[d].view = sides[d].view /\ sought[d].linked = sides[d].linked
  BY SoughtIs
<1>2. paused = [d \in Models |-> [sought[d] EXCEPT !.dragging = FALSE, !.scrubbing = FALSE]]
  BY DEF Paused
<1>3. ASSUME NEW d \in Models
      PROVE  /\ paused[d] \in SideStates
             /\ paused[d].view = sought[d].view /\ paused[d].linked = sought[d].linked
             /\ paused[d].clip = sought[d].clip /\ paused[d].offset = sought[d].offset
             /\ paused[d].duration = sought[d].duration /\ paused[d].pose = sought[d].pose
             /\ paused[d].playing = sought[d].playing /\ paused[d].pending = sought[d].pending
             /\ paused[d].generation = sought[d].generation
  <2> PICK s \in SideStates : s = sought[d]
    BY <1>1 DEF SoundSides
  <2>1. paused[d] = [s EXCEPT !.dragging = FALSE, !.scrubbing = FALSE]
    BY <1>2
  <2> QED
    BY <2>1 DEF SideStates
<1>4. SoundSides(paused)
  <2>1. paused \in [Models -> SideStates]
    BY <1>2, <1>3
  <2> QED
    BY <1>1, <1>3, <2>1 DEF SoundSides
<1>5. First \in Models /\ Second \in Models
  BY DEF Models
<1>6. OneClock(paused)
  BY <1>1, <1>3, <1>5 DEF OneClock
<1> QED
  BY <1>1, <1>3, <1>4, <1>6

-----------------------------------------------------------------------------
(* The user's changes.                                                      *)

\* A step that leaves the clock alone.
SameClock ==
    /\ doc' \in [Models -> SideStates]
    /\ \A d \in Models :
        /\ doc'[d].clip = doc[d].clip /\ doc'[d].offset = doc[d].offset
        /\ doc'[d].duration = doc[d].duration /\ doc'[d].pose = doc[d].pose
        /\ doc'[d].playing = doc[d].playing

\* The screen after a step.
ScreenTyped ==
    /\ changes \in 0 .. MaxChanges
    /\ seen \in BOOLEAN /\ focused \in BOOLEAN /\ repaint \in BOOLEAN

LEMMA SteadyInv ==
    ASSUME FramesInv, SameClock, Regenerated, UNCHANGED jobVars, ScreenTyped',
           CamerasAgree', HiddenIsIdle'
    PROVE  FramesInv'
<1>1. SoundSides(doc) /\ OneClock(doc)
  BY DEF FramesInv
<1>2. SoundSides(doc')
  BY <1>1 DEF SoundSides, SameClock
<1>3. First \in Models /\ Second \in Models
  BY DEF Models
<1>4. OneClock(doc')
  BY <1>1, <1>3 DEF OneClock, SameClock
<1>5. LaneTyped' /\ ComesOnce' /\ FramesArePending'
  BY <1>2, PromisesHold
<1> QED
  BY <1>2, <1>4, <1>5 DEF FramesInv, ScreenTyped

\* Both sides come to rest, and keep their cameras.
AtRest ==
    /\ SoundSides(doc') /\ OneClock(doc')
    /\ \A d \in Models :
        /\ doc'[d].generation = FreshGeneration(d) /\ ~doc'[d].pending
        /\ doc'[d].view = doc[d].view /\ doc'[d].linked = doc[d].linked

LEMMA RestInv ==
    ASSUME FramesInv, AtRest, UNCHANGED jobVars, ScreenTyped',
           ~seen' => \A d \in Models : ~doc'[d].playing
    PROVE  FramesInv'
<1>1. LaneTyped' /\ ComesOnce' /\ FramesArePending'
  <2>1. SoundSides(doc') /\ Regenerated
    BY DEF AtRest, Regenerated
  <2> QED
    BY <2>1, PromisesHold
<1>2. First \in Models /\ Second \in Models
  BY DEF Models
<1>3. CamerasAgree'
  BY <1>2 DEF AtRest, CamerasAgree, FramesInv
<1>4. HiddenIsIdle'
  BY DEF AtRest, HiddenIsIdle
<1> QED
  BY <1>1, <1>3, <1>4 DEF FramesInv, AtRest, ScreenTyped

LEMMA CountedIs ==
    ASSUME ViewsAssumption, FramesInv, Using, Refreshed
    PROVE  ScreenTyped' /\ HiddenIsIdle' /\ seen' /\ UNCHANGED jobVars
BY DEF ViewsAssumption, FramesInv, Using, Refreshed, Counted, ScreenTyped, HiddenIsIdle

\* The fields of a side that a change of its camera leaves alone.
SameBut(m, s) ==
    /\ m.clip = s.clip /\ m.offset = s.offset /\ m.duration = s.duration
    /\ m.pose = s.pose /\ m.playing = s.playing
    /\ m.generation = s.generation /\ m.pending = s.pending

Turned(s, v) == [s EXCEPT !.view = v]
Told(s, link) == [s EXCEPT !.linked = link]

LEMMA TurnedIs ==
    ASSUME NEW s \in SideStates, NEW v \in Views
    PROVE  /\ Turned(s, v) \in SideStates /\ Turned(s, v).view = v
           /\ Turned(s, v).linked = s.linked /\ SameBut(Turned(s, v), s)
BY DEF SideStates, SameBut, Turned

LEMMA ToldIs ==
    ASSUME NEW s \in SideStates, NEW link \in BOOLEAN
    PROVE  /\ Told(s, link) \in SideStates /\ Told(s, link).linked = link
           /\ Told(s, link).view = s.view /\ SameBut(Told(s, link), s)
BY DEF SideStates, SameBut, Told

\* A side goes on with the clock it has, and waits as before or no more.
GoesOn(x, after) ==
    /\ after \in SideStates
    /\ after.clip = doc[x].clip /\ after.offset = doc[x].offset
    /\ after.duration = doc[x].duration /\ after.pose = doc[x].pose
    /\ after.playing = doc[x].playing
    /\ \/ after.generation = doc[x].generation /\ after.pending = doc[x].pending
       \/ after.generation = FreshGeneration(x) /\ ~after.pending

LEMMA MovesOn ==
    ASSUME FramesInv, NEW x \in Models, NEW m \in SideStates, SameBut(m, doc[x])
    PROVE  /\ GoesOn(x, m) /\ GoesOn(x, Invalidated(x, m))
           /\ Invalidated(x, m).linked = m.linked /\ Invalidated(x, m).view = m.view
<1>1. GoesOn(x, m)
  BY DEF SameBut, GoesOn
<1>2. GoesOn(x, Invalidated(x, m))
  BY InvalidatedIs DEF SameBut, GoesOn
<1> QED
  BY <1>1, <1>2, InvalidatedIs

LEMMA AllGoOn ==
    ASSUME doc' = [x \in Models |-> doc'[x]], \A x \in Models : GoesOn(x, doc'[x])
    PROVE  SameClock /\ Regenerated
BY DEF GoesOn, SameClock, Regenerated

LEMMA ChangeInv ==
    ASSUME ViewsAssumption, FramesInv, NEW d \in Models, NEW v \in Views, Change(d, v)
    PROVE  FramesInv'
<1> DEFINE Moves(x) == \/ x = d /\ (doc[d].view # v \/ doc[d].error)
                       \/ x # d /\ doc[d].linked /\ doc[x].view # v
<1>1. ASSUME NEW x \in Models
      PROVE  IF Moves(x) THEN doc'[x] = Invalidated(x, Turned(doc[x], v))
             ELSE doc'[x] = doc[x]
  BY DEF Change, Followed, Turned
<1>2. ASSUME NEW x \in Models
      PROVE  /\ GoesOn(x, doc'[x]) /\ doc'[x].linked = doc[x].linked
             /\ doc'[x].view = (IF Moves(x) THEN v ELSE doc[x].view)
  <2> PICK s \in SideStates : s = doc[x]
    BY DEF FramesInv, SoundSides
  <2> PICK m : m = Turned(s, v)
    OBVIOUS
  <2>1. m \in SideStates /\ m.view = v /\ m.linked = s.linked /\ SameBut(m, s)
    BY TurnedIs
  <2>2. CASE Moves(x)
    <3>1. doc'[x] = Invalidated(x, m)
      BY <1>1, <2>2
    <3> PICK after : after = Invalidated(x, m)
      OBVIOUS
    <3>2. GoesOn(x, after) /\ after.linked = m.linked /\ after.view = m.view
      BY <2>1, MovesOn
    <3>3. GoesOn(x, doc'[x]) /\ doc'[x].linked = doc[x].linked /\ doc'[x].view = v
      BY <2>1, <3>1, <3>2
    <3> QED
      BY <2>2, <3>3
  <2>3. CASE ~Moves(x)
    <3>1. doc'[x] = s
      BY <1>1, <2>3
    <3>2. GoesOn(x, s)
      BY DEF GoesOn
    <3> HIDE DEF Moves
    <3> QED
      BY <2>3, <3>1, <3>2
  <2> QED
    BY <2>2, <2>3
<1>3. doc' = [x \in Models |-> doc'[x]]
  BY DEF Change, Followed
<1>4. SameClock /\ Regenerated
  BY <1>2, <1>3, AllGoOn
<1>5. CamerasAgree'
  <2>1. First \in Models /\ Second \in Models
    BY DEF Models
  <2>2. ASSUME \A x \in Models : doc'[x].linked, NEW x \in Models PROVE doc'[x].view = v
    <3>1. doc[d].linked
      BY <1>2, <2>2
    <3> QED
      BY <1>2, <3>1
  <2> QED
    BY <2>1, <2>2 DEF CamerasAgree
<1>6. ScreenTyped' /\ HiddenIsIdle' /\ UNCHANGED jobVars
  BY CountedIs DEF Change
<1> QED
  BY <1>4, <1>5, <1>6, SteadyInv

\* A side is told to follow or not, and may take the other's camera.
LEMMA FollowerIs ==
    ASSUME FramesInv, NEW x \in Models, NEW link \in BOOLEAN, NEW v \in Views
    PROVE  LET m == Told(doc[x], link)
               n == Turned(m, v) IN
           /\ GoesOn(x, m) /\ m.linked = link /\ m.view = doc[x].view
           /\ GoesOn(x, Invalidated(x, n))
           /\ Invalidated(x, n).linked = link /\ Invalidated(x, n).view = v
<1> PICK s \in SideStates : s = doc[x]
  BY DEF FramesInv, SoundSides
<1> PICK m : m = Told(s, link)
  OBVIOUS
<1> PICK n : n = Turned(m, v)
  OBVIOUS
<1>1. m \in SideStates /\ m.linked = link /\ m.view = s.view /\ SameBut(m, s)
  BY ToldIs
<1>2. n \in SideStates /\ n.view = v /\ n.linked = m.linked /\ SameBut(n, m)
  BY <1>1, TurnedIs
<1>3. SameBut(n, s)
  BY <1>1, <1>2 DEF SameBut
<1> QED
  BY <1>1, <1>2, <1>3, MovesOn

LEMMA SetLinkedInv ==
    ASSUME ViewsAssumption, FramesInv, NEW d \in Models, SetLinked(d)
    PROVE  FramesInv'
<1> PICK v \in Views : v = doc[d].view
  BY DEF FramesInv, SoundSides, SideStates
<1>1. PICK link \in BOOLEAN : \A x \in Models :
          LET m == Told(doc[x], link)
          IN  doc'[x] = IF x # d /\ m.linked THEN Invalidated(x, Turned(m, v)) ELSE m
  <2>1. (~doc[d].linked) \in BOOLEAN
    OBVIOUS
  <2>2. \A x \in Models :
          LET m == Told(doc[x], ~doc[d].linked)
          IN  doc'[x] = IF x # d /\ m.linked THEN Invalidated(x, Turned(m, v)) ELSE m
    BY DEF SetLinked, Told, Turned
  <2> QED
    BY <2>1, <2>2
<1>2. ASSUME NEW x \in Models
      PROVE  /\ GoesOn(x, doc'[x]) /\ doc'[x].linked = link
             /\ link => doc'[x].view = v
  <2> PICK m : m = Told(doc[x], link)
    OBVIOUS
  <2> PICK n : n = Turned(m, v)
    OBVIOUS
  <2>1. doc'[x] = IF x # d /\ m.linked THEN Invalidated(x, n) ELSE m
    BY <1>1
  <2>2. /\ GoesOn(x, m) /\ m.linked = link /\ m.view = doc[x].view
        /\ GoesOn(x, Invalidated(x, n))
        /\ Invalidated(x, n).linked = link /\ Invalidated(x, n).view = v
    BY FollowerIs
  <2> QED
    BY <2>1, <2>2
<1>3. doc' = [x \in Models |-> doc'[x]]
  BY DEF SetLinked
<1>4. SameClock /\ Regenerated
  BY <1>2, <1>3, AllGoOn
<1>5. CamerasAgree'
  <2>1. First \in Models /\ Second \in Models
    BY DEF Models
  <2> QED
    BY <1>2, <2>1 DEF CamerasAgree
<1>6. ScreenTyped' /\ HiddenIsIdle' /\ UNCHANGED jobVars
  BY CountedIs DEF SetLinked
<1> QED
  BY <1>4, <1>5, <1>6, SteadyInv

\* A step that moves no camera either.
LEMMA CamerasStay ==
    ASSUME FramesInv, doc' = [x \in Models |-> doc'[x]],
           \A x \in Models : /\ GoesOn(x, doc'[x])
                             /\ doc'[x].view = doc[x].view /\ doc'[x].linked = doc[x].linked,
           ScreenTyped', HiddenIsIdle', UNCHANGED jobVars
    PROVE  FramesInv'
<1>1. SameClock /\ Regenerated
  BY AllGoOn
<1>2. CamerasAgree'
  <2>1. First \in Models /\ Second \in Models /\ CamerasAgree
    BY DEF Models, FramesInv
  <2> QED
    BY <2>1 DEF CamerasAgree
<1> QED
  BY <1>1, <1>2, SteadyInv

Held(s, b) == [s EXCEPT !.dragging = b]
LetGo(s) == [s EXCEPT !.dragging = FALSE, !.scrubbing = FALSE]

LEMMA HeldIs ==
    ASSUME NEW s \in SideStates, NEW b \in BOOLEAN
    PROVE  /\ Held(s, b) \in SideStates /\ SameBut(Held(s, b), s)
           /\ Held(s, b).view = s.view /\ Held(s, b).linked = s.linked
BY DEF SideStates, SameBut, Held

LEMMA LetGoIs ==
    ASSUME NEW s \in SideStates
    PROVE  /\ LetGo(s) \in SideStates /\ SameBut(LetGo(s), s)
           /\ LetGo(s).view = s.view /\ LetGo(s).linked = s.linked
BY DEF SideStates, SameBut, LetGo

LEMMA StaysIs ==
    ASSUME FramesInv, NEW x \in Models
    PROVE  doc[x] \in SideStates /\ GoesOn(x, doc[x])
BY DEF FramesInv, SoundSides, GoesOn

LEMMA PressInv ==
    ASSUME ViewsAssumption, FramesInv, NEW d \in Models, Press(d)
    PROVE  FramesInv'
<1>1. doc' = [x \in Models |-> IF x = d THEN Invalidated(d, Held(doc[d], TRUE)) ELSE doc[x]]
  <2>1. doc \in [Models -> SideStates]
    BY DEF FramesInv, SoundSides
  <2> QED
    BY <2>1 DEF Press, Held
<1>2. ASSUME NEW x \in Models
      PROVE  /\ GoesOn(x, doc'[x])
             /\ doc'[x].view = doc[x].view /\ doc'[x].linked = doc[x].linked
  <2>1. CASE x = d
    <3> PICK s \in SideStates : s = doc[d]
      BY StaysIs
    <3> PICK m \in SideStates :
            m = Held(s, TRUE) /\ SameBut(m, s) /\ m.view = s.view /\ m.linked = s.linked
      BY HeldIs
    <3>1. doc'[x] = Invalidated(x, m)
      BY <1>1, <2>1
    <3> QED
      BY <2>1, <3>1, MovesOn
  <2>2. CASE x # d
    BY <1>1, <2>2, StaysIs
  <2> QED
    BY <2>1, <2>2
<1>3. doc' = [x \in Models |-> doc'[x]]
  BY <1>1
<1>4. ScreenTyped' /\ HiddenIsIdle' /\ UNCHANGED jobVars
  BY CountedIs DEF Press
<1> QED
  BY <1>2, <1>3, <1>4, CamerasStay

LEMMA ReleaseInv ==
    ASSUME ViewsAssumption, FramesInv, Release
    PROVE  FramesInv'
<1>1. doc' = [x \in Models |-> IF doc[x].dragging \/ doc[x].scrubbing
                                THEN Invalidated(x, LetGo(doc[x])) ELSE doc[x]]
  BY DEF Release, LetGo
<1>2. ASSUME NEW x \in Models
      PROVE  /\ GoesOn(x, doc'[x])
             /\ doc'[x].view = doc[x].view /\ doc'[x].linked = doc[x].linked
  <2> PICK s \in SideStates : s = doc[x]
    BY StaysIs
  <2> PICK m \in SideStates :
          m = LetGo(s) /\ SameBut(m, s) /\ m.view = s.view /\ m.linked = s.linked
    BY LetGoIs
  <2>1. doc'[x] = Invalidated(x, m) \/ doc'[x] = s
    BY <1>1
  <2> QED
    BY <2>1, MovesOn, StaysIs
<1>3. doc' = [x \in Models |-> doc'[x]]
  BY <1>1
<1>4. ScreenTyped' /\ HiddenIsIdle' /\ UNCHANGED jobVars
  BY CountedIs DEF Release
<1> QED
  BY <1>2, <1>3, <1>4, CamerasStay

LEMMA MissReleaseInv ==
    ASSUME FramesInv, NEW d \in Models, MissRelease(d)
    PROVE  FramesInv'
<1>1. doc' = [x \in Models |-> IF x = d THEN Held(doc[d], FALSE) ELSE doc[x]]
  <2>1. doc \in [Models -> SideStates]
    BY DEF FramesInv, SoundSides
  <2> QED
    BY <2>1 DEF MissRelease, Held
<1>2. ASSUME NEW x \in Models
      PROVE  /\ GoesOn(x, doc'[x])
             /\ doc'[x].view = doc[x].view /\ doc'[x].linked = doc[x].linked
  <2>1. CASE x = d
    <3> PICK s \in SideStates : s = doc[d]
      BY StaysIs
    <3> PICK m \in SideStates :
            m = Held(s, FALSE) /\ SameBut(m, s) /\ m.view = s.view /\ m.linked = s.linked
      BY HeldIs
    <3>1. doc'[x] = m
      BY <1>1, <2>1
    <3> QED
      BY <2>1, <3>1, MovesOn
  <2>2. CASE x # d
    BY <1>1, <2>2, StaysIs
  <2> QED
    BY <2>1, <2>2
<1>3. doc' = [x \in Models |-> doc'[x]]
  BY <1>1
<1>4. ScreenTyped' /\ HiddenIsIdle' /\ UNCHANGED jobVars
  BY DEF MissRelease, Using, FramesInv, ScreenTyped, HiddenIsIdle
<1> QED
  BY <1>2, <1>3, <1>4, CamerasStay

-----------------------------------------------------------------------------
(* The clock.                                                               *)

\* A position of the clock is a time of the clips.
LEMMA PositionsAre == FramesInv => Positions(doc) \subseteq Nat
<1> SUFFICES ASSUME FramesInv PROVE Positions(doc) \subseteq Nat
  OBVIOUS
<1> PICK s \in SideStates : s = doc[First]
  BY StaysIs DEF Models
<1> PICK duration \in Nat : duration = s.duration
  BY DEF SideStates
<1>1. s.offset \in Nat
  BY DEF SideStates
<1>2. 0 .. duration - 1 \subseteq Nat
  OBVIOUS
<1> QED
  BY <1>1, <1>2 DEF Positions

LEMMA SecondsAre == ASSUME ClipsAssumption PROVE Seconds \subseteq Nat
<1>1. \A c \in UNION {Clips[d] : d \in Models} : c \in Nat
  BY DEF ClipsAssumption
<1>2. \A c \in Nat : 0 .. c \subseteq Nat
  OBVIOUS
<1> QED
  BY <1>1, <1>2 DEF Seconds

LEMMA SeekInv ==
    ASSUME ViewsAssumption, FramesInv, NEW t \in Nat, Seek(t)
    PROVE  FramesInv'
<1>1. doc' = Sought(doc, t)
  BY DEF Seek
<1>2. Clipped(doc)
  BY DEF FramesInv, SoundSides, Clipped
<1>3. AtRest
  BY <1>1, <1>2, SoughtIs DEF AtRest
<1>4. ScreenTyped' /\ seen' /\ UNCHANGED jobVars
  BY CountedIs DEF Seek
<1> QED
  BY <1>3, <1>4, RestInv

\* The clock is set on sides that keep their cameras.
LEMMA SetsTheClock ==
    ASSUME FramesInv, NEW sides, Clipped(sides), NEW t \in Nat,
           \A x \in Models : sides[x].view = doc[x].view /\ sides[x].linked = doc[x].linked,
           doc' = Sought(sides, t) \/ doc' = Paused(sides, t)
    PROVE  AtRest /\ \A x \in Models : ~doc'[x].playing
<1>1. CASE doc' = Sought(sides, t)
  BY <1>1, SoughtIs DEF AtRest
<1>2. CASE doc' = Paused(sides, t)
  BY <1>2, PausedIs DEF AtRest
<1> QED
  BY <1>1, <1>2

Scrubbed(s) == [s EXCEPT !.scrubbing = TRUE]

LEMMA ScrubInv ==
    ASSUME ViewsAssumption, FramesInv, NEW t \in Nat, Scrub(t)
    PROVE  FramesInv'
<1> PICK sides : sides = [x \in Models |-> Scrubbed(doc[x])]
  OBVIOUS
<1>1. doc' = Sought(sides, t)
  BY DEF Scrub, Scrubbed
<1>2. ASSUME NEW x \in Models
      PROVE  /\ sides[x] \in SideStates /\ sides[x].clip = doc[x].clip
             /\ sides[x].view = doc[x].view /\ sides[x].linked = doc[x].linked
  <2> PICK s \in SideStates : s = doc[x]
    BY StaysIs
  <2>1. sides[x] = Scrubbed(s)
    OBVIOUS
  <2> QED
    BY <2>1 DEF SideStates, Scrubbed
<1>3. Clipped(sides)
  BY <1>2 DEF FramesInv, SoundSides, Clipped
<1>4. AtRest
  BY <1>1, <1>2, <1>3, SetsTheClock
<1>5. ScreenTyped' /\ seen' /\ UNCHANGED jobVars
  BY CountedIs DEF Scrub
<1> QED
  BY <1>4, <1>5, RestInv

Choosing(s, c) == [s EXCEPT !.clip = c]

LEMMA ChoosingIs ==
    ASSUME NEW s \in SideStates, NEW c \in Nat
    PROVE  /\ Choosing(s, c) \in SideStates /\ Choosing(s, c).clip = c
           /\ Choosing(s, c).view = s.view /\ Choosing(s, c).linked = s.linked
BY DEF SideStates, Choosing

LEMMA ChooseClipInv ==
    ASSUME ClipsAssumption, ViewsAssumption, FramesInv,
           NEW d \in Models, NEW c \in Clips[d], ChooseClip(d, c)
    PROVE  FramesInv'
<1> PICK sides : sides = [x \in Models |-> IF x = d THEN Choosing(doc[d], c) ELSE doc[x]]
  OBVIOUS
<1>1. doc' = Sought(sides, 0)
  <2>1. doc \in [Models -> SideStates]
    BY DEF FramesInv, SoundSides
  <2>2. [doc EXCEPT ![d].clip = c] = sides
    BY <2>1 DEF Choosing
  <2> QED
    BY <2>2 DEF ChooseClip
<1>2. ASSUME NEW x \in Models
      PROVE  /\ sides[x] \in SideStates /\ sides[x].clip \in Clips[x]
             /\ sides[x].view = doc[x].view /\ sides[x].linked = doc[x].linked
  <2> PICK s \in SideStates : s = doc[x]
    BY StaysIs
  <2>1. CASE x = d
    <3>1. sides[x] = Choosing(s, c)
      BY <2>1
    <3>2. c \in Nat
      BY DEF ClipsAssumption
    <3> QED
      BY <2>1, <3>1, <3>2, ChoosingIs
  <2>2. CASE x # d
    BY <2>2 DEF FramesInv, SoundSides
  <2> QED
    BY <2>1, <2>2
<1>3. Clipped(sides)
  BY <1>2 DEF Clipped
<1>4. AtRest
  BY <1>1, <1>2, <1>3, SetsTheClock
<1>5. ScreenTyped' /\ seen' /\ UNCHANGED jobVars
  BY CountedIs DEF ChooseClip
<1> QED
  BY <1>4, <1>5, RestInv

Chosen(d) == IF Clips[d] = {0} THEN 0 ELSE Min(Clips[d] \ {0})
Runs(s, b) == [s EXCEPT !.playing = b]

LEMMA ChosenIs ==
    ASSUME ClipsAssumption, NEW d \in Models
    PROVE  Chosen(d) \in Clips[d]
<1> PICK clips \in SUBSET Nat : clips = Clips[d] /\ 0 \in clips
  BY DEF ClipsAssumption
<1>1. CASE clips = {0}
  BY <1>1 DEF Chosen
<1>2. CASE clips # {0}
  <2> DEFINE moving == clips \ {0}
  <2>1. moving # {} /\ moving \in SUBSET Nat
    BY <1>2
  <2>2. \E x \in moving : \A y \in moving : x =< y
    <3> HIDE DEF moving
    <3> QED
      BY <2>1, LeastNumber
  <2>3. Min(moving) \in moving
    BY <2>2 DEF Min
  <2> QED
    BY <1>2, <2>3 DEF Chosen
<1> QED
  BY <1>1, <1>2

LEMMA RunsIs ==
    ASSUME NEW s \in SideStates, NEW b \in BOOLEAN
    PROVE  /\ Runs(s, b) \in SideStates /\ Runs(s, b).playing = b
           /\ Runs(s, b).view = s.view /\ Runs(s, b).linked = s.linked
           /\ Runs(s, b).clip = s.clip /\ Runs(s, b).offset = s.offset
           /\ Runs(s, b).duration = s.duration /\ Runs(s, b).pose = s.pose
           /\ Runs(s, b).generation = s.generation /\ Runs(s, b).pending = s.pending
BY DEF SideStates, Runs

LEMMA PlayInv ==
    ASSUME ClipsAssumption, ViewsAssumption, FramesInv, Play
    PROVE  FramesInv'
<1> PICK idle \in BOOLEAN : idle = ~\E d \in Models : doc[d].playing
  OBVIOUS
<1> PICK sides : sides = IF idle /\ Longest(doc) = 0
                         THEN [x \in Models |-> Choosing(doc[x], Chosen(x))] ELSE doc
  OBVIOUS
<1>1. PICK t \in Positions(doc) :
          doc' = [x \in Models |->
                Runs(Sought(sides, t)[x], idle /\ Sought(sides, t)[x].duration > 0)]
  BY DEF Play, Choosing, Chosen, Runs
<1> t \in Nat
  BY PositionsAre
<1>2. ASSUME NEW x \in Models
      PROVE  /\ sides[x] \in SideStates /\ sides[x].clip \in Clips[x]
             /\ sides[x].view = doc[x].view /\ sides[x].linked = doc[x].linked
  <2> PICK s \in SideStates : s = doc[x]
    BY StaysIs
  <2>1. CASE sides = doc
    BY <2>1 DEF FramesInv, SoundSides
  <2>2. CASE sides = [y \in Models |-> Choosing(doc[y], Chosen(y))]
    <3> PICK c \in Nat : c = Chosen(x) /\ c \in Clips[x]
      BY ChosenIs DEF ClipsAssumption
    <3>1. sides[x] = Choosing(s, c)
      BY <2>2
    <3> QED
      BY <3>1, ChoosingIs
  <2> QED
    BY <2>1, <2>2
<1>3. Clipped(sides)
  <2>1. sides = [x \in Models |-> sides[x]]
    BY DEF FramesInv, SoundSides
  <2> QED
    BY <1>2, <2>1 DEF Clipped
<1> PICK sought : sought = Sought(sides, t)
  OBVIOUS
<1>4. /\ SoundSides(sought) /\ OneClock(sought)
      /\ \A x \in Models :
          /\ sought[x].generation = FreshGeneration(x)
          /\ ~sought[x].pending /\ ~sought[x].playing
          /\ sought[x].view = doc[x].view /\ sought[x].linked = doc[x].linked
  BY <1>2, <1>3, SoughtIs
<1>5. PICK runs \in BOOLEAN : doc' = [x \in Models |-> Runs(sought[x], runs)]
  <2>1. PICK runs \in BOOLEAN : runs = (idle /\ sought[First].duration > 0)
    OBVIOUS
  <2>2. \A x \in Models : sought[x].duration = sought[First].duration
    BY <1>4 DEF OneClock, Models
  <2>3. \A x \in Models : (idle /\ sought[x].duration > 0) = runs
    BY <2>1, <2>2
  <2> QED
    BY <1>1, <2>3
<1>6. ASSUME NEW x \in Models
      PROVE  /\ doc'[x] \in SideStates /\ doc'[x].playing = runs
             /\ doc'[x].view = sought[x].view /\ doc'[x].linked = sought[x].linked
             /\ doc'[x].clip = sought[x].clip /\ doc'[x].offset = sought[x].offset
             /\ doc'[x].duration = sought[x].duration /\ doc'[x].pose = sought[x].pose
             /\ doc'[x].generation = sought[x].generation /\ ~doc'[x].pending
  <2> PICK s \in SideStates : s = sought[x]
    BY <1>4 DEF SoundSides
  <2>1. doc'[x] = Runs(s, runs)
    BY <1>5
  <2> QED
    BY <1>4, <2>1, RunsIs
<1>7. SoundSides(doc')
  <2>1. doc' \in [Models -> SideStates]
    BY <1>5, <1>6
  <2> QED
    BY <1>4, <1>6, <2>1 DEF SoundSides
<1>8. OneClock(doc')
  <2>1. First \in Models /\ Second \in Models
    BY DEF Models
  <2>2. doc'[First].playing <=> doc'[Second].playing
    BY <1>6, <2>1
  <2>3. doc'[First].offset = doc'[Second].offset /\ doc'[First].duration = doc'[Second].duration
    BY <1>4, <1>6, <2>1 DEF OneClock
  <2>4. ASSUME NEW x \in Models PROVE doc'[x].pose = Lesser(doc'[x].offset, doc'[x].clip)
    <3>1. sought[x].pose = Lesser(sought[x].offset, sought[x].clip)
      BY <1>4 DEF OneClock
    <3>2. /\ doc'[x].pose = sought[x].pose /\ doc'[x].offset = sought[x].offset
          /\ doc'[x].clip = sought[x].clip
      BY <1>6
    <3> QED
      BY <3>1, <3>2
  <2> QED
    BY <2>2, <2>3, <2>4 DEF OneClock
<1>9. AtRest
  <2>1. \A x \in Models : doc'[x].generation = FreshGeneration(x) /\ ~doc'[x].pending
    BY <1>4, <1>6
  <2>2. \A x \in Models : doc'[x].view = doc[x].view /\ doc'[x].linked = doc[x].linked
    BY <1>4, <1>6
  <2> QED
    BY <1>7, <1>8, <2>1, <2>2 DEF AtRest
<1>10. ScreenTyped' /\ seen' /\ UNCHANGED jobVars
  BY CountedIs DEF Play
<1> QED
  BY <1>9, <1>10, RestInv

LEMMA CountsUp ==
    ASSUME ViewsAssumption, FramesInv, Counted
    PROVE  changes' \in 0 .. MaxChanges
BY DEF ViewsAssumption, FramesInv, Counted

LEMMA HideModelsInv ==
    ASSUME ViewsAssumption, FramesInv, HideModels
    PROVE  FramesInv'
<1>1. PICK t \in Nat : doc' = Paused(doc, t)
  BY PositionsAre DEF HideModels
<1>2. Clipped(doc)
  BY DEF FramesInv, SoundSides, Clipped
<1>3. AtRest /\ \A x \in Models : ~doc'[x].playing
  BY <1>1, <1>2, SetsTheClock
<1>4. ScreenTyped' /\ UNCHANGED jobVars
  <2>1. changes' \in 0 .. MaxChanges
    BY CountsUp DEF HideModels
  <2> QED
    BY <2>1 DEF HideModels, FramesInv, ScreenTyped
<1> QED
  BY <1>3, <1>4, RestInv

LEMMA ShowModelsInv ==
    ASSUME ViewsAssumption, FramesInv, ShowModels \/ Activate
    PROVE  FramesInv'
<1>1. doc' = doc /\ UNCHANGED jobVars /\ ScreenTyped' /\ (seen' = seen \/ seen')
  <2>1. CASE ShowModels
    BY <2>1 DEF ShowModels, FramesInv, ScreenTyped
  <2>2. CASE Activate
    <3>1. changes' \in 0 .. MaxChanges
      BY <2>2, CountsUp DEF Activate
    <3> QED
      BY <2>2, <3>1 DEF Activate, FramesInv, ScreenTyped
  <2> QED
    BY <2>1, <2>2
<1>2. doc' = [x \in Models |-> doc'[x]]
  BY <1>1 DEF FramesInv, SoundSides
<1>3. HiddenIsIdle'
  BY <1>1 DEF FramesInv, HiddenIsIdle
<1> QED
  BY <1>1, <1>2, <1>3, StaysIs, CamerasStay

-----------------------------------------------------------------------------
(* The lane.                                                                *)

\* Nobody waits: what is still to come is of an earlier generation.
LEMMA NothingAwaited ==
    ASSUME FramesInv, AtRest, LiveFrames' \subseteq LiveFrames
    PROVE  ComesOnce' /\ FramesArePending'
<1>1. LiveFrames \subseteq FrameRequests
  BY DEF FramesInv, LaneTyped, LiveFrames, FrameAnswers
<1>2. \A r \in LiveFrames' : ~IsPresent(r)'
  BY <1>1, FreshIs DEF AtRest, IsPresent, FrameRequests
<1>3. /\ slot' \subseteq LiveFrames' /\ drawing' \subseteq LiveFrames'
      /\ \A a \in frames' : a.requests \subseteq LiveFrames'
  BY DEF LiveFrames
<1>4. ComesOnce'
  BY <1>2, <1>3 DEF ComesOnce
<1>5. FramesArePending'
  BY <1>2 DEF AtRest, FramesArePending
<1> QED
  BY <1>4, <1>5

LEMMA AnswerIs ==
    ASSUME FramesInv, NEW set \in SUBSET FrameRequests, NEW done \in BOOLEAN,
           NEW failed \in SUBSET Models, AnswerJob(set, done, failed)
    PROVE  /\ frames' \in SUBSET FrameAnswers /\ frames \subseteq frames'
           /\ \A a \in frames' : a \in frames \/ a.requests = set
           /\ \A a, b \in frames' : a \in frames \/ b \in frames \/ a = b
           /\ \A r \in set : IsPresent(r) => \E a \in frames' : a.requests = set
<1> PICK new : new = [requests |-> set, done |-> done, failed |-> failed]
  OBVIOUS
<1>1. new \in FrameAnswers /\ new.requests = set
  BY DEF FrameAnswers
<1>2. IF \E r \in set : IsPresent(r) THEN frames' = frames \cup {new} ELSE frames' = frames
  BY DEF AnswerJob
<1>3. frames \in SUBSET FrameAnswers
  BY DEF FramesInv, LaneTyped
<1> QED
  BY <1>1, <1>2, <1>3

LEMMA TakeJobInv == ASSUME FramesInv, TakeJob PROVE FramesInv'
<1>1. LiveFrames' = LiveFrames /\ doc' = doc /\ frames' = frames
  BY DEF TakeJob, LiveFrames, Idle
<1>2. \A r : IsPresent(r)' = IsPresent(r)
  BY <1>1 DEF IsPresent
<1>3. LaneTyped'
  <2>1. LaneTyped
    BY DEF FramesInv
  <2> QED
    BY <1>1, <2>1 DEF LaneTyped, TakeJob, Idle
<1>4. ComesOnce'
  <2>1. ComesOnce
    BY DEF FramesInv
  <2> QED
    BY <1>1, <1>2, <2>1 DEF ComesOnce, TakeJob, Idle
<1>5. FramesArePending'
  <2>1. FramesArePending
    BY DEF FramesInv
  <2> QED
    BY <1>1, <1>2, <2>1 DEF FramesArePending
<1> QED
  BY <1>1, <1>3, <1>4, <1>5 DEF FramesInv, TakeJob, CamerasAgree, HiddenIsIdle

LEMMA FinishJobInv == ASSUME FramesInv, FinishJob PROVE FramesInv'
<1>1. doc' = doc /\ slot' = slot /\ drawing' = {}
  BY DEF FinishJob, Idle
<1>2. drawing \in SUBSET FrameRequests /\ slot \in SUBSET FrameRequests
  BY DEF FramesInv, LaneTyped
<1>3. PICK done \in BOOLEAN, failed \in SUBSET Models : AnswerJob(drawing, done, failed)
  <2>1. CASE \A r \in drawing : IsPresent(r)
    <3>1. PICK failed \in SUBSET {r.doc : r \in drawing} : AnswerJob(drawing, TRUE, failed)
      BY <2>1 DEF FinishJob
    <3>2. failed \in SUBSET Models
      BY <1>2 DEF FrameRequests
    <3> QED
      BY <3>1, <3>2
  <2>2. CASE ~\A r \in drawing : IsPresent(r)
    BY <2>2 DEF FinishJob
  <2> QED
    BY <2>1, <2>2
<1>4. /\ frames' \in SUBSET FrameAnswers /\ frames \subseteq frames'
      /\ \A a \in frames' : a \in frames \/ a.requests = drawing
      /\ \A a, b \in frames' : a \in frames \/ b \in frames \/ a = b
      /\ \A r \in drawing : IsPresent(r) => \E a \in frames' : a.requests = drawing
  BY <1>2, <1>3, AnswerIs
<1>5. LiveFrames' \subseteq LiveFrames
  BY <1>1, <1>4 DEF LiveFrames
<1>6. \A r \in LiveFrames : IsPresent(r) => r \in LiveFrames'
  BY <1>1, <1>4 DEF LiveFrames
<1>7. \A r : IsPresent(r)' = IsPresent(r)
  BY <1>1 DEF IsPresent
<1>8. LaneTyped'
  <2>1. IsFiniteSet(LiveFrames')
    BY <1>5, FS_Subset DEF FramesInv, LaneTyped
  <2> QED
    BY <1>1, <1>2, <1>4, <2>1 DEF LaneTyped
<1>9. ComesOnce'
  <2>1. /\ \A r \in slot \cup drawing, a \in frames : \A q \in a.requests :
               r.doc = q.doc /\ IsPresent(r) => ~IsPresent(q)
        /\ \A r \in slot, q \in drawing : r.doc = q.doc /\ IsPresent(r) => ~IsPresent(q)
        /\ \A a, b \in frames : \A r \in a.requests, q \in b.requests :
               r.doc = q.doc /\ IsPresent(r) /\ IsPresent(q) => a = b
    BY DEF FramesInv, ComesOnce
  <2>2. \A r \in slot, a \in frames' : \A q \in a.requests :
            r.doc = q.doc /\ IsPresent(r) => ~IsPresent(q)
    BY <1>4, <2>1
  <2>3. \A a, b \in frames' : \A r \in a.requests, q \in b.requests :
            r.doc = q.doc /\ IsPresent(r) /\ IsPresent(q) => a = b
    BY <1>4, <2>1
  <2> QED
    BY <1>1, <1>7, <2>2, <2>3 DEF ComesOnce
<1>10. FramesArePending'
  <2>1. FramesArePending
    BY DEF FramesInv
  <2> QED
    BY <1>1, <1>5, <1>6, <1>7, <2>1 DEF FramesArePending
<1> QED
  BY <1>1, <1>8, <1>9, <1>10 DEF FramesInv, FinishJob, CamerasAgree, HiddenIsIdle

-----------------------------------------------------------------------------
(* Painting.                                                                *)

Posed(s, p) == [s EXCEPT !.pose = p]
Awaiting(s, b) == [s EXCEPT !.pending = b]

\* A side that keeps its clip, its camera and, at rest, its pose.
SameBesides(a, b) ==
    /\ a \in SideStates
    /\ a.clip = b.clip /\ a.offset = b.offset /\ a.duration = b.duration
    /\ a.playing = b.playing /\ a.view = b.view /\ a.linked = b.linked
    /\ a.generation = b.generation /\ a.pose <= a.clip
    /\ ~a.playing => a.pose = b.pose

LEMMA BesidesIs ==
    ASSUME FramesInv, NEW after, after = [x \in Models |-> after[x]],
           \A x \in Models : SameBesides(after[x], doc[x])
    PROVE  /\ SoundSides(after) /\ OneClock(after)
           /\ (\A x \in Models : after[x].linked) => after[First].view = after[Second].view
<1>1. SoundSides(doc) /\ OneClock(doc) /\ CamerasAgree
  BY DEF FramesInv
<1>2. First \in Models /\ Second \in Models
  BY DEF Models
<1>3. SoundSides(after)
  <2>1. after \in [Models -> SideStates]
    BY DEF SameBesides
  <2> QED
    BY <1>1, <2>1 DEF SoundSides, SameBesides
<1>4. OneClock(after)
  <2>1. after[First].playing <=> after[Second].playing
    BY <1>1, <1>2 DEF OneClock, SameBesides
  <2>2. after[First].offset = after[Second].offset /\ after[First].duration = after[Second].duration
    BY <1>1, <1>2 DEF OneClock, SameBesides
  <2>3. ASSUME NEW x \in Models, ~after[x].playing
        PROVE  after[x].pose = Lesser(after[x].offset, after[x].clip)
    <3>1. /\ ~doc[x].playing /\ after[x].pose = doc[x].pose
          /\ after[x].offset = doc[x].offset /\ after[x].clip = doc[x].clip
      BY <2>3 DEF SameBesides
    <3>2. doc[x].pose = Lesser(doc[x].offset, doc[x].clip)
      BY <1>1, <3>1 DEF OneClock
    <3> QED
      BY <3>1, <3>2
  <2> QED
    BY <2>1, <2>2, <2>3 DEF OneClock
<1>5. (\A x \in Models : after[x].linked) => after[First].view = after[Second].view
  BY <1>1, <1>2 DEF CamerasAgree, SameBesides
<1> QED
  BY <1>3, <1>4, <1>5

LEMMA PosedIs ==
    ASSUME NEW s \in SideStates, NEW p \in Nat
    PROVE  /\ Posed(s, p) \in SideStates /\ Posed(s, p).pose = p
           /\ Posed(s, p).view = s.view /\ Posed(s, p).linked = s.linked
           /\ Posed(s, p).clip = s.clip /\ Posed(s, p).offset = s.offset
           /\ Posed(s, p).duration = s.duration /\ Posed(s, p).playing = s.playing
           /\ Posed(s, p).generation = s.generation /\ Posed(s, p).pending = s.pending
BY DEF SideStates, Posed

LEMMA AwaitingIs ==
    ASSUME NEW s \in SideStates, NEW b \in BOOLEAN
    PROVE  /\ Awaiting(s, b) \in SideStates /\ Awaiting(s, b).pending = b
           /\ Awaiting(s, b).view = s.view /\ Awaiting(s, b).linked = s.linked
           /\ Awaiting(s, b).clip = s.clip /\ Awaiting(s, b).offset = s.offset
           /\ Awaiting(s, b).duration = s.duration /\ Awaiting(s, b).playing = s.playing
           /\ Awaiting(s, b).generation = s.generation /\ Awaiting(s, b).pose = s.pose
BY DEF SideStates, Awaiting

LEMMA WantedIs == ASSUME NEW s \in SideStates PROVE Wanted(s) \in Pictures
<1>1. Low(s) \in BOOLEAN
  BY DEF Low
<1> QED
  BY <1>1 DEF Wanted, Pictures, SideStates

LEMMA TickedIs ==
    ASSUME FramesInv, NEW t \in Nat
    PROVE  \A x \in Models : /\ SameBesides(Ticked(t)[x], doc[x])
                             /\ Ticked(t)[x].pending = doc[x].pending
<1> PICK ticked : ticked = Ticked(t)
  OBVIOUS
<1>1. ticked = [x \in Models |-> IF doc[x].playing /\ ~doc[x].pending
                                  THEN Posed(doc[x], Lesser(t, doc[x].clip)) ELSE doc[x]]
  BY DEF Ticked, Posed
<1>2. ASSUME NEW x \in Models
      PROVE  SameBesides(ticked[x], doc[x]) /\ ticked[x].pending = doc[x].pending
  <2> PICK s \in SideStates : s = doc[x] /\ s.pose <= s.clip
    BY DEF FramesInv, SoundSides
  <2>1. CASE s.playing /\ ~s.pending
    <3>1. s.clip \in Nat
      BY DEF SideStates
    <3> PICK p \in Nat : p = Lesser(t, s.clip) /\ p <= s.clip
      BY <3>1, LesserIs
    <3> PICK k : k = Posed(s, p)
      OBVIOUS
    <3>2. ticked[x] = k
      BY <1>1, <2>1
    <3>3. k \in SideStates /\ k.pose <= k.clip
      BY PosedIs
    <3>4. /\ k.clip = s.clip /\ k.offset = s.offset /\ k.duration = s.duration
          /\ k.playing = s.playing /\ k.view = s.view /\ k.linked = s.linked
          /\ k.generation = s.generation /\ k.pending = s.pending
      BY PosedIs
    <3> QED
      BY <2>1, <3>2, <3>3, <3>4 DEF SameBesides
  <2>2. CASE ~(s.playing /\ ~s.pending)
    <3>1. ticked[x] = s
      BY <1>1, <2>2
    <3> QED
      BY <3>1 DEF SameBesides
  <2> QED
    BY <2>1, <2>2
<1> QED
  BY <1>2

\* The sides that wait for nothing ask for a frame.
LEMMA AsksOnce ==
    ASSUME FramesInv, NEW asking \in SUBSET Models, \A d \in asking : ~doc[d].pending,
           NEW pictures \in [Models -> Pictures],
           NEW set, set = {[doc |-> d, generation |-> doc[d].generation,
                            frame |-> pictures[d]] : d \in asking},
           Replaced(set), drawing' = drawing,
           \A d \in Models : /\ doc'[d].generation = doc[d].generation
                             /\ doc'[d].pending = (doc[d].pending \/ d \in asking)
    PROVE  LaneTyped' /\ ComesOnce' /\ FramesArePending'
<1>1. /\ slot \in SUBSET FrameRequests /\ drawing \in SUBSET FrameRequests
      /\ frames \in SUBSET FrameAnswers /\ IsFiniteSet(LiveFrames)
  BY DEF FramesInv, LaneTyped
<1>2. /\ frames' \in SUBSET FrameAnswers /\ frames \subseteq frames'
      /\ \A a \in frames' : a \in frames \/ a.requests = slot
      /\ \A a, b \in frames' : a \in frames \/ b \in frames \/ a = b
      /\ \A r \in slot : IsPresent(r) => \E a \in frames' : a.requests = slot
  BY <1>1, AnswerIs DEF Replaced
<1>3. \A d \in Models : doc[d].generation \in Nat
  BY StaysIs DEF SideStates
<1>4. /\ set \in SUBSET FrameRequests
      /\ \A r \in set : r.doc \in asking /\ r.generation = doc[r.doc].generation
      /\ \A d \in asking : \E r \in set : r.doc = d
  <2> DEFINE Asked(d) == [doc |-> d, generation |-> doc[d].generation, frame |-> pictures[d]]
  <2>1. set = {Asked(d) : d \in asking}
    OBVIOUS
  <2>2. \A d \in asking : /\ Asked(d) \in FrameRequests /\ Asked(d).doc = d
                          /\ Asked(d).generation = doc[d].generation
    BY <1>3 DEF FrameRequests
  <2> HIDE DEF Asked
  <2> QED
    BY <2>1, <2>2
<1>5. IsFiniteSet(set)
  <2> DEFINE f == [d \in asking |-> [doc |-> d, generation |-> doc[d].generation,
                                     frame |-> pictures[d]]]
  <2>1. f \in Surjection(asking, set)
    BY DEF Surjection
  <2>2. IsFiniteSet({First, Second})
    <3>1. IsFiniteSet({First})
      BY FS_Singleton
    <3>2. {First, Second} = {First} \cup {Second}
      OBVIOUS
    <3> QED
      BY <3>1, <3>2, FS_AddElement
  <2>3. IsFiniteSet(asking)
    BY <2>2, FS_Subset DEF Models
  <2> QED
    BY <2>1, <2>3, FS_Surjection
<1>6. slot' = set
  BY DEF Replaced
<1>7. \A r \in FrameRequests : IsPresent(r)' <=> IsPresent(r)
  BY DEF IsPresent, FrameRequests
<1>8. /\ slot \subseteq LiveFrames /\ drawing \subseteq LiveFrames
      /\ \A a \in frames : a.requests \subseteq LiveFrames
      /\ LiveFrames \subseteq FrameRequests
  BY <1>1 DEF LiveFrames, FrameAnswers
<1>9. LiveFrames' \subseteq set \cup LiveFrames
  BY <1>2, <1>6 DEF LiveFrames
<1>10. /\ set \subseteq LiveFrames'
       /\ \A r \in LiveFrames : IsPresent(r) => r \in LiveFrames'
  BY <1>2, <1>6 DEF LiveFrames
<1>11. \A d \in Models : doc[d].pending <=> \E r \in LiveFrames : r.doc = d /\ IsPresent(r)
  BY DEF FramesInv, FramesArePending
<1>12. LaneTyped'
  <2>1. IsFiniteSet(set \cup LiveFrames)
    BY <1>1, <1>5, FS_Union
  <2>2. IsFiniteSet(LiveFrames')
    BY <1>9, <2>1, FS_Subset
  <2> QED
    BY <1>1, <1>2, <1>4, <1>6, <2>2 DEF LaneTyped
<1>13. \A r \in set, q \in LiveFrames : r.doc = q.doc => ~IsPresent(q)
  <2> SUFFICES ASSUME NEW r \in set, NEW q \in LiveFrames, r.doc = q.doc, IsPresent(q)
               PROVE  FALSE
    OBVIOUS
  <2>1. r.doc \in Models /\ ~doc[r.doc].pending
    BY <1>4
  <2> QED
    BY <1>11, <2>1
<1>14. ComesOnce'
  <2>1. /\ \A r \in slot \cup drawing, a \in frames : \A q \in a.requests :
               r.doc = q.doc /\ IsPresent(r) => ~IsPresent(q)
        /\ \A r \in slot, q \in drawing : r.doc = q.doc /\ IsPresent(r) => ~IsPresent(q)
        /\ \A a, b \in frames : \A r \in a.requests, q \in b.requests :
               r.doc = q.doc /\ IsPresent(r) /\ IsPresent(q) => a = b
    BY DEF FramesInv, ComesOnce
  <2>2. \A r \in set, q \in drawing : r.doc = q.doc => ~IsPresent(q)
    BY <1>8, <1>13
  <2>3. \A a \in frames' : a.requests \subseteq LiveFrames
    BY <1>2, <1>8
  <2>4. \A r \in set, a \in frames' : \A q \in a.requests : r.doc = q.doc => ~IsPresent(q)
    BY <1>13, <2>3
  <2>5. \A r \in drawing, a \in frames' : \A q \in a.requests :
            r.doc = q.doc /\ IsPresent(r) => ~IsPresent(q)
    BY <1>2, <2>1
  <2>6. \A a, b \in frames' : \A r \in a.requests, q \in b.requests :
            r.doc = q.doc /\ IsPresent(r) /\ IsPresent(q) => a = b
    BY <1>2, <2>1
  <2>7. /\ set \subseteq FrameRequests /\ drawing \subseteq FrameRequests
        /\ \A a \in frames' : a.requests \subseteq FrameRequests
    BY <1>4, <1>8, <2>3
  <2> QED
    BY <1>6, <1>7, <2>2, <2>4, <2>5, <2>6, <2>7 DEF ComesOnce
<1>15. FramesArePending'
  <2> SUFFICES ASSUME NEW d \in Models
               PROVE  doc'[d].pending <=> \E r \in LiveFrames' : r.doc = d /\ IsPresent(r)'
    BY DEF FramesArePending
  <2>1. CASE d \in asking
    <3>1. PICK r \in set : r.doc = d
      BY <1>4, <2>1
    <3>2. IsPresent(r)'
      BY <1>4, <1>7, <3>1 DEF IsPresent
    <3> QED
      BY <1>10, <2>1, <3>1, <3>2
  <2>2. CASE d \notin asking
    <3>1. doc'[d].pending <=> \E r \in LiveFrames : r.doc = d /\ IsPresent(r)
      BY <1>11, <2>2
    <3>2. \A r \in LiveFrames' : r.doc = d => r \in LiveFrames
      BY <1>4, <1>9, <2>2
    <3>3. \A r \in LiveFrames : IsPresent(r)' <=> IsPresent(r)
      BY <1>7, <1>8
    <3> QED
      BY <1>10, <3>1, <3>2, <3>3
  <2> QED
    BY <2>1, <2>2
<1> QED
  BY <1>12, <1>14, <1>15

LEMMA PaintInv ==
    ASSUME ViewsAssumption, FramesInv, Paint
    PROVE  FramesInv'
<1>1. /\ seen /\ seen' /\ UNCHANGED <<seen, focused, drawing, changes>>
      /\ \A x \in Models : doc[x] \in SideStates
  BY StaysIs DEF Paint
<1>2. CASE ~focused
  <2>1. PICK t \in Nat : doc' = Paused(doc, t) /\ repaint' = FALSE /\ UNCHANGED <<slot, frames>>
    BY <1>2, PositionsAre DEF Paint
  <2>2. Clipped(doc)
    BY DEF FramesInv, SoundSides, Clipped
  <2>3. AtRest
    BY <2>1, <2>2, SetsTheClock
  <2>4. ScreenTyped' /\ UNCHANGED jobVars
    BY <1>1, <2>1 DEF FramesInv, ScreenTyped, jobVars
  <2> QED
    BY <1>1, <2>3, <2>4, RestInv
<1>3. CASE focused
  <2>1. PICK t \in Nat :
          LET ticked == Ticked(t)
              asking == {d \in Models : Needs(ticked[d])}
              set == {[doc |-> d, generation |-> doc[d].generation,
                       frame |-> Wanted(ticked[d])] : d \in asking}
          IN  /\ doc' = [d \in Models |->
                            Awaiting(ticked[d], ticked[d].pending \/ d \in asking)]
              /\ IF asking = {} THEN UNCHANGED <<slot, frames>> ELSE Replaced(set)
    BY <1>3, PositionsAre DEF Paint, Awaiting
  <2> PICK ticked : ticked = Ticked(t)
    OBVIOUS
  <2> PICK asking \in SUBSET Models : asking = {d \in Models : Needs(ticked[d])}
    OBVIOUS
  <2> PICK pictures : pictures = [d \in Models |-> Wanted(ticked[d])]
    OBVIOUS
  <2> PICK set : set = {[doc |-> d, generation |-> doc[d].generation,
                         frame |-> pictures[d]] : d \in asking}
    OBVIOUS
  <2>2. /\ doc' = [d \in Models |-> Awaiting(ticked[d], ticked[d].pending \/ d \in asking)]
        /\ IF asking = {} THEN UNCHANGED <<slot, frames>> ELSE Replaced(set)
    BY <2>1
  <2>3. \A d \in Models : SameBesides(ticked[d], doc[d]) /\ ticked[d].pending = doc[d].pending
    BY TickedIs
  <2>4. ASSUME NEW d \in Models
        PROVE  /\ SameBesides(doc'[d], doc[d])
               /\ doc'[d].pending = (doc[d].pending \/ d \in asking)
    <3> PICK s \in SideStates : s = ticked[d]
      BY <2>3 DEF SameBesides
    <3> PICK b \in BOOLEAN : b = (doc[d].pending \/ d \in asking)
      OBVIOUS
    <3>1. doc'[d] = Awaiting(s, b)
      BY <2>2, <2>3
    <3> PICK k : k = Awaiting(s, b)
      OBVIOUS
    <3>2. /\ k \in SideStates /\ k.pending = b
          /\ k.clip = s.clip /\ k.offset = s.offset /\ k.duration = s.duration
          /\ k.playing = s.playing /\ k.view = s.view /\ k.linked = s.linked
          /\ k.generation = s.generation /\ k.pose = s.pose
      BY AwaitingIs
    <3> QED
      BY <2>3, <3>1, <3>2 DEF SameBesides
  <2>5. doc' = [d \in Models |-> doc'[d]]
    BY <2>2
  <2>6. SoundSides(doc') /\ OneClock(doc') /\ CamerasAgree'
    BY <2>4, <2>5, BesidesIs DEF CamerasAgree
  <2>7. LaneTyped' /\ ComesOnce' /\ FramesArePending'
    <3>1. CASE asking = {}
      <4>1. UNCHANGED jobVars
        BY <1>1, <2>2, <3>1 DEF jobVars
      <4>2. Regenerated
        <5>1. ASSUME NEW d \in Models
              PROVE  doc'[d].generation = doc[d].generation /\ doc'[d].pending = doc[d].pending
          <6>1. doc[d].pending \in BOOLEAN
            BY <1>1 DEF SideStates
          <6>2. doc'[d].pending = (doc[d].pending \/ d \in asking)
            BY <2>4
          <6>3. doc'[d].generation = doc[d].generation
            BY <2>4 DEF SameBesides
          <6> QED
            BY <3>1, <6>1, <6>2, <6>3
        <5> QED
          BY <5>1 DEF Regenerated
      <4> QED
        BY <2>6, <4>1, <4>2, PromisesHold
    <3>2. CASE asking # {}
      <4>1. Replaced(set) /\ drawing' = drawing
        BY <1>1, <2>2, <3>2
      <4>2. pictures \in [Models -> Pictures]
        <5>1. \A d \in Models : ticked[d] \in SideStates
          BY <2>3 DEF SameBesides
        <5> QED
          BY <5>1, WantedIs
      <4>3. \A d \in asking : ~doc[d].pending
        BY <2>3 DEF Needs
      <4>4. \A d \in Models : /\ doc'[d].generation = doc[d].generation
                              /\ doc'[d].pending = (doc[d].pending \/ d \in asking)
        BY <2>4 DEF SameBesides
      <4> QED
        BY <4>1, <4>2, <4>3, <4>4, AsksOnce
    <3> QED
      BY <3>1, <3>2
  <2>8. repaint' \in BOOLEAN
    BY <1>3 DEF Paint
  <2>9. HiddenIsIdle'
    BY <1>1 DEF HiddenIsIdle
  <2>10. changes' \in 0 .. MaxChanges /\ seen' \in BOOLEAN /\ focused' \in BOOLEAN
    BY <1>1 DEF FramesInv
  <2> QED
    BY <2>6, <2>7, <2>8, <2>9, <2>10 DEF FramesInv
<1> QED
  BY <1>2, <1>3

-----------------------------------------------------------------------------
(* Frames are received.                                                     *)

Shows(s, f) == [s EXCEPT !.pending = FALSE, !.frame = f]
WithError(s, b) == [s EXCEPT !.error = b]

LEMMA ShowsIs ==
    ASSUME NEW s \in SideStates, NEW f \in Pictures
    PROVE  /\ Shows(s, f) \in SideStates /\ ~Shows(s, f).pending
           /\ Shows(s, f).view = s.view /\ Shows(s, f).linked = s.linked
           /\ Shows(s, f).clip = s.clip /\ Shows(s, f).offset = s.offset
           /\ Shows(s, f).duration = s.duration /\ Shows(s, f).playing = s.playing
           /\ Shows(s, f).generation = s.generation /\ Shows(s, f).pose = s.pose
BY DEF SideStates, Shows

LEMMA WithErrorIs ==
    ASSUME NEW s \in SideStates, NEW b \in BOOLEAN
    PROVE  /\ WithError(s, b) \in SideStates /\ WithError(s, b).pending = s.pending
           /\ WithError(s, b).view = s.view /\ WithError(s, b).linked = s.linked
           /\ WithError(s, b).clip = s.clip /\ WithError(s, b).offset = s.offset
           /\ WithError(s, b).duration = s.duration /\ WithError(s, b).playing = s.playing
           /\ WithError(s, b).generation = s.generation /\ WithError(s, b).pose = s.pose
BY DEF SideStates, WithError

\* An answer ends the wait of the sides that wait for it.
LEMMA ReceivedIs ==
    ASSUME FramesInv, NEW a \in frames, NEW failed
    PROVE  \A x \in Models :
               /\ SameBesides(Received(a, failed)[x], doc[x])
               /\ Received(a, failed)[x].pending =
                    (doc[x].pending /\ ~\E r \in a.requests : r.doc = x /\ IsPresent(r))
<1> SUFFICES ASSUME NEW x \in Models
             PROVE  /\ SameBesides(Received(a, failed)[x], doc[x])
                    /\ Received(a, failed)[x].pending =
                         (doc[x].pending /\ ~\E r \in a.requests : r.doc = x /\ IsPresent(r))
  OBVIOUS
<1> PICK s \in SideStates : s = doc[x] /\ s.pose <= s.clip
  BY DEF FramesInv, SoundSides
<1> PICK after : after = Received(a, failed)[x]
  OBVIOUS
<1> PICK comes \in BOOLEAN : comes = \E r \in a.requests : r.doc = x /\ IsPresent(r)
  OBVIOUS
<1>1. IF ~(comes /\ s.pending) THEN after = s
      ELSE \/ after = Awaiting(s, FALSE)
           \/ after = Shows(s, (CHOOSE r \in a.requests : r.doc = x).frame)
  BY DEF Received, Awaiting, Shows
<1>2. s.pending \in BOOLEAN
  BY DEF SideStates
<1>3. CASE ~(comes /\ s.pending)
  <2>1. after = s
    BY <1>1, <1>3
  <2>2. SameBesides(s, s)
    BY DEF SameBesides
  <2>3. s.pending = (s.pending /\ ~comes)
    BY <1>2, <1>3
  <2> QED
    BY <2>1, <2>2, <2>3
<1>4. CASE comes /\ s.pending
  <2>1. \E r \in a.requests : r.doc = x
    BY <1>4
  <2> PICK q \in a.requests : q = CHOOSE r \in a.requests : r.doc = x
    BY <2>1
  <2> PICK f \in Pictures : f = q.frame
    BY DEF FramesInv, LaneTyped, FrameAnswers, FrameRequests
  <2>2. after = Awaiting(s, FALSE) \/ after = Shows(s, f)
    BY <1>1, <1>4
  <2>3. /\ after \in SideStates /\ ~after.pending
        /\ after.view = s.view /\ after.linked = s.linked
        /\ after.clip = s.clip /\ after.offset = s.offset
        /\ after.duration = s.duration /\ after.playing = s.playing
        /\ after.generation = s.generation /\ after.pose = s.pose
    <3>1. CASE after = Awaiting(s, FALSE)
      <4> PICK no \in BOOLEAN : no = FALSE
        OBVIOUS
      <4>1. after = Awaiting(s, no)
        BY <3>1
      <4> QED
        BY <4>1, AwaitingIs
    <3>2. CASE after = Shows(s, f)
      BY <3>2, ShowsIs
    <3> QED
      BY <2>2, <3>1, <3>2
  <2>4. SameBesides(after, s)
    BY <2>3 DEF SameBesides
  <2>5. after.pending = (s.pending /\ ~comes)
    <3>1. after.pending \in BOOLEAN
      BY <2>3 DEF SideStates
    <3> QED
      BY <1>4, <2>3, <3>1
  <2> QED
    BY <2>4, <2>5
<1> QED
  BY <1>3, <1>4

LEMMA ReceiveFramesInv == ASSUME FramesInv, ReceiveFrames PROVE FramesInv'
<1> PICK a \in frames :
        LET waiting == {r.doc : r \in {x \in a.requests : IsPresent(x) /\ doc[x.doc].pending}}
            failed == a.failed \cap waiting IN
        /\ frames' = frames \ {a}
        /\ \/ doc' = Received(a, failed)
           \/ \E t \in Nat : doc' = Stopped(Received(a, failed), failed, t)
        /\ repaint' = (repaint \/ waiting # {})
        /\ UNCHANGED <<seen, focused, slot, drawing, changes>>
  BY PositionsAre DEF ReceiveFrames
<1> PICK failed, waiting :
        /\ doc' = Received(a, failed) \/ \E t \in Nat : doc' = Stopped(Received(a, failed), failed, t)
        /\ repaint' = (repaint \/ waiting # {})
  OBVIOUS
<1>1. /\ frames' = frames \ {a} /\ repaint' \in BOOLEAN
      /\ UNCHANGED <<seen, focused, slot, drawing, changes>>
  BY DEF FramesInv
<1> PICK received : received = Received(a, failed)
  OBVIOUS
<1>2. \A x \in Models :
          /\ SameBesides(received[x], doc[x])
          /\ received[x].pending =
               (doc[x].pending /\ ~\E r \in a.requests : r.doc = x /\ IsPresent(r))
  BY ReceivedIs
<1>3. received = [x \in Models |-> received[x]]
  BY DEF Received
<1>4. /\ SoundSides(received) /\ OneClock(received)
      /\ (\A x \in Models : received[x].linked) => received[First].view = received[Second].view
  BY <1>2, <1>3, BesidesIs
<1>5. /\ slot \in SUBSET FrameRequests /\ drawing \in SUBSET FrameRequests
      /\ frames \in SUBSET FrameAnswers /\ IsFiniteSet(LiveFrames)
  BY DEF FramesInv, LaneTyped
<1>6. LiveFrames' \subseteq LiveFrames
  BY <1>1 DEF LiveFrames
<1>7. LaneTyped'
  <2>1. IsFiniteSet(LiveFrames')
    BY <1>5, <1>6, FS_Subset
  <2> QED
    BY <1>1, <1>5, <2>1 DEF LaneTyped
<1>8. ScreenTyped'
  <2>1. changes' \in 0 .. MaxChanges
    BY <1>1 DEF FramesInv
  <2> QED
    BY <1>1, <2>1 DEF FramesInv, ScreenTyped
<1>9. CASE doc' = received
  <2>1. \A x \in Models : doc'[x].generation = doc[x].generation
    BY <1>2, <1>9 DEF SameBesides
  <2>2. \A r \in FrameRequests : IsPresent(r)' <=> IsPresent(r)
    BY <2>1 DEF IsPresent, FrameRequests
  <2>3. /\ slot \cup drawing \subseteq FrameRequests
        /\ \A b \in frames : b.requests \subseteq FrameRequests
        /\ LiveFrames \subseteq FrameRequests
    BY <1>5 DEF FrameAnswers, LiveFrames
  <2>4. /\ \A r \in slot, q \in drawing : r.doc = q.doc /\ IsPresent(r) => ~IsPresent(q)
        /\ \A r \in slot \cup drawing, b \in frames : \A q \in b.requests :
               r.doc = q.doc /\ IsPresent(r) => ~IsPresent(q)
        /\ \A b, c \in frames : \A r \in b.requests, q \in c.requests :
               r.doc = q.doc /\ IsPresent(r) /\ IsPresent(q) => b = c
    BY DEF FramesInv, ComesOnce
  <2>5. ComesOnce'
    BY <1>1, <2>2, <2>3, <2>4 DEF ComesOnce
  <2>6. \A r \in LiveFrames', q \in a.requests : r.doc = q.doc /\ IsPresent(r) => ~IsPresent(q)
    BY <1>1, <2>4 DEF LiveFrames
  <2>7. \A r \in LiveFrames : r \in LiveFrames' \/ r \in a.requests
    BY <1>1 DEF LiveFrames
  <2>8. FramesArePending'
    <3> SUFFICES ASSUME NEW d \in Models
                 PROVE  doc'[d].pending <=> \E r \in LiveFrames' : r.doc = d /\ IsPresent(r)'
      BY DEF FramesArePending
    <3>1. doc[d].pending <=> \E r \in LiveFrames : r.doc = d /\ IsPresent(r)
      BY DEF FramesInv, FramesArePending
    <3>2. doc'[d].pending = (doc[d].pending /\ ~\E r \in a.requests : r.doc = d /\ IsPresent(r))
      BY <1>2, <1>9
    <3>3. \A r \in LiveFrames' : r \in LiveFrames /\ (IsPresent(r)' <=> IsPresent(r))
      BY <1>6, <2>2, <2>3
    <3>4. CASE \E r \in a.requests : r.doc = d /\ IsPresent(r)
      <4>1. ~doc'[d].pending
        BY <3>2, <3>4
      <4>2. \A r \in LiveFrames' : r.doc = d => ~IsPresent(r)
        BY <2>6, <3>4
      <4> QED
        BY <3>3, <4>1, <4>2
    <3>5. CASE ~\E r \in a.requests : r.doc = d /\ IsPresent(r)
      <4>1. doc'[d].pending <=> doc[d].pending
        BY <3>2, <3>5
      <4> QED
        BY <2>7, <3>1, <3>3, <3>5, <4>1
    <3> QED
      BY <3>4, <3>5
  <2>9. HiddenIsIdle'
    <3>1. ASSUME ~seen', NEW d \in Models PROVE ~doc'[d].playing /\ ~doc'[d].pending
      <4>1. ~doc[d].playing /\ ~doc[d].pending
        BY <1>1, <3>1 DEF FramesInv, HiddenIsIdle
      <4> QED
        BY <1>2, <1>9, <4>1 DEF SameBesides
    <3> QED
      BY <3>1 DEF HiddenIsIdle
  <2> QED
    BY <1>4, <1>7, <1>8, <1>9, <2>5, <2>8, <2>9 DEF FramesInv, ScreenTyped, CamerasAgree
<1>10. CASE \E t \in Nat : doc' = Stopped(received, failed, t)
  <2> PICK t \in Nat : doc' = Stopped(received, failed, t)
    BY <1>10
  <2> PICK paused : paused = Paused(received, t)
    OBVIOUS
  <2>1. /\ SoundSides(paused) /\ OneClock(paused)
        /\ \A x \in Models :
            /\ paused[x].generation = FreshGeneration(x)
            /\ ~paused[x].pending /\ ~paused[x].playing
            /\ paused[x].view = received[x].view /\ paused[x].linked = received[x].linked
    <3>1. Clipped(received)
      BY <1>4 DEF SoundSides, Clipped
    <3> QED
      BY <3>1, PausedIs
  <2>2. doc' = [x \in Models |->
                  WithError(paused[x], x \in failed \/ received[x].error)]
    BY DEF Stopped, WithError
  <2>3. ASSUME NEW x \in Models
        PROVE  /\ doc'[x] \in SideStates /\ ~doc'[x].pending /\ ~doc'[x].playing
               /\ doc'[x].clip = paused[x].clip /\ doc'[x].offset = paused[x].offset
               /\ doc'[x].duration = paused[x].duration /\ doc'[x].pose = paused[x].pose
               /\ doc'[x].view = received[x].view /\ doc'[x].linked = received[x].linked
               /\ doc'[x].generation = FreshGeneration(x)
    <3> PICK s \in SideStates : s = paused[x]
      BY <2>1 DEF SoundSides
    <3> PICK b \in BOOLEAN : b = (x \in failed \/ received[x].error)
      OBVIOUS
    <3> PICK k : k = WithError(s, b)
      OBVIOUS
    <3>1. doc'[x] = k
      BY <2>2
    <3>2. /\ k \in SideStates /\ k.pending = s.pending /\ k.playing = s.playing
          /\ k.view = s.view /\ k.linked = s.linked /\ k.clip = s.clip
          /\ k.offset = s.offset /\ k.duration = s.duration
          /\ k.generation = s.generation /\ k.pose = s.pose
      BY WithErrorIs
    <3> QED
      BY <2>1, <3>1, <3>2
  <2>4. SoundSides(doc')
    <3>1. doc' \in [Models -> SideStates]
      BY <2>2, <2>3
    <3> QED
      BY <2>1, <2>3, <3>1 DEF SoundSides
  <2>5. First \in Models /\ Second \in Models
    BY DEF Models
  <2>6. OneClock(doc')
    <3>1. ASSUME NEW x \in Models PROVE doc'[x].pose = Lesser(doc'[x].offset, doc'[x].clip)
      <4>1. paused[x].pose = Lesser(paused[x].offset, paused[x].clip)
        BY <2>1 DEF OneClock
      <4>2. /\ doc'[x].pose = paused[x].pose /\ doc'[x].offset = paused[x].offset
            /\ doc'[x].clip = paused[x].clip
        BY <2>3
      <4> QED
        BY <4>1, <4>2
    <3>2. doc'[First].offset = doc'[Second].offset /\ doc'[First].duration = doc'[Second].duration
      BY <2>1, <2>3, <2>5 DEF OneClock
    <3>3. ~doc'[First].playing /\ ~doc'[Second].playing
      BY <2>3, <2>5
    <3> QED
      BY <3>1, <3>2, <3>3 DEF OneClock
  <2>7. AtRest
    <3>1. \A x \in Models : doc'[x].generation = FreshGeneration(x) /\ ~doc'[x].pending
      BY <2>3
    <3>2. \A x \in Models : doc'[x].view = doc[x].view /\ doc'[x].linked = doc[x].linked
      BY <1>2, <2>3 DEF SameBesides
    <3> QED
      BY <2>4, <2>6, <3>1, <3>2 DEF AtRest
  <2>8. ComesOnce' /\ FramesArePending'
    BY <1>6, <2>7, NothingAwaited
  <2>9. CamerasAgree'
    BY <1>4, <2>3, <2>5 DEF CamerasAgree
  <2>10. HiddenIsIdle'
    BY <2>3 DEF HiddenIsIdle
  <2> QED
    BY <1>7, <1>8, <2>4, <2>6, <2>8, <2>9, <2>10 DEF FramesInv, ScreenTyped
<1> QED
  BY <1>9, <1>10

-----------------------------------------------------------------------------

LEMMA FramesInitInv ==
    ASSUME ClipsAssumption, ViewsAssumption, FramesInit
    PROVE  FramesInv
<1> PICK v \in Views : v = CHOOSE w \in Views : TRUE
  BY DEF ViewsAssumption
<1>1. PICK first \in SideStates :
          /\ first = FirstState
          /\ first.clip = 0 /\ first.offset = 0 /\ first.duration = 0 /\ first.pose = 0
          /\ first.playing = FALSE /\ first.pending = FALSE
  <2>1. FirstState \in SideStates
    <3>1. NoFrame \in Pictures \cup {NoFrame}
      OBVIOUS
    <3> QED
      BY <3>1 DEF FirstState, SideStates
  <2>2. /\ FirstState.clip = 0 /\ FirstState.offset = 0 /\ FirstState.duration = 0
        /\ FirstState.pose = 0 /\ FirstState.playing = FALSE /\ FirstState.pending = FALSE
    BY DEF FirstState
  <2> QED
    BY <2>1, <2>2
<1>2. /\ doc = [d \in Models |-> first] /\ First \in Models /\ Second \in Models
      /\ \A d \in Models : doc[d] = first
  BY <1>1 DEF FramesInit, Models
<1>3. SoundSides(doc)
  <2>1. \A d \in Models : 0 \in Clips[d]
    BY DEF ClipsAssumption
  <2> QED
    BY <1>1, <1>2, <2>1 DEF SoundSides
<1>4. OneClock(doc)
  <2>1. Lesser(0, 0) = 0
    BY DEF Lesser
  <2> QED
    BY <1>1, <1>2, <2>1 DEF OneClock
<1>5. LiveFrames = {} /\ LaneTyped
  <2>1. LiveFrames = {}
    BY DEF FramesInit, LiveFrames, Idle
  <2> QED
    BY <2>1, FS_EmptySet DEF FramesInit, Idle, LaneTyped
<1>6. ComesOnce
  BY DEF FramesInit, Idle, ComesOnce
<1>7. FramesArePending
  BY <1>1, <1>2, <1>5 DEF FramesArePending
<1>8. CamerasAgree /\ HiddenIsIdle
  BY <1>1, <1>2 DEF CamerasAgree, HiddenIsIdle
<1>9. changes \in 0 .. MaxChanges
  BY DEF FramesInit, ViewsAssumption
<1>10. seen \in BOOLEAN /\ focused \in BOOLEAN /\ repaint \in BOOLEAN
  BY DEF FramesInit
<1> QED
  BY <1>3, <1>4, <1>5, <1>6, <1>7, <1>8, <1>9, <1>10 DEF FramesInv

LEMMA FramesNextInv ==
    ASSUME ClipsAssumption, ViewsAssumption, FramesInv, [FramesNext]_frameVars
    PROVE  FramesInv'
<1>1. CASE FramesUser
  <2>1. CASE \E d \in Models : SetLinked(d) \/ Press(d) \/ MissRelease(d)
    BY <2>1, SetLinkedInv, PressInv, MissReleaseInv
  <2>2. CASE \E d \in Models : \E v \in Views : Change(d, v)
    BY <2>2, ChangeInv
  <2>3. CASE \E d \in Models : \E c \in Clips[d] : ChooseClip(d, c)
    BY <2>3, ChooseClipInv
  <2>4. CASE Release \/ Play
    BY <2>4, ReleaseInv, PlayInv
  <2>5. CASE \E t \in Seconds : Seek(t) \/ Scrub(t)
    BY <2>5, SecondsAre, SeekInv, ScrubInv
  <2>6. CASE HideModels \/ ShowModels \/ Activate
    BY <2>6, HideModelsInv, ShowModelsInv
  <2> QED
    BY <1>1, <2>1, <2>2, <2>3, <2>4, <2>5, <2>6 DEF FramesUser
<1>2. CASE Paint \/ TakeJob \/ FinishJob \/ ReceiveFrames
  BY <1>2, PaintInv, TakeJobInv, FinishJobInv, ReceiveFramesInv
<1>3. CASE UNCHANGED frameVars
  <2>1. /\ doc' = doc /\ UNCHANGED jobVars
        /\ UNCHANGED <<seen, focused, repaint, changes>>
    BY <1>3 DEF frameVars
  <2>2. doc' = [x \in Models |-> doc'[x]]
    BY <2>1 DEF FramesInv, SoundSides
  <2>3. ScreenTyped' /\ HiddenIsIdle'
    BY <2>1 DEF FramesInv, ScreenTyped, HiddenIsIdle
  <2> QED
    BY <2>1, <2>2, <2>3, StaysIs, CamerasStay
<1> QED
  BY <1>1, <1>2, <1>3 DEF FramesNext

(***************************************************************************)
(* Whatever the order of a user's changes, of paints, of jobs and of their *)
(* answers, a side of a comparison of models waits exactly while one job   *)
(* is to bring its present frame; linked sides have one camera, both have  *)
(* one clock, and a hidden comparison is idle (request_pair).              *)
(***************************************************************************)
THEOREM FramesComeOnce ==
    ASSUME ClipsAssumption, ViewsAssumption
    PROVE  FramesSpec => []FramesAreRequested
<1>1. FramesInit => FramesInv
  BY FramesInitInv
<1>2. FramesInv /\ [FramesNext]_frameVars => FramesInv'
  BY FramesNextInv
<1> QED
  BY <1>1, <1>2, InvIsFrames, PTL DEF FramesSpec

=============================================================================
