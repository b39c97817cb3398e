--------------------------- MODULE WatchDelivery ---------------------------
(***************************************************************************)
(* crates/app/src/local_refresh.rs: how a change on disk becomes a notice   *)
(* for the user interface.  The callback of the native watcher puts events  *)
(* in a bounded queue, or raises a flag when the queue is full; an actor    *)
(* thread collects them in a burst, ignores those whose path has the        *)
(* fingerprint it had before, and hands a burst that is due to a slot with  *)
(* a wake token, both shared with the window's event task.                  *)
(*                                                                          *)
(* One path stands for all the paths of a kind.  Time advances in ticks; a  *)
(* burst is due QuietPeriod ticks after its last event, MaxDelay ticks      *)
(* after its first.                                                         *)
(***************************************************************************)
EXTENDS Naturals, Sequences

CONSTANTS
    Kinds,         \* the kinds of changes: "worktree" and "git" in the code
    MaxEvents,     \* capacity of the queue, 64 in the code
    QuietPeriod,   \* 250 ms
    MaxDelay       \* 2 s

ASSUME KindsAssumption == Kinds # {} /\ {"rescan", "wake"} \cap Kinds = {}
ASSUME TimesAssumption ==
    /\ MaxEvents \in Nat \ {0}
    /\ QuietPeriod \in Nat \ {0}
    /\ MaxDelay \in Nat
    /\ QuietPeriod <= MaxDelay

VARIABLES
    unseen,     \* kinds that changed since the user interface was last told
    modified,   \* kinds that changed since their fingerprint was taken
    raised,     \* kinds the system has yet to call back for
    callback,   \* where the callback is
    overflow,   \* were events lost?
    queue,      \* events and wakes for the actor
    actor,      \* where the actor is
    change,     \* what the actor found in the message it handles
    burst,      \* the changes it has collected
    first,      \* ticks since the first of them
    last,       \* ticks since the last of them
    slot,       \* the notice for the user interface, empty for None
    tokens,     \* wake tokens in the channel of capacity one
    task,       \* where the event task of the window is
    stop

callbackVars == <<raised, callback>>
burstVars == <<burst, first, last>>
deliveryVars == <<slot, tokens>>
vars == <<unseen, modified, callbackVars, overflow, queue, actor, change, burstVars,
          deliveryVars, task, stop>>

Notices == SUBSET (Kinds \cup {"rescan"})

TypeOK ==
    /\ unseen \subseteq Kinds /\ modified \subseteq Kinds /\ raised \subseteq Kinds
    /\ callback \in {"idle", "overflowing", "waking"}
    /\ overflow \in BOOLEAN /\ stop \in BOOLEAN
    /\ queue \in Seq(Kinds \cup {"wake"}) /\ Len(queue) <= MaxEvents
    /\ actor \in {"looping", "receiving", "handling", "pushing", "ended"}
    /\ change \in Notices /\ burst \in Notices /\ slot \in Notices
    /\ first \in 0 .. MaxDelay /\ last \in 0 .. MaxDelay
    /\ tokens \in 0 .. 1
    /\ task \in {"waiting", "woken", "ended"}

Init ==
    /\ unseen = {} /\ modified = {} /\ raised = {}
    /\ callback = "idle"
    /\ overflow = FALSE /\ stop = FALSE
    /\ queue = <<>>
    /\ actor = "looping"
    /\ change = {} /\ burst = {} /\ slot = {}
    /\ first = 0 /\ last = 0
    /\ tokens = 0
    /\ task = "waiting"

-----------------------------------------------------------------------------
(* The disk and the callback of the watcher *)

DiskChange(k) ==
    /\ unseen' = unseen \cup {k}
    /\ modified' = modified \cup {k}
    /\ raised' = raised \cup {k}
    /\ UNCHANGED <<callback, overflow, queue, actor, change, burstVars, deliveryVars, task,
                   stop>>

\* try_send of the event: the queue takes it, or it is lost.
CallbackSend(k) ==
    /\ callback = "idle"
    /\ k \in raised
    /\ raised' = raised \ {k}
    /\ IF Len(queue) < MaxEvents
       THEN queue' = Append(queue, k) /\ UNCHANGED callback
       ELSE callback' = "overflowing" /\ UNCHANGED queue
    /\ UNCHANGED <<unseen, modified, overflow, actor, change, burstVars, deliveryVars, task,
                   stop>>

\* Mutant: a full queue is taken to make the actor look anyway.
CallbackOverflowUnmarked ==
    /\ callback = "overflowing"
    /\ callback' = "waking"
    /\ UNCHANGED <<unseen, modified, raised, overflow, queue, actor, change, burstVars,
                   deliveryVars, task, stop>>

CallbackOverflow ==
    /\ callback = "overflowing"
    /\ overflow' = TRUE
    /\ callback' = "waking"
    /\ UNCHANGED <<unseen, modified, raised, queue, actor, change, burstVars, deliveryVars,
                   task, stop>>

\* try_send of a wake, which a full queue does not need.
CallbackWake ==
    /\ callback = "waking"
    /\ callback' = "idle"
    /\ queue' = IF Len(queue) < MaxEvents THEN Append(queue, "wake") ELSE queue
    /\ UNCHANGED <<unseen, modified, raised, overflow, actor, change, burstVars, deliveryVars,
                   task, stop>>

-----------------------------------------------------------------------------
(* The actor *)

\* Mutant: a stream of events puts off the delivery forever.
DueWhenQuiet == burst # {} /\ last >= QuietPeriod

\* Burst::deadline has passed.
Due == burst # {} /\ (last >= QuietPeriod \/ first >= MaxDelay)

\* The deadline stands still while the actor works, and comes while it waits.
Tick ==
    /\ burst # {}
    /\ first < MaxDelay
    /\ first' = first + 1
    /\ last' = last + 1
    /\ UNCHANGED <<unseen, modified, callbackVars, overflow, queue, actor, change, burst,
                   deliveryVars, task, stop>>

\* The head of the loop looks at stop, and then waits for a message.
Loop ==
    /\ actor = "looping"
    /\ actor' = IF stop THEN "ended" ELSE "receiving"
    /\ UNCHANGED <<unseen, modified, callbackVars, overflow, queue, change, burstVars,
                   deliveryVars, task, stop>>

\* A message is there: an event counts when the fingerprint of its path, taken
\* now, is not the one taken before.
Receive ==
    /\ actor = "receiving"
    /\ ~stop
    /\ queue # <<>>
    /\ queue' = Tail(queue)
    /\ change' = {Head(queue)} \cap modified
    /\ modified' = modified \ {Head(queue)}
    /\ actor' = "handling"
    /\ UNCHANGED <<unseen, callbackVars, overflow, burstVars, deliveryVars, task, stop>>

\* recv_timeout: none came before the deadline.
Timeout ==
    /\ actor = "receiving"
    /\ ~stop
    /\ queue = <<>>
    /\ Due
    /\ change' = {}
    /\ actor' = "handling"
    /\ UNCHANGED <<unseen, modified, callbackVars, overflow, queue, burstVars, deliveryVars,
                   task, stop>>

\* overflow.swap, and Burst::push.
Collect ==
    /\ actor = "handling"
    /\ LET found == change \cup (IF overflow THEN {"rescan"} ELSE {})
       IN  /\ burst' = burst \cup found
           /\ first' = IF burst = {} THEN 0 ELSE first
           /\ last' = IF found = {} THEN last ELSE 0
    /\ overflow' = FALSE
    /\ change' = {}
    /\ actor' = "pushing"
    /\ UNCHANGED <<unseen, modified, callbackVars, queue, deliveryVars, task, stop>>

\* Delivery::send: merge into the slot, or fill it and wake the task.
Send ==
    /\ slot' = slot \cup burst
    /\ tokens' = IF slot = {} THEN 1 ELSE tokens

\* A due burst is delivered.  A send to a task that is gone ends the actor.
Push ==
    /\ actor = "pushing"
    /\ Due
    /\ Send
    /\ burst' = {} /\ first' = 0 /\ last' = 0
    /\ actor' = IF task = "ended" THEN "ended" ELSE "looping"
    /\ UNCHANGED <<unseen, modified, callbackVars, overflow, queue, change, task, stop>>

PushNothing ==
    /\ actor = "pushing"
    /\ ~Due
    /\ actor' = "looping"
    /\ UNCHANGED <<unseen, modified, callbackVars, overflow, queue, change, burstVars,
                   deliveryVars, task, stop>>

\* The message, or the deadline, that comes after stop ends the actor.
ReceiveStop ==
    /\ actor = "receiving"
    /\ stop
    /\ queue # <<>> \/ Due
    /\ actor' = "ended"
    /\ UNCHANGED <<unseen, modified, callbackVars, overflow, queue, change, burstVars,
                   deliveryVars, task, stop>>

-----------------------------------------------------------------------------
(* The window *)

\* The event task polls: it takes the token and then the notice.
Wake ==
    /\ task = "waiting"
    /\ tokens > 0
    /\ tokens' = tokens - 1
    /\ task' = "woken"
    /\ UNCHANGED <<unseen, modified, callbackVars, overflow, queue, actor, change, burstVars,
                   slot, stop>>

Told(notice) == IF "rescan" \in notice THEN Kinds ELSE notice

\* An empty slot would end the stream of notices.
TakeNotice ==
    /\ task = "woken"
    /\ task' = IF slot = {} THEN "ended" ELSE "waiting"
    /\ unseen' = unseen \ Told(slot)
    /\ slot' = {}
    /\ UNCHANGED <<modified, callbackVars, overflow, queue, actor, change, burstVars, tokens,
                   stop>>

\* The watcher is replaced, or its tab or window closes.
DropWatcher ==
    /\ ~stop
    /\ stop' = TRUE
    /\ task' = "ended"
    /\ queue' = IF Len(queue) < MaxEvents THEN Append(queue, "wake") ELSE queue
    /\ UNCHANGED <<unseen, modified, callbackVars, overflow, actor, change, burstVars,
                   deliveryVars>>

Callback == (\E k \in Kinds : CallbackSend(k)) \/ CallbackOverflow \/ CallbackWake

Actor == Loop \/ Receive \/ ReceiveStop \/ Timeout \/ Collect \/ Push \/ PushNothing

EventTask == Wake \/ TakeNotice

Next == (\E k \in Kinds : DiskChange(k)) \/ Callback \/ Tick \/ Actor \/ EventTask \/ DropWatcher

Spec == Init /\ [][Next]_vars

FairSpec ==
    /\ Spec
    /\ \A k \in Kinds : WF_vars(CallbackSend(k))
    /\ WF_vars(Callback) /\ WF_vars(Tick) /\ WF_vars(Actor) /\ WF_vars(EventTask)

-----------------------------------------------------------------------------

(***************************************************************************)
(* No change is lost on its way: one the user interface was not told of is  *)
(* in the hands of the callback, in the queue and distinguishable from the  *)
(* fingerprint, covered by the overflow flag, or in the burst or the slot.  *)
(***************************************************************************)
OnItsWay(k) ==
    \/ k \in modified /\ (k \in raised \/ \E i \in DOMAIN queue : queue[i] = k)
    \/ callback = "overflowing" \/ overflow
    \/ {k, "rescan"} \cap (change \cup burst \cup slot) # {}

ChangeNotLost == \A k \in unseen : ~stop => OnItsWay(k)

(***************************************************************************)
(* A raised overflow flag never waits for another edit to be read: while it *)
(* is up the callback is about to wake the actor, or the actor has a        *)
(* message, a deadline or the flag itself ahead of it.                      *)
(***************************************************************************)
OverflowIsRead ==
    overflow =>
        \/ callback = "waking" \/ queue # <<>>
        \/ burst # {} \/ actor = "handling"
        \/ stop \/ actor = "ended"

(***************************************************************************)
(* The slot and its wake token agree: a notice waits exactly when the task  *)
(* has a token or has just taken it.  A token without a notice would end    *)
(* the stream and with it automatic refresh; a notice without a token would *)
(* wait for a change that may never come.                                   *)
(***************************************************************************)
NoticeHasToken ==
    task # "ended" => (slot # {} <=> (tokens > 0 \/ task = "woken"))

(***************************************************************************)
(* Nothing is lost between the callback and the window: no change, no       *)
(* overflow and no notice is without somebody who will hand it on.          *)
(***************************************************************************)
NothingIsLost == ChangeNotLost /\ OverflowIsRead /\ NoticeHasToken

(***************************************************************************)
(* The user interface is eventually told of every change, even while events *)
(* keep coming and the queue overflows.                                     *)
(***************************************************************************)
ChangesAreTold == \A k \in Kinds : (k \in unseen) ~> (k \notin unseen \/ stop)

(***************************************************************************)
(* The actor, and the native watcher it owns, end when the watcher is       *)
(* dropped, even if no event ever comes.                                    *)
(***************************************************************************)
ActorEnds == stop ~> (actor = "ended")

(***************************************************************************)
(* Delivery ends well: with the window told, or, once the watcher is        *)
(* dropped, with the actor's end.                                           *)
(***************************************************************************)
DeliveryEnds == ChangesAreTold /\ ActorEnds
=============================================================================
