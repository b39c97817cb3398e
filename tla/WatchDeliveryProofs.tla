------------------------- MODULE WatchDeliveryProofs -------------------------
(***************************************************************************)
(* No change is lost between the callback of the watcher and the event task *)
(* of the window, for any capacity of the queue, any kinds of changes and   *)
(* any delays.                                                              *)
(***************************************************************************)
EXTENDS WatchDelivery, TLAPS

\* The quiet time of a burst is never longer than the burst.
BurstClock == last <= first /\ (burst = {} => first = 0 /\ last = 0)

\* What the actor found is kept while it handles a message, and no longer.
ChangeIsHandled == change # {} => actor = "handling"

\* A task that woke took the only token; it ends with the watcher.
TaskInv ==
    /\ task = "woken" => tokens = 0
    /\ task = "ended" => stop

\* A raised flag has somebody who will look at it, whatever is in the burst.
OverflowHasReader ==
    overflow =>
        \/ callback = "waking" \/ queue # <<>>
        \/ actor = "handling" \/ stop

DeliveryInv ==
    /\ TypeOK
    /\ BurstClock
    /\ ChangeIsHandled
    /\ TaskInv
    /\ NoticeHasToken
    /\ OverflowHasReader
    /\ ChangeNotLost
-----------------------------------------------------------------------------
(* The queue *)

LEMMA QueueAfterAppend ==
    ASSUME TypeOK, NEW e \in Kinds \cup {"wake"}, Len(queue) < MaxEvents,
           queue' = Append(queue, e)
    PROVE  /\ queue' \in Seq(Kinds \cup {"wake"}) /\ Len(queue') <= MaxEvents
           /\ queue' # <<>>
           /\ \E i \in DOMAIN queue' : queue'[i] = e
           /\ \A i \in DOMAIN queue : i \in DOMAIN queue' /\ queue'[i] = queue[i]
<1>1. queue' \in Seq(Kinds \cup {"wake"}) /\ Len(queue') = Len(queue) + 1
  BY DEF TypeOK
<1>2. Len(queue) + 1 \in DOMAIN queue' /\ queue'[Len(queue) + 1] = e
  BY <1>1 DEF TypeOK
<1>3. \A i \in DOMAIN queue : i \in DOMAIN queue' /\ queue'[i] = queue[i]
  BY <1>1 DEF TypeOK
<1> QED
  BY <1>1, <1>2, <1>3, TimesAssumption DEF TypeOK

LEMMA QueueAfterTail ==
    ASSUME TypeOK, queue # <<>>, queue' = Tail(queue)
    PROVE  /\ queue' \in Seq(Kinds \cup {"wake"}) /\ Len(queue') <= MaxEvents
           /\ Head(queue) \in Kinds \cup {"wake"}
           /\ \A i \in DOMAIN queue :
                 \/ queue[i] = Head(queue)
                 \/ \E j \in DOMAIN queue' : queue'[j] = queue[i]
<1>1. /\ queue' \in Seq(Kinds \cup {"wake"}) /\ Len(queue') = Len(queue) - 1
      /\ Head(queue) = queue[1] /\ Len(queue) \in Nat
      /\ \A j \in DOMAIN queue' : queue'[j] = queue[j + 1]
  BY DEF TypeOK
<1>2. Head(queue) \in Kinds \cup {"wake"} /\ Len(queue') <= MaxEvents
  BY <1>1, TimesAssumption DEF TypeOK
<1>3. ASSUME NEW i \in DOMAIN queue, i # 1
      PROVE  \E j \in DOMAIN queue' : queue'[j] = queue[i]
  <2>1. i - 1 \in DOMAIN queue' /\ queue'[i - 1] = queue[i]
    BY <1>1, <1>3 DEF TypeOK
  <2> QED
    BY <2>1
<1> QED
  BY <1>1, <1>2, <1>3

\* What the wakes of the callback and of a dropped watcher do to the queue.
LEMMA QueueAfterWake ==
    ASSUME TypeOK,
           queue' = IF Len(queue) < MaxEvents THEN Append(queue, "wake") ELSE queue
    PROVE  /\ queue' \in Seq(Kinds \cup {"wake"}) /\ Len(queue') <= MaxEvents
           /\ queue' # <<>>
           /\ \A i \in DOMAIN queue : i \in DOMAIN queue' /\ queue'[i] = queue[i]
<1>1. CASE Len(queue) < MaxEvents
  BY <1>1, QueueAfterAppend
<1>2. CASE ~(Len(queue) < MaxEvents)
  BY <1>2, TimesAssumption DEF TypeOK
<1> QED
  BY <1>1, <1>2

-----------------------------------------------------------------------------
(* Types and clocks *)

LEMMA InitInv == Init => DeliveryInv
<1> SUFFICES ASSUME Init PROVE DeliveryInv
  OBVIOUS
<1>1. queue \in Seq(Kinds \cup {"wake"}) /\ Len(queue) <= MaxEvents
  BY TimesAssumption DEF Init
<1>2. TypeOK
  <2>1. {} \in Notices /\ 0 \in 0 .. MaxDelay
    BY TimesAssumption DEF Notices
  <2>2. /\ change \in Notices /\ burst \in Notices /\ slot \in Notices
        /\ unseen \subseteq Kinds /\ modified \subseteq Kinds /\ raised \subseteq Kinds
    BY <2>1 DEF Init
  <2>3. first \in 0 .. MaxDelay /\ last \in 0 .. MaxDelay /\ tokens \in 0 .. 1
    BY <2>1 DEF Init
  <2>4. /\ callback = "idle" /\ overflow = FALSE /\ stop = FALSE /\ actor = "looping"
        /\ task = "waiting"
    BY DEF Init
  <2> QED
    BY <1>1, <2>2, <2>3, <2>4 DEF TypeOK
<1>3. /\ BurstClock /\ ChangeIsHandled /\ TaskInv /\ NoticeHasToken
      /\ OverflowHasReader /\ ChangeNotLost
  BY DEF Init, BurstClock, ChangeIsHandled, TaskInv, NoticeHasToken, OverflowHasReader,
         ChangeNotLost
<1> QED
  BY <1>2, <1>3 DEF DeliveryInv

\* The types, where only the clocks need more than the action itself.
LEMMA TypeInv == DeliveryInv /\ [Next]_vars => TypeOK'
<1> SUFFICES ASSUME DeliveryInv, [Next]_vars PROVE TypeOK'
  OBVIOUS
<1> USE DEF DeliveryInv, callbackVars, burstVars, deliveryVars
<1>1. ASSUME NEW k \in Kinds, DiskChange(k) PROVE TypeOK'
  BY <1>1 DEF DiskChange, TypeOK
<1>2. ASSUME NEW k \in Kinds, CallbackSend(k) PROVE TypeOK'
  <2>1. CASE Len(queue) < MaxEvents
    <3>1. queue' \in Seq(Kinds \cup {"wake"}) /\ Len(queue') <= MaxEvents
      BY <1>2, <2>1, QueueAfterAppend DEF CallbackSend
    <3> QED
      BY <1>2, <2>1, <3>1 DEF CallbackSend, TypeOK
  <2>2. CASE ~(Len(queue) < MaxEvents)
    BY <1>2, <2>2 DEF CallbackSend, TypeOK
  <2> QED
    BY <2>1, <2>2
<1>3. ASSUME CallbackOverflow PROVE TypeOK'
  BY <1>3 DEF CallbackOverflow, TypeOK
<1>4. ASSUME CallbackWake PROVE TypeOK'
  BY <1>4, QueueAfterWake DEF CallbackWake, TypeOK
<1>5. ASSUME Tick PROVE TypeOK'
  BY <1>5, TimesAssumption DEF Tick, TypeOK, BurstClock
<1>6. ASSUME Loop \/ ReceiveStop PROVE TypeOK'
  BY <1>6 DEF Loop, ReceiveStop, TypeOK
<1>7. ASSUME Receive PROVE TypeOK'
  <2>1. change' \in Notices /\ modified' \subseteq Kinds
    BY <1>7 DEF Receive, TypeOK, Notices
  <2> QED
    BY <1>7, <2>1, QueueAfterTail DEF Receive, TypeOK
<1>8. ASSUME Timeout PROVE TypeOK'
  BY <1>8 DEF Timeout, TypeOK, Notices
<1>9. ASSUME Collect PROVE TypeOK'
  <2>1. burst' \in Notices /\ change' \in Notices
    BY <1>9 DEF Collect, TypeOK, Notices
  <2>2. first' \in 0 .. MaxDelay /\ last' \in 0 .. MaxDelay
    BY <1>9, TimesAssumption DEF Collect, TypeOK
  <2> QED
    BY <1>9, <2>1, <2>2 DEF Collect, TypeOK
<1>10. ASSUME Push PROVE TypeOK'
  BY <1>10, TimesAssumption DEF Push, Send, TypeOK, Notices
<1>11. ASSUME PushNothing PROVE TypeOK'
  BY <1>11 DEF PushNothing, TypeOK
<1>12. ASSUME Wake PROVE TypeOK'
  BY <1>12 DEF Wake, TypeOK
<1>13. ASSUME TakeNotice PROVE TypeOK'
  BY <1>13 DEF TakeNotice, TypeOK, Notices
<1>14. ASSUME DropWatcher PROVE TypeOK'
  BY <1>14, QueueAfterWake DEF DropWatcher, TypeOK
<1>15. ASSUME UNCHANGED vars PROVE TypeOK'
  BY <1>15 DEF vars, TypeOK
<1> QED
  BY <1>1, <1>2, <1>3, <1>4, <1>5, <1>6, <1>7, <1>8, <1>9, <1>10, <1>11, <1>12, <1>13, <1>14,
     <1>15 DEF Next, Callback, Actor, EventTask

LEMMA ClockInv ==
    DeliveryInv /\ [Next]_vars => BurstClock' /\ ChangeIsHandled'
<1> SUFFICES ASSUME DeliveryInv, [Next]_vars PROVE BurstClock' /\ ChangeIsHandled'
  OBVIOUS
<1> USE DEF DeliveryInv, BurstClock, ChangeIsHandled, callbackVars, burstVars, deliveryVars
<1>1. ASSUME \/ \E k \in Kinds : DiskChange(k) \/ CallbackSend(k)
             \/ CallbackOverflow \/ CallbackWake \/ Wake \/ TakeNotice \/ DropWatcher
             \/ UNCHANGED vars
      PROVE  BurstClock' /\ ChangeIsHandled'
  BY <1>1 DEF DiskChange, CallbackSend, CallbackOverflow, CallbackWake, Wake, TakeNotice,
              DropWatcher, vars
<1>2. ASSUME Tick PROVE BurstClock' /\ ChangeIsHandled'
  BY <1>2 DEF Tick, TypeOK
<1>3. ASSUME Loop \/ Receive \/ ReceiveStop \/ Timeout \/ PushNothing
      PROVE  BurstClock' /\ ChangeIsHandled'
  BY <1>3 DEF Loop, Receive, ReceiveStop, Timeout, PushNothing
<1>4. ASSUME Collect PROVE BurstClock' /\ ChangeIsHandled'
  BY <1>4 DEF Collect, TypeOK
<1>5. ASSUME Push PROVE BurstClock' /\ ChangeIsHandled'
  BY <1>5 DEF Push, Send
<1> QED
  BY <1>1, <1>2, <1>3, <1>4, <1>5 DEF Next, Callback, Actor, EventTask

-----------------------------------------------------------------------------
(* The slot and its token *)

LEMMA TokenInv == DeliveryInv /\ [Next]_vars => TaskInv' /\ NoticeHasToken'
<1> SUFFICES ASSUME DeliveryInv, [Next]_vars PROVE TaskInv' /\ NoticeHasToken'
  OBVIOUS
<1> USE DEF DeliveryInv, TaskInv, NoticeHasToken, callbackVars, burstVars, deliveryVars
<1>1. ASSUME \/ \E k \in Kinds : DiskChange(k) \/ CallbackSend(k)
             \/ CallbackOverflow \/ CallbackWake \/ UNCHANGED vars
      PROVE  TaskInv' /\ NoticeHasToken'
  BY <1>1 DEF DiskChange, CallbackSend, CallbackOverflow, CallbackWake, vars
<1>2. ASSUME \/ Tick \/ Loop \/ Receive \/ ReceiveStop \/ Timeout \/ Collect \/ PushNothing
      PROVE  TaskInv' /\ NoticeHasToken'
  BY <1>2 DEF Tick, Loop, Receive, ReceiveStop, Timeout, Collect, PushNothing
<1>3. ASSUME Push PROVE TaskInv' /\ NoticeHasToken'
  <2>1. burst # {} /\ slot' = slot \cup burst /\ slot' # {}
    BY <1>3 DEF Push, Due, Send
  <2>2. tokens' = (IF slot = {} THEN 1 ELSE tokens) /\ UNCHANGED <<task, stop>>
    BY <1>3 DEF Push, Send
  <2>3. tokens' > 0 \/ task' = "woken" \/ task' = "ended"
    BY <2>2
  <2>4. slot = {} => task # "woken"
    BY <2>2
  <2> QED
    BY <2>1, <2>2, <2>3, <2>4
<1>4. ASSUME Wake PROVE TaskInv' /\ NoticeHasToken'
  BY <1>4 DEF Wake, TypeOK
<1>5. ASSUME TakeNotice PROVE TaskInv' /\ NoticeHasToken'
  BY <1>5 DEF TakeNotice, TypeOK
<1>6. ASSUME DropWatcher PROVE TaskInv' /\ NoticeHasToken'
  BY <1>6 DEF DropWatcher
<1> QED
  BY <1>1, <1>2, <1>3, <1>4, <1>5, <1>6 DEF Next, Callback, Actor, EventTask
-----------------------------------------------------------------------------
(* Overflows and changes *)

LEMMA ReaderInv == DeliveryInv /\ [Next]_vars => OverflowHasReader'
<1> SUFFICES ASSUME DeliveryInv, [Next]_vars PROVE OverflowHasReader'
  OBVIOUS
<1> USE DEF DeliveryInv, OverflowHasReader, callbackVars, burstVars, deliveryVars
<1>1. ASSUME NEW k \in Kinds, CallbackSend(k) PROVE OverflowHasReader'
  BY <1>1, QueueAfterAppend DEF CallbackSend
<1>2. ASSUME CallbackOverflow PROVE OverflowHasReader'
  BY <1>2 DEF CallbackOverflow
<1>3. ASSUME CallbackWake PROVE OverflowHasReader'
  BY <1>3, QueueAfterWake DEF CallbackWake
<1>4. ASSUME Receive \/ Timeout PROVE OverflowHasReader'
  BY <1>4 DEF Receive, Timeout
<1>5. ASSUME Collect PROVE OverflowHasReader'
  BY <1>5 DEF Collect
<1>6. ASSUME \/ (\E k \in Kinds : DiskChange(k)) \/ Tick \/ Loop \/ ReceiveStop \/ Push
             \/ PushNothing \/ Wake \/ TakeNotice \/ UNCHANGED vars
      PROVE  OverflowHasReader'
  BY <1>6 DEF DiskChange, Tick, Loop, ReceiveStop, Push, PushNothing, Wake, TakeNotice, vars
<1>7. ASSUME DropWatcher PROVE OverflowHasReader'
  BY <1>7 DEF DropWatcher
<1> QED
  BY <1>1, <1>2, <1>3, <1>4, <1>5, <1>6, <1>7 DEF Next, Callback, Actor, EventTask

\* A change that is not told is where it was, or has gone one step further.
LEMMA ChangeInv == DeliveryInv /\ [Next]_vars => ChangeNotLost'
<1> SUFFICES ASSUME DeliveryInv, [Next]_vars, NEW k \in Kinds, k \in unseen', ~stop'
             PROVE  OnItsWay(k)'
  BY TypeInv DEF ChangeNotLost, TypeOK
<1> USE DEF DeliveryInv, callbackVars, burstVars, deliveryVars
<1>0. /\ k # "rescan" /\ k # "wake"
      /\ k \in unseen /\ ~stop => OnItsWay(k)
  BY KindsAssumption DEF ChangeNotLost
<1>1. ASSUME NEW d \in Kinds, DiskChange(d) PROVE OnItsWay(k)'
  BY <1>0, <1>1 DEF DiskChange, OnItsWay
<1>2. ASSUME NEW d \in Kinds, CallbackSend(d) PROVE OnItsWay(k)'
  <2>1. CASE Len(queue) < MaxEvents
    BY <1>0, <1>2, <2>1, QueueAfterAppend DEF CallbackSend, OnItsWay
  <2>2. CASE ~(Len(queue) < MaxEvents)
    BY <1>2, <2>2 DEF CallbackSend, OnItsWay
  <2> QED
    BY <2>1, <2>2
<1>3. ASSUME CallbackOverflow PROVE OnItsWay(k)'
  BY <1>3 DEF CallbackOverflow, OnItsWay
<1>4. ASSUME CallbackWake PROVE OnItsWay(k)'
  BY <1>0, <1>4, QueueAfterWake DEF CallbackWake, OnItsWay
<1>5. ASSUME \/ Tick \/ Loop \/ ReceiveStop \/ PushNothing \/ Wake \/ UNCHANGED vars
      PROVE  OnItsWay(k)'
  BY <1>0, <1>5 DEF Tick, Loop, ReceiveStop, PushNothing, Wake, vars, OnItsWay
<1>6. ASSUME Receive PROVE OnItsWay(k)'
  <2>1. change = {} /\ change' = {Head(queue)} \cap modified
        /\ modified' = modified \ {Head(queue)}
    BY <1>6 DEF Receive, ChangeIsHandled
  <2>2. CASE k = Head(queue) /\ k \in modified
    BY <2>1, <2>2 DEF OnItsWay
  <2>3. CASE ~(k = Head(queue) /\ k \in modified)
    BY <1>0, <1>6, <2>1, <2>3, QueueAfterTail DEF Receive, OnItsWay
  <2> QED
    BY <2>2, <2>3
<1>7. ASSUME Timeout PROVE OnItsWay(k)'
  BY <1>0, <1>7 DEF Timeout, ChangeIsHandled, OnItsWay
<1>8. ASSUME Collect PROVE OnItsWay(k)'
  <2>1. /\ change \cup burst \subseteq burst' /\ overflow => "rescan" \in burst'
    BY <1>8 DEF Collect
  <2> QED
    BY <1>0, <1>8, <2>1 DEF Collect, OnItsWay
<1>9. ASSUME Push PROVE OnItsWay(k)'
  BY <1>0, <1>9 DEF Push, Send, OnItsWay
<1>10. ASSUME TakeNotice PROVE OnItsWay(k)'
  <2>1. k \notin Told(slot) /\ k \in unseen
    BY <1>10 DEF TakeNotice
  <2>2. {k, "rescan"} \cap slot = {}
    BY <2>1 DEF Told
  <2> QED
    BY <1>0, <1>10, <2>1, <2>2 DEF TakeNotice, OnItsWay
<1>11. ASSUME DropWatcher PROVE OnItsWay(k)'
  BY <1>11 DEF DropWatcher
<1> QED
  BY <1>1, <1>2, <1>3, <1>4, <1>5, <1>6, <1>7, <1>8, <1>9, <1>10, <1>11
     DEF Next, Callback, Actor, EventTask

-----------------------------------------------------------------------------
(* The theorems *)

(***************************************************************************)
(* The inductive invariant: where a change is on its way from the callback  *)
(* to the window, and who will look at the overflow flag.                   *)
(***************************************************************************)
THEOREM Invariance == Spec => []DeliveryInv
<1>1. DeliveryInv /\ [Next]_vars => DeliveryInv'
  BY TypeInv, ClockInv, TokenInv, ReaderInv, ChangeInv DEF DeliveryInv
<1> QED
  BY <1>1, InitInv, PTL DEF Spec

(***************************************************************************)
(* The variables keep their types: among others, the queue never outgrows   *)
(* its capacity, and the channel of wakes never holds two tokens.           *)
(***************************************************************************)
THEOREM TypeCorrect == Spec => []TypeOK
<1>1. DeliveryInv => TypeOK
  BY DEF DeliveryInv
<1> QED
  BY <1>1, Invariance, PTL

(***************************************************************************)
(* Nothing is lost between the watcher's callback and the window: a change  *)
(* that the window was not told of is in the hands of the callback, in the  *)
(* queue, the burst or the slot, or is covered by the overflow flag; a      *)
(* raised flag is read without waiting for another edit; and a notice and   *)
(* its wake token are never separated while the task runs.                  *)
(***************************************************************************)
THEOREM DeliveryLosesNothing == Spec => []NothingIsLost
<1>1. DeliveryInv => NothingIsLost
  BY DEF DeliveryInv, OverflowHasReader, OverflowIsRead, NothingIsLost
<1> QED
  BY <1>1, Invariance, PTL
=============================================================================
