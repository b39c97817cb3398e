--------------------------- MODULE LatestRequest ---------------------------
(***************************************************************************)
(* What the read worker promises to the user interface, without its queue,  *)
(* its thread and its cancellation tokens.  Requests are answered in the    *)
(* order in which they were made.  The newest one stays current until it is *)
(* revoked or replaced, and a current request is answered, never turned     *)
(* away.  A request that is no longer current may still be answered late.   *)
(***************************************************************************)
EXTENDS Naturals

CONSTANT MaxRequests   \* bound on the requests ever made

VARIABLES
    asked,     \* the number of requests made
    current,   \* the request whose answer is wanted, 0 for none
    answer     \* the answer to each request

requestVars == <<asked, current, answer>>

Made == 1 .. MaxRequests
Answered == {"value", "error"}
TurnedAway == {"superseded", "dropped"}

RequestInit ==
    /\ asked = 0
    /\ current = 0
    /\ answer = [r \in Made |-> "none"]

\* At most the requests of a set change their answer, by being turned away.
TurnAway(requests) ==
    \A r \in requests :
        answer'[r] # answer[r] => answer[r] = "waiting" /\ answer'[r] \in TurnedAway

\* A request supersedes the older ones, or is refused at once.
Ask ==
    /\ asked < MaxRequests
    /\ asked' = asked + 1
    /\ answer' \in [Made -> {"none", "waiting"} \cup Answered \cup TurnedAway]
    /\ \/ current' = asked' /\ answer'[asked'] = "waiting"
       \/ current' = 0 /\ answer'[asked'] = "error"
    /\ TurnAway(Made \ {asked'})

\* Nobody waits for the current answer any more.
Revoke ==
    /\ current' = 0
    /\ answer' \in [Made -> {"none", "waiting"} \cup Answered \cup TurnedAway]
    /\ TurnAway(Made)
    /\ UNCHANGED asked

\* The oldest open request is settled.
Answer(r) ==
    /\ answer[r] = "waiting"
    /\ \A older \in 1 .. r - 1 : answer[older] # "waiting"
    /\ \E a \in Answered \cup TurnedAway :
          /\ a \in TurnedAway => r # current
          /\ answer' = [answer EXCEPT ![r] = a]
    /\ UNCHANGED <<asked, current>>

RequestNext == Ask \/ Revoke \/ \E r \in Made : Answer(r)

RequestSpec == RequestInit /\ [][RequestNext]_requestVars
=============================================================================
