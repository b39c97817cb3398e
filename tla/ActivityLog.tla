----------------------------- MODULE ActivityLog -----------------------------
(***************************************************************************)
(* The log of accepted operations (crates/app/src/activity.rs).  An        *)
(* operation's entry is begun as it is submitted and finished when its     *)
(* reply is handled; each time the whole list is handed to the preferences *)
(* executor, which replaces activity.json.  Git runs on another executor,  *)
(* and the program may stop between any two steps.                         *)
(*                                                                         *)
(* An entry is [id, outcome].  Texts (repository, operation, target and    *)
(* explanation) are left out, and with them the limit of bytes; but of the *)
(* message an operation ends with, the words that make the log doubt its   *)
(* outcome are kept.  One operation is accepted at a time: OperationSlot   *)
(* shows why.                                                              *)
(***************************************************************************)
EXTENDS Integers, Sequences, FiniteSets, SequencesExt

CONSTANTS
  Limit,        \* entries kept (LIMIT, 200)
  Clock,        \* what the clock may say, in any order
  MaxOps,       \* bound: operations accepted
  MaxKills      \* bound: stops of the program

ActivityLogAssumption ==
  /\ Limit \in Nat \ {0}
  /\ Clock \subseteq Nat
  /\ MaxOps \in Nat /\ MaxKills \in Nat

Outcomes == {"running", "success", "failure", "cancelled", "uncertain"}

(* How an operation ends: what became of it, and the words in its message. *)
(* A command that runs too long or says too much "exceeded" a limit, and a *)
(* reply that never comes is put down as one "without a result": what Git  *)
(* did is not known then, and of a caught panic neither, whose message has *)
(* none of the words.  A failure's message, often Git's, may have any.     *)
Endings ==
  {e \in [result : {"success", "failure", "unknown"},
          words : {"none", "exceeded", "without a result"}] :
     e.result = "success" => e.words = "none"}

\* Words of doubt in the handlers of write and of create_project (clone, init).
Words == [write |-> {"without a result", "exceeded"}, create |-> {"without a result"}]

\* What became of an operation: one that nobody can say is "unspoken" when its
\* message does not have its handler's words.
Ends == {"success", "failure", "unknown", "unspoken"}

VARIABLES
  entries,      \* State::entries
  error,        \* State::error: "none", "unavailable" or "unsaved"
  disk,         \* activity.json: "absent", "refused" or the list
  saves,        \* lists handed to the preferences executor, oldest first
  op,           \* the operation in flight: its id and kind, how far it is,
                \* and whether its message casts doubt
  truth,        \* what became of every operation Git was given, by id
  ops, kills    \* counts for the bounds

logVars == <<entries, error, disk, saves, op, truth, ops, kills>>

NoOp == [id |-> 0, kind |-> "write", stage |-> "none", doubt |-> FALSE, cancelled |-> FALSE]

Submitted(id, kind) ==
  [id |-> id, kind |-> kind, stage |-> "submitted", doubt |-> FALSE, cancelled |-> FALSE]

Absent == [kind |-> "absent", list |-> <<>>]
Refused == [kind |-> "refused", list |-> <<>>]
File(list) == [kind |-> "list", list |-> list]

-----------------------------------------------------------------------------
\* Mutant: an entry in progress is listed as it was saved.
LoadedAsSaved(list) ==
  SubSeq(list, IF Len(list) > Limit THEN Len(list) - Limit + 1 ELSE 1, Len(list))

\* State::read: the newest entries; one in progress has an unknown outcome.
Loaded(list) ==
  LET kept == SubSeq(list, IF Len(list) > Limit THEN Len(list) - Limit + 1
                           ELSE 1, Len(list))
  IN [i \in 1..Len(kept) |->
        IF kept[i].outcome = "running" THEN [kept[i] EXCEPT !.outcome = "uncertain"]
        ELSE kept[i]]

\* begin: the clock, or one more than the newest entry's id.
NextId(now) ==
  IF entries = <<>> \/ now > Last(entries).id THEN now ELSE Last(entries).id + 1

\* The list with one more entry, its oldest dropped at the limit.
Push(list, entry) ==
  LET longer == Append(list, entry)
  IN IF Len(longer) > Limit THEN Tail(longer) ELSE longer

\* finish: success first, then cancellation, then doubt.
Outcome(result, cancelled, doubt) ==
  IF result = "success" THEN "success"
  ELSE IF cancelled THEN "cancelled"
  ELSE IF doubt THEN "uncertain" ELSE "failure"

\* save_activity: the whole list, unless the file was not understood.
Save(list) ==
  saves' = IF error = "unavailable" THEN saves ELSE Append(saves, list)

-----------------------------------------------------------------------------
LogInit ==
  /\ disk \in {Absent, Refused, File(<<>>)}
  /\ entries = <<>>
  /\ error = IF disk = Refused THEN "unavailable" ELSE "none"
  /\ saves = <<>>
  /\ op = NoOp
  /\ truth = <<>>
  /\ ops = 0 /\ kills = 0

\* write or create_project accepts an operation: begin, save_activity, submit.
BeginEntry ==
  /\ op = NoOp
  /\ ops < MaxOps
  /\ \E now \in Clock, kind \in DOMAIN Words :
       LET id == NextId(now)
           list == Push(entries, [id |-> id, outcome |-> "running"])
       IN /\ entries' = list
          /\ Save(list)
          /\ op' = Submitted(id, kind)
          /\ truth' = [i \in DOMAIN truth \cup {id} |->
                         IF i = id THEN "none" ELSE truth[i]]
  /\ ops' = ops + 1
  /\ UNCHANGED <<error, disk, kills>>

\* The person cancels the operation: only its control is told.
Cancel ==
  /\ op.stage # "none"
  /\ op' = [op EXCEPT !.cancelled = TRUE]
  /\ UNCHANGED <<entries, error, disk, saves, truth, ops, kills>>

\* Git ends on the operations executor, or is ended.
Run ==
  /\ op.stage = "submitted"
  /\ \E ending \in Endings :
       LET doubt == ending.words \in Words[op.kind]
       IN /\ truth' = [truth EXCEPT ![op.id] =
                          IF ending.result = "unknown" /\ ~doubt THEN "unspoken"
                          ELSE ending.result]
          /\ op' = [op EXCEPT !.stage = "ran", !.doubt = doubt]
  /\ UNCHANGED <<entries, error, disk, saves, ops, kills>>

\* The reply is handled: finish and save_activity.
Finish ==
  /\ op.stage = "ran"
  /\ LET list == [i \in 1..Len(entries) |->
                    IF entries[i].id = op.id
                      THEN [entries[i] EXCEPT !.outcome =
                              Outcome(truth[op.id], op.cancelled, op.doubt)]
                      ELSE entries[i]]
     IN entries' = list /\ Save(list)
  /\ op' = NoOp
  /\ UNCHANGED <<error, disk, truth, ops, kills>>

\* The preferences executor replaces the file by the oldest list it was given.
WriteLog ==
  /\ saves # <<>>
  /\ disk' = File(Head(saves))
  /\ saves' = Tail(saves)
  /\ UNCHANGED <<entries, error, op, truth, ops, kills>>

\* The replacement fails and its reply says so.
WriteLogFails ==
  /\ saves # <<>>
  /\ saves' = Tail(saves)
  /\ error' = "unsaved"
  /\ UNCHANGED <<entries, disk, op, truth, ops, kills>>

\* The program stops, in the middle of Git's work or before it, and starts
\* again: State::load.
Restart ==
  /\ kills < MaxKills
  /\ entries' = IF disk.kind = "list" THEN Loaded(disk.list) ELSE <<>>
  /\ error' = IF disk.kind = "refused" THEN "unavailable" ELSE "none"
  /\ saves' = <<>>
  /\ truth' \in {truth} \cup
       (IF op.stage = "submitted" THEN {[truth EXCEPT ![op.id] = "unknown"]} ELSE {})
  /\ op' = NoOp
  /\ kills' = kills + 1
  /\ UNCHANGED <<disk, ops>>

LogNext == BeginEntry \/ Cancel \/ Run \/ Finish \/ WriteLog \/ WriteLogFails \/ Restart

LogSpec == LogInit /\ [][LogNext]_logVars

-----------------------------------------------------------------------------
IdsIn(list) == {list[i].id : i \in 1..Len(list)}
Entry(list, id) == list[CHOOSE i \in 1..Len(list) : list[i].id = id]

(***************************************************************************)
(* Types and the bound of the list.                                        *)
(***************************************************************************)
Entries == {l \in Seq([id : Nat, outcome : Outcomes]) : Len(l) <= Limit}

LogTypeOK ==
  /\ entries \in Entries
  /\ error \in {"none", "unavailable", "unsaved"}
  /\ disk.kind \in {"absent", "refused", "list"} /\ disk.list \in Entries
  /\ \A i \in 1..Len(saves) : saves[i] \in Entries
  /\ op \in [id : Nat, kind : DOMAIN Words, stage : {"none", "submitted", "ran"},
            doubt : BOOLEAN, cancelled : BOOLEAN]

(***************************************************************************)
(* Entries are told apart by ids that only grow, although the clock may    *)
(* stand still or go back and the list starts again from the file: finish  *)
(* looks the entry up by its id.                                           *)
(***************************************************************************)
IdsIncrease ==
  \A i, j \in 1..Len(entries) : i < j => entries[i].id < entries[j].id

(***************************************************************************)
(* The one entry in progress is the operation in flight, which the limit   *)
(* never drops: nothing else is shown as running, after a restart neither  *)
(* (State::read makes an interrupted entry uncertain).                     *)
(***************************************************************************)
RunningIsInFlight ==
  {id \in IdsIn(entries) : Entry(entries, id).outcome = "running"} =
    IF op = NoOp THEN {} ELSE {op.id}

(***************************************************************************)
(* No entry, in the window or in the file, claims a success Git did not    *)
(* report, and none calls a failure what succeeded or what its handler     *)
(* knew to be in doubt, whatever was cancelled, interrupted or written     *)
(* late; and what succeeded is listed so while the program runs.           *)
(***************************************************************************)
NoFalseOutcome ==
  \A list \in {entries, disk.list} : \A id \in IdsIn(list) :
    /\ Entry(list, id).outcome = "success" => truth[id] = "success"
    /\ Entry(list, id).outcome = "failure" => truth[id] \in {"failure", "unspoken"}
    /\ (truth[id] = "success" /\ list = entries /\ kills = 0) =>
         Entry(list, id).outcome \in {"running", "success"}

\* A file that was not understood is never replaced: nothing is queued for it.
RefusedIsKept == disk = Refused => error = "unavailable" /\ saves = <<>>

(***************************************************************************)
(* Entries have increasing numbers, also with a clock that stands still;   *)
(* one in progress is of an operation that runs; none claims a success     *)
(* that was not, or a failure of what succeeded or was known to be in      *)
(* doubt; and a log that was refused is left alone (State::begin, finish,  *)
(* read and save_activity).                                                *)
(***************************************************************************)
LogIsTrue ==
  LogTypeOK /\ IdsIncrease /\ RunningIsInFlight /\ NoFalseOutcome /\ RefusedIsKept
=============================================================================
