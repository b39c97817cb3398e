----------------------------- MODULE DraftStore -----------------------------
(***************************************************************************)
(* What the draft saver promises, without its queue, its thread and its     *)
(* batches.  Each worktree (a key) has a draft that the user edits and a    *)
(* copy on disk.  Writing replaces some copies by a later edit, never by an *)
(* earlier one, and the program only ends as "saved" when every draft is on *)
(* disk.                                                                    *)
(***************************************************************************)
EXTENDS Naturals

CONSTANT Keys

VARIABLES
    typed,     \* the number of edits of each draft
    durable,   \* the edit each copy on disk holds, 0 when there is none
    ended      \* "no", "saved" or "unsaved"

storeVars == <<typed, durable, ended>>

StoreInit ==
    /\ typed = [k \in Keys |-> 0]
    /\ durable = [k \in Keys |-> 0]
    /\ ended = "no"

Edit(k) ==
    /\ ended = "no"
    /\ typed' = [typed EXCEPT ![k] = @ + 1]
    /\ UNCHANGED <<durable, ended>>

\* A later edit of some drafts reaches the disk.
Write ==
    /\ ended = "no"
    /\ durable' \in [Keys -> Nat]
    /\ \A k \in Keys : durable[k] <= durable'[k] /\ durable'[k] <= typed[k]
    /\ UNCHANGED <<typed, ended>>

\* The program ends; it may claim that it saved only what it saved.
End ==
    /\ ended = "no"
    /\ \/ ended' = "saved" /\ durable = typed
       \/ ended' = "unsaved"
    /\ UNCHANGED <<typed, durable>>

StoreNext == (\E k \in Keys : Edit(k)) \/ Write \/ End

StoreSpec == StoreInit /\ [][StoreNext]_storeVars
=============================================================================
