------------------------------ MODULE Profiles ------------------------------
(***************************************************************************)
(* Named Git profiles (profiles.rs, profiles/store.rs, and work/profiles.rs *)
(* of git-core).  A definition is app data in profiles.json, which several *)
(* running programs share under a file lock.  Applying one writes the      *)
(* identity into the repository's Git configuration, after a review and    *)
(* under Git's own configuration lock, and then records the assignment in  *)
(* profiles.json.  Other Git processes change the configuration between    *)
(* any two steps, a step may fail, and a program may be killed: the system *)
(* releases its file lock, but its configuration lock stays.               *)
(*                                                                         *)
(* The configuration lock is a file, config.lock, that is made, renamed    *)
(* and removed by its name, whoever made the one that is there.  Of what   *)
(* is in it and in the configuration only the identity is kept.            *)
(***************************************************************************)
EXTENDS Naturals, FiniteSets, TLC

CONSTANTS Programs,    \* running programs
          Ids,         \* identifiers of profiles
          Identities,  \* author identities
          MaxEdits,    \* bound of the checks: mutations accepted
          MaxApplies,  \* bound of the checks: profiles applied
          MaxOutside   \* bound of the checks: outside changes and stops

ProfilesAssumption ==
    /\ MaxEdits \in Nat /\ MaxApplies \in Nat /\ MaxOutside \in Nat
    /\ IsFiniteSet(Programs) /\ IsFiniteSet(Ids) /\ IsFiniteSet(Identities)

Nothing == "none"
NothingAssumption ==
    Nothing \notin Programs /\ Nothing \notin Ids /\ Nothing \notin Identities

Left == "left"    \* who was killed and will not release a lock
Git == "git"      \* a Git command beside the programs
LeftAssumption == Left \notin Programs /\ Git \notin Programs

VARIABLES
    profiles,    \* profiles.json: the definitions and the assignment
    lock,        \* who holds profiles.json.lock
    config,      \* the identity in the repository's configuration, or Nothing
    configLock,  \* the file config.lock: who made it, and the identity in it
    gitWrites,   \* a Git command has made config.lock and will rename it
    robbed,      \* history: the config.lock of one at work was taken or removed
    ui,          \* what each program's window holds
    update,      \* the mutation on its preference executor
    apply,       \* the profile on its operation executor
    edits, applies, outside

configVars == <<config, configLock, gitWrites, robbed>>
profilesVars == <<profiles, lock, configVars, ui, update, apply, edits, applies, outside>>

Definitions == [Ids -> Identities \cup {Nothing}]
Stores == [defs : Definitions, assigned : Ids \cup {Nothing}]
Definition == [id : Ids, identity : Identities]

Mutations ==
    [kind : {"save"}, id : Ids, previous : Identities \cup {Nothing}, identity : Identities]
    \cup [kind : {"delete", "assign"}, id : Ids, identity : Identities]

NoDialog == [kind |-> Nothing]
NoUpdate == [step |-> Nothing]
NoApply == [step |-> Nothing]
NoLock == [by |-> Nothing, text |-> Nothing]
Configs == Identities \cup {Nothing}
Locks == [by : Programs \cup {Nothing, Left, Git}, text : Configs]

Dialogs ==
    {NoDialog}
    \cup [kind : {"form"}, id : Ids, previous : Identities \cup {Nothing}]
    \cup [kind : {"delete", "review"}, definition : Definition]
    \cup [kind : {"confirm"}, definition : Definition, original : Configs]

Windows ==
    [store : Stores, saving : BOOLEAN, failed : Mutations \cup {NoDialog},
     busy : {Nothing, "reviewing", "applying"}, dialog : Dialogs, error : BOOLEAN]

\* What a mutation writes before it has read the store.
Unread == [defs |-> [id \in Ids |-> Nothing], assigned |-> Nothing]

Updates ==
    {NoUpdate} \cup [step : {"queued", "locked", "loaded", "saved", "failed"},
                     mutation : Mutations, next : Stores, form : BOOLEAN]

Applications ==
    {NoApply} \cup [step : {"check", "lock", "verify", "write", "compare", "publish",
                            "renamed", "refused", "published", "unverified", "failed"},
                    definition : Definition, original : Configs]

NewWindow(store) ==
    [store |-> store, saving |-> FALSE, failed |-> NoDialog, busy |-> Nothing,
     dialog |-> NoDialog, error |-> FALSE]

ProfilesInit ==
    /\ profiles \in {s \in Stores : s.assigned = Nothing}
    /\ lock = Nothing
    /\ config \in Identities
    /\ configLock = NoLock /\ gitWrites = FALSE /\ robbed = FALSE
    /\ ui = [p \in Programs |-> NewWindow(profiles)]
    /\ update = [p \in Programs |-> NoUpdate]
    /\ apply = [p \in Programs |-> NoApply]
    /\ edits = 0 /\ applies = 0 /\ outside = 0

Free(p) == ui[p].busy = Nothing /\ ~ui[p].saving
Window(p, u) == ui' = [ui EXCEPT ![p] = u]
Known(p) == {d \in Definition : ui[p].store.defs[d.id] = d.identity}

(* save_profile_mutation: one save at a time; a second one is dropped.     *)
Saving(p, u, mutation) ==
    IF u.saving THEN Window(p, u) /\ UNCHANGED update
    ELSE /\ Window(p, [u EXCEPT !.saving = TRUE, !.error = FALSE])
         /\ update' = [update EXCEPT ![p] = [step |-> "queued", mutation |-> mutation,
                                       next |-> Unread, form |-> u.dialog.kind = "form"]]

----------------------------------------------------------------------------
(* The forms of the profile manager.                                       *)
EditProfile(p, id) ==
    /\ Free(p) /\ ui[p].dialog = NoDialog
    /\ Window(p, [ui[p] EXCEPT !.dialog =
            [kind |-> "form", id |-> id, previous |-> ui[p].store.defs[id]]])
    /\ UNCHANGED <<profiles, lock, configVars, update, apply, edits, applies, outside>>

SubmitForm(p, identity) ==
    LET form == ui[p].dialog
    IN  /\ form.kind = "form" /\ Free(p) /\ edits < MaxEdits
        /\ Saving(p, ui[p], [kind |-> "save", id |-> form.id, previous |-> form.previous,
                             identity |-> identity])
        /\ edits' = edits + 1
        /\ UNCHANGED <<profiles, lock, configVars, apply, applies, outside>>

DeleteProfile(p, d) ==
    /\ ui[p].dialog = NoDialog /\ d \in Known(p)
    /\ Window(p, [ui[p] EXCEPT !.dialog = [kind |-> "delete", definition |-> d]])
    /\ UNCHANGED <<profiles, lock, configVars, update, apply, edits, applies, outside>>

ConfirmDelete(p) ==
    LET d == ui[p].dialog.definition
        closed == [ui[p] EXCEPT !.dialog = NoDialog]
    IN  /\ ui[p].dialog.kind = "delete" /\ edits < MaxEdits
        /\ IF ui[p].busy = Nothing
           THEN Saving(p, closed, [kind |-> "delete", id |-> d.id, identity |-> d.identity])
           ELSE Window(p, closed) /\ UNCHANGED update
        /\ edits' = edits + 1
        /\ UNCHANGED <<profiles, lock, configVars, apply, applies, outside>>

CancelDialog(p) ==
    /\ ui[p].dialog # NoDialog
    /\ Window(p, [ui[p] EXCEPT !.dialog = NoDialog])
    /\ UNCHANGED <<profiles, lock, configVars, update, apply, edits, applies, outside>>

(* "Retry profile storage": the mutation that failed, or a reload.         *)
Retry(p) ==
    /\ ui[p].error /\ Free(p) /\ edits < MaxEdits
    /\ IF ui[p].failed # NoDialog
       THEN Saving(p, [ui[p] EXCEPT !.dialog = NoDialog], ui[p].failed)
       ELSE /\ Window(p, [ui[p] EXCEPT !.store = profiles, !.error = FALSE])
            /\ UNCHANGED update
    /\ edits' = edits + 1
    /\ UNCHANGED <<profiles, lock, configVars, apply, applies, outside>>

----------------------------------------------------------------------------
(* Store::update on the preference executor.                               *)
\* Mutant: the lock is not asked for.
UpdateUnlocked(p) ==
    /\ update[p].step = "queued"
    /\ update' = [update EXCEPT ![p].step = "locked"]
    /\ UNCHANGED <<profiles, lock, configVars, ui, apply, edits, applies, outside>>

UpdateLock(p) ==
    /\ update[p].step = "queued"
    /\ IF lock = Nothing
       THEN lock' = p /\ update' = [update EXCEPT ![p].step = "locked"]
       ELSE update' = [update EXCEPT ![p].step = "failed"] /\ UNCHANGED lock
    /\ UNCHANGED <<profiles, configVars, ui, apply, edits, applies, outside>>

Mutated(store, m) ==
    CASE m.kind = "save" -> [store EXCEPT !.defs[m.id] = m.identity]
      [] m.kind = "delete" -> [defs |-> [store.defs EXCEPT ![m.id] = Nothing],
                               assigned |-> IF store.assigned = m.id THEN Nothing
                                            ELSE store.assigned]
      [] m.kind = "assign" -> [store EXCEPT !.assigned = m.id]

(* What is in the file must still be what the mutation was made from.      *)
Expected(store, m) ==
    store.defs[m.id] = IF m.kind = "save" THEN m.previous ELSE m.identity

UpdateLoad(p) ==
    /\ update[p].step = "locked"
    /\ IF Expected(profiles, update[p].mutation)
       THEN /\ update' = [update EXCEPT ![p].step = "loaded",
                                  ![p].next = Mutated(profiles, update[p].mutation)]
            /\ UNCHANGED lock
       ELSE /\ update' = [update EXCEPT ![p].step = "failed"]
            /\ lock' = IF lock = p THEN Nothing ELSE lock
    /\ UNCHANGED <<profiles, configVars, ui, apply, edits, applies, outside>>

UpdateWrite(p) ==
    /\ update[p].step = "loaded"
    /\ \/ profiles' = update[p].next /\ update' = [update EXCEPT ![p].step = "saved"]
       \/ UNCHANGED profiles /\ update' = [update EXCEPT ![p].step = "failed"]
    /\ lock' = IF lock = p THEN Nothing ELSE lock
    /\ UNCHANGED <<configVars, ui, apply, edits, applies, outside>>

(* The reply: a form that is still shown is closed, one that was hidden    *)
(* stays hidden; a failure is kept for a retry unless a form can submit.   *)
UpdateReply(p) ==
    LET j == update[p]
        u == [ui[p] EXCEPT !.saving = FALSE]
        failed == [u EXCEPT !.error = TRUE,
                            !.failed = IF j.form THEN NoDialog ELSE j.mutation]
        saved == [u EXCEPT !.error = FALSE, !.failed = NoDialog, !.store = j.next,
                           !.dialog = IF j.form /\ @.kind = "form" THEN NoDialog ELSE @]
    IN  /\ j.step \in {"saved", "failed"}
        /\ Window(p, IF j.step = "saved" THEN saved ELSE failed)
        /\ update' = [update EXCEPT ![p] = NoUpdate]
        /\ UNCHANGED <<profiles, lock, configVars, apply, edits, applies, outside>>

----------------------------------------------------------------------------
(* Applying a profile: review, confirmation, and the write.                *)
PrepareProfile(p, d) ==
    /\ Free(p) /\ ui[p].dialog = NoDialog /\ d \in Known(p) /\ applies < MaxApplies
    /\ Window(p, [ui[p] EXCEPT !.busy = "reviewing",
                                !.dialog = [kind |-> "review", definition |-> d]])
    /\ applies' = applies + 1
    /\ UNCHANGED <<profiles, lock, configVars, update, apply, edits, outside>>

(* profile_plan: the configuration as it is read for the review.           *)
ProfilePlan(p) ==
    /\ ui[p].busy = "reviewing" /\ ui[p].dialog.kind = "review"
    /\ Window(p, [ui[p] EXCEPT !.busy = Nothing, !.dialog =
            [kind |-> "confirm", definition |-> ui[p].dialog.definition, original |-> config]])
    /\ UNCHANGED <<profiles, lock, configVars, update, apply, edits, applies, outside>>

(* The review fails, or another repository is shown when it is answered.   *)
ReviewFails(p) ==
    /\ ui[p].busy = "reviewing"
    /\ Window(p, [ui[p] EXCEPT !.busy = Nothing, !.dialog = NoDialog])
    /\ UNCHANGED <<profiles, lock, configVars, update, apply, edits, applies, outside>>

ConfirmApply(p) ==
    LET d == ui[p].dialog
    IN  /\ d.kind = "confirm" /\ ui[p].busy = Nothing
        /\ Window(p, [ui[p] EXCEPT !.busy = "applying", !.dialog = NoDialog])
        /\ apply' = [apply EXCEPT ![p] = [step |-> "check", definition |-> d.definition,
                                          original |-> d.original]]
        /\ UNCHANGED <<profiles, lock, configVars, update, edits, applies, outside>>

Applied(p, step) == apply' = [apply EXCEPT ![p].step = step]

(* execute_profile: the configuration is compared before the lock is made, *)
(* again under the lock, and once more when the new one is written.        *)
ApplyCheck(p) ==
    /\ apply[p].step = "check"
    /\ Applied(p, IF config = apply[p].original THEN "lock" ELSE "failed")
    /\ UNCHANGED <<profiles, lock, configVars, ui, update, edits, applies, outside>>

ApplyLock(p) ==
    /\ apply[p].step = "lock"
    /\ IF configLock.by = Nothing
       THEN configLock' = [by |-> p, text |-> Nothing] /\ Applied(p, "verify")
       ELSE Applied(p, "failed") /\ UNCHANGED configLock
    /\ UNCHANGED <<profiles, lock, config, gitWrites, robbed, ui, update, edits, applies, outside>>

ApplyVerify(p) ==
    /\ apply[p].step = "verify"
    /\ Applied(p, IF config = apply[p].original THEN "write" ELSE "refused")
    /\ UNCHANGED <<profiles, lock, configVars, ui, update, edits, applies, outside>>

(* What is in the file that has the lock's name; there may be none.        *)
ApplyWrite(p) ==
    /\ apply[p].step = "write"
    /\ IF configLock.by # Nothing
       THEN /\ configLock' = [configLock EXCEPT !.text = apply[p].definition.identity]
            /\ Applied(p, "compare")
       ELSE Applied(p, "refused") /\ UNCHANGED configLock
    /\ UNCHANGED <<profiles, lock, config, gitWrites, robbed, ui, update, edits, applies, outside>>

ApplyCompare(p) ==
    /\ apply[p].step = "compare"
    /\ Applied(p, IF config = apply[p].original THEN "publish" ELSE "refused")
    /\ UNCHANGED <<profiles, lock, configVars, ui, update, edits, applies, outside>>

(* Who takes or removes the lock file does not ask whose it is.            *)
Takes(who) ==
    /\ configLock' = NoLock
    /\ robbed' = (robbed \/ configLock.by \notin {who, Nothing, Left})

Renames(who) ==
    /\ configLock.by # Nothing
    /\ config' = configLock.text
    /\ Takes(who)

ApplyPublish(p) ==
    /\ apply[p].step = "publish"
    /\ \/ Renames(p) /\ Applied(p, "renamed")
       \/ configLock.by = Nothing /\ Applied(p, "refused") /\ UNCHANGED <<config, configLock, robbed>>
    /\ UNCHANGED <<profiles, lock, gitWrites, ui, update, edits, applies, outside>>

(* A Git command or a write fails.                                         *)
ApplyFail(p) ==
    /\ apply[p].step \in {"check", "lock", "verify", "write", "compare", "publish"}
    /\ Applied(p, IF apply[p].step \in {"check", "lock"} THEN "failed" ELSE "refused")
    /\ UNCHANGED <<profiles, lock, configVars, ui, update, edits, applies, outside>>

(* The end: what was published is read back, which may fail, and ConfigLock *)
(* removes config.lock, also where the rename has taken the one it made.   *)
ApplyEnd(p) ==
    /\ \/ apply[p].step = "renamed" /\ (Applied(p, "published") \/ Applied(p, "unverified"))
       \/ apply[p].step = "refused" /\ Applied(p, "failed")
    /\ Takes(p)
    /\ UNCHANGED <<profiles, lock, config, gitWrites, ui, update, edits, applies, outside>>

(* The reply of the write; finish_profile_write records a success.         *)
ApplyReply(p) ==
    LET d == apply[p].definition
        u == [ui[p] EXCEPT !.busy = Nothing]
    IN  /\ apply[p].step \in {"published", "unverified", "failed"}
        /\ apply' = [apply EXCEPT ![p] = NoApply]
        /\ IF apply[p].step = "published"
           THEN Saving(p, u, [kind |-> "assign", id |-> d.id, identity |-> d.identity])
           ELSE Window(p, u) /\ UNCHANGED update
        /\ UNCHANGED <<profiles, lock, configVars, edits, applies, outside>>

----------------------------------------------------------------------------
(* Another Git process changes the identity: it makes config.lock with the *)
(* new configuration, and renames it.                                      *)
GitLock(identity) ==
    /\ configLock.by = Nothing /\ ~gitWrites /\ outside < MaxOutside
    /\ configLock' = [by |-> Git, text |-> identity]
    /\ gitWrites' = TRUE
    /\ outside' = outside + 1
    /\ UNCHANGED <<profiles, lock, config, robbed, ui, update, apply, edits, applies>>

GitPublish ==
    /\ gitWrites
    /\ \/ Renames(Git)
       \/ configLock.by = Nothing /\ UNCHANGED <<config, configLock, robbed>>
    /\ gitWrites' = FALSE
    /\ UNCHANGED <<profiles, lock, ui, update, apply, edits, applies, outside>>

(* A program is killed and started again; it loads the store.              *)
RestartProgram(p) ==
    /\ outside < MaxOutside
    /\ lock' = IF lock = p THEN Nothing ELSE lock
    /\ configLock' = IF configLock.by = p THEN [configLock EXCEPT !.by = Left] ELSE configLock
    /\ Window(p, NewWindow(profiles))
    /\ update' = [update EXCEPT ![p] = NoUpdate]
    /\ apply' = [apply EXCEPT ![p] = NoApply]
    /\ outside' = outside + 1
    /\ UNCHANGED <<profiles, config, gitWrites, robbed, edits, applies>>

Executors(p) ==
    \/ UpdateLock(p) \/ UpdateLoad(p) \/ UpdateWrite(p) \/ UpdateReply(p)
    \/ ProfilePlan(p) \/ ApplyCheck(p) \/ ApplyLock(p) \/ ApplyVerify(p)
    \/ ApplyWrite(p) \/ ApplyCompare(p) \/ ApplyPublish(p) \/ ApplyEnd(p)
    \/ ApplyReply(p)

ProfilesNext ==
    \/ \E p \in Programs :
        \/ \E id \in Ids : EditProfile(p, id)
        \/ \E identity \in Identities : SubmitForm(p, identity)
        \/ \E d \in Definition : DeleteProfile(p, d) \/ PrepareProfile(p, d)
        \/ ConfirmDelete(p) \/ CancelDialog(p) \/ Retry(p) \/ ConfirmApply(p)
        \/ Executors(p) \/ ReviewFails(p) \/ ApplyFail(p) \/ RestartProgram(p)
    \/ \E identity \in Identities : GitLock(identity)
    \/ GitPublish

ProfilesSpec == ProfilesInit /\ [][ProfilesNext]_profilesVars

----------------------------------------------------------------------------
ProfilesTypeOK ==
    /\ profiles \in Stores
    /\ lock \in Programs \cup {Nothing}
    /\ config \in Configs
    /\ configLock \in Locks /\ gitWrites \in BOOLEAN /\ robbed \in BOOLEAN
    /\ ui \in [Programs -> Windows]
    /\ update \in [Programs -> Updates]
    /\ apply \in [Programs -> Applications]
    /\ edits \in 0 .. MaxEdits /\ applies \in 0 .. MaxApplies /\ outside \in 0 .. MaxOutside

(***************************************************************************)
(* A window says that it saves or applies exactly while a job will answer. *)
(***************************************************************************)
RepliesAreAwaited ==
    \A p \in Programs : /\ ui[p].saving <=> update[p] # NoUpdate
                        /\ ui[p].busy = "applying" <=> apply[p] # NoApply

(***************************************************************************)
(* The store never assigns a profile it does not define: a store that did  *)
(* would be refused by every later load and save (store.rs:190).           *)
(***************************************************************************)
AssignedIsDefined == profiles.assigned # Nothing => profiles.defs[profiles.assigned] # Nothing

Holding == {"verify", "write", "compare", "publish", "refused"}

(***************************************************************************)
(* A lock is held only by a step that will release it: config.lock outlives *)
(* a profile's write only when the program was killed.  And who works on   *)
(* the configuration has its lock, until a lock is taken from another.     *)
(***************************************************************************)
LocksAreHeld ==
    \A p \in Programs :
        /\ lock = p => update[p].step \in {"locked", "loaded"}
        /\ configLock.by = p => apply[p].step \in Holding
        /\ ~robbed /\ apply[p].step \in Holding => configLock.by = p

(* Two programs' saves do not undo each other: the file changes by a       *)
(* mutation, in the profile it names, from what its author was shown, and  *)
(* in no other one (store.rs:230).                                         *)
UpdateKeepsOthers ==
    profiles' # profiles => \E p \in Programs :
        LET m == update[p].mutation
        IN  /\ update[p].step = "loaded" /\ update'[p].step = "saved"
            /\ Expected(profiles, m)
            /\ \A id \in Ids \ {m.id} : profiles'.defs[id] = profiles.defs[id]
            /\ m.kind = "save" => profiles'.assigned = profiles.assigned

(* A profile is published over the very configuration its review showed:   *)
(* no change that another Git process made since is lost, by who still has *)
(* the lock; and who publishes has it and publishes what was reviewed,     *)
(* until a lock is taken from another.                                     *)
PublishesReviewed ==
    \A p \in Programs : apply[p].step = "publish" /\ apply'[p].step = "renamed" =>
        /\ configLock.by = p => config = apply[p].original
        /\ ~robbed => configLock.by = p /\ config' = apply[p].definition.identity

(* The only lock that is ever taken from another first is one made between *)
(* a rename and the end of the write, when ConfigLock removes config.lock  *)
(* a second time (profiles.rs:256).                                        *)
OnlyPublishersRob ==
    robbed' /\ ~robbed => \E p \in Programs :
        apply[p].step = "renamed" /\ apply'[p].step \in {"published", "unverified"}

(* A profile is assigned once it is published, or by a retry.              *)
AssignsPublished ==
    \A p \in Programs :
          update[p] = NoUpdate /\ update'[p] # NoUpdate /\ update'[p].mutation.kind = "assign" =>
              \/ apply[p].step = "published" /\ update'[p].mutation.id = apply[p].definition.id
              \/ ui[p].failed = update'[p].mutation

(* What was published and read back is recorded, unless the program stops: *)
(* the save that save_profile_mutation would drop is never another one.    *)
(* When it could not be read back (profiles.rs:243) nothing is recorded.   *)
RecordsPublished ==
    \A p \in Programs : apply[p].step = "published" /\ apply'[p] = NoApply /\ outside' = outside
            => update'[p] # NoUpdate /\ update'[p].mutation.kind = "assign"

(***************************************************************************)
(* An edit keeps the other programs' profiles, and the store assigns none  *)
(* that it does not define; a profile is published over the configuration  *)
(* that was reviewed by who still has the lock, which only a publisher's   *)
(* second removal ever takes away, and is assigned once it is read back;   *)
(* and who holds a lock will release it (Store::update, execute_profile,   *)
(* finish_profile_write).                                                  *)
(***************************************************************************)
NoUpdateIsLost ==
    [][ /\ ProfilesTypeOK /\ RepliesAreAwaited /\ AssignedIsDefined /\ LocksAreHeld
        /\ UpdateKeepsOthers /\ PublishesReviewed /\ OnlyPublishersRob
        /\ AssignsPublished /\ RecordsPublished ]_profilesVars

=============================================================================
