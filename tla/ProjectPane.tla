---------------------------- MODULE ProjectPane ----------------------------
(***************************************************************************)
(* The project pane and the preferences writer (project_pane.rs,           *)
(* preferences.rs, workspace.rs).  The pane shows an edit at once and      *)
(* saves the whole list; opening a repository makes the writer add it to   *)
(* whatever list is on disk, and its reply adds it to the list on screen.  *)
(* The writer runs the saves in the order they were submitted, but every   *)
(* reply is awaited by a task of its own and the tasks may be run in any   *)
(* order.  The numbers of the saves are what tells a reply how much of it  *)
(* is still news.                                                          *)
(***************************************************************************)
EXTENDS ProjectLibrary

CONSTANTS MaxRecent,     \* MAX_RECENT, 10 in the code
          Initial,       \* the list on disk at launch
          UserSaves,     \* bound of the checks: saves the user starts
          MaxFailures,   \* bound of the checks: writes that fail
          Edits          \* the edits of this check, among AllEdits

AllEdits == {"forget", "move", "fold", "ungroup", "form", "retry", "dismiss"}

PaneAssumption ==
    /\ MaxRecent \in Nat \ {0} /\ UserSaves \in Nat /\ MaxFailures \in Nat
    /\ Edits \subseteq AllEdits
    /\ Initial \in Seq(Entry) /\ Validate(Initial) /\ IsForest(Initial)

VARIABLES
    listed,       \* GitTurtle.project_library, the list on screen
    latest,       \* latest_save and latest_pane_save
    failed,       \* pane_save_failed
    error,        \* "none", "save" or "refused": what the pane's strip says
    menu,         \* the project whose menu is open, or NoMenu
    groupForm,    \* the group dialog: "closed", "open" or "pending"
    hub,          \* ProjectHub.recent
    saves,        \* saves the writer has yet to run
    answers,      \* answers no task has handled yet
    saved,        \* the project list and the recents of the settings file
    failures      \* writes that failed

NoMenu == "none"

paneShown == <<listed, latest, failed, error, menu, groupForm, hub>>
paneVars == <<paneShown, saves, answers, saved, failures>>

Job == [save : Nat, kind : {"list", "recent"}, list : Seq(Entry),
        path : Projects \cup {NoMenu}, listed : BOOLEAN, form : BOOLEAN]

Same(a, b) == ToSet(a) = ToSet(b)      \* the pane sorts what it shows

----------------------------------------------------------------------------
(* begin_project_library_save and submit_project_library_save. *)
SubmitList(list, dialog) ==
    /\ latest' = [save |-> latest.save + 1, pane |-> latest.save + 1]
    /\ failed' = FALSE
    /\ saves' = Append(saves, [save |-> latest.save + 1, kind |-> "list",
                   list |-> list, path |-> NoMenu, listed |-> FALSE, form |-> dialog])

(* edit_project_library: an edit that changes nothing saves nothing. *)
EditList(list) ==
    /\ list # listed /\ listed' = list
    /\ SubmitList(list, FALSE)
    /\ UNCHANGED error

MaySave == latest.save < UserSaves
NoGroupForm == groupForm = "closed"

OpenMenu(p) ==
    /\ menu = NoMenu /\ NoGroupForm /\ p \in Listed(listed)
    /\ menu' = p
    /\ UNCHANGED <<listed, latest, failed, error, groupForm, hub,
                   saves, answers, saved, failures>>

CloseMenu ==
    /\ menu # NoMenu
    /\ menu' = NoMenu
    /\ UNCHANGED <<listed, latest, failed, error, groupForm, hub,
                   saves, answers, saved, failures>>

(* The open menu's items; the list may have changed under it. *)
ForgetItem ==
    /\ MaySave /\ "forget" \in Edits /\ menu # NoMenu
    /\ EditList(ForgetProject(listed, menu))
    /\ menu' = NoMenu
    /\ UNCHANGED <<groupForm, hub, answers, saved, failures>>

MoveProjectTo(g) ==
    /\ MaySave /\ "move" \in Edits /\ menu # NoMenu /\ CanMoveProject(listed, menu, g)
    /\ EditList(Move(listed, menu, g))
    /\ menu' = NoMenu
    /\ UNCHANGED <<groupForm, hub, answers, saved, failures>>

RefuseMove ==
    /\ "move" \in Edits /\ menu # NoMenu /\ menu \notin Listed(listed)
    /\ error' = "refused" /\ menu' = NoMenu
    /\ UNCHANGED <<listed, latest, failed, groupForm, hub,
                   saves, answers, saved, failures>>

ToggleGroup(g) ==
    /\ MaySave /\ "fold" \in Edits /\ NoGroupForm /\ menu = NoMenu /\ g \in Groups(listed)
    /\ EditList(SetCollapsed(listed, g, ~listed[At(listed, g)].collapsed))
    /\ UNCHANGED <<menu, groupForm, hub, answers, saved, failures>>

Ungroup(g) ==
    /\ MaySave /\ "ungroup" \in Edits /\ NoGroupForm /\ menu = NoMenu /\ g \in Groups(listed)
    /\ EditList(RemoveGroup(listed, g))
    /\ UNCHANGED <<menu, groupForm, hub, answers, saved, failures>>

Retry ==
    /\ "retry" \in Edits /\ NoGroupForm /\ menu = NoMenu /\ error # "none"
    /\ error' = "none"
    /\ SubmitList(listed, FALSE)
    /\ UNCHANGED <<listed, menu, groupForm, hub, answers, saved, failures>>

(* The strip's Dismiss: the failure is no longer shown, but not forgotten. *)
DismissError ==
    /\ "dismiss" \in Edits /\ NoGroupForm /\ menu = NoMenu /\ error # "none"
    /\ error' = "none"
    /\ UNCHANGED <<listed, latest, failed, menu, groupForm, hub,
                   saves, answers, saved, failures>>

(* The dialog of a new top-level group: open_group_form, GroupForm::submit *)
(* with submit_group_name, and Cancel, disabled while a save is pending.   *)
OpenGroupForm ==
    /\ "form" \in Edits /\ NoGroupForm /\ menu = NoMenu
    /\ groupForm' = "open"
    /\ UNCHANGED <<listed, latest, failed, error, menu, hub,
                   saves, answers, saved, failures>>

SubmitGroupName ==
    /\ MaySave /\ groupForm = "open" /\ CanCreate(listed, Top)
    /\ listed' = CreateGroup(listed, Top)
    /\ SubmitList(CreateGroup(listed, Top), TRUE)
    /\ groupForm' = "pending"
    /\ UNCHANGED <<error, menu, hub, answers, saved, failures>>

CancelGroupForm ==
    /\ groupForm = "open"
    /\ groupForm' = "closed"
    /\ UNCHANGED <<listed, latest, failed, error, menu, hub,
                   saves, answers, saved, failures>>

(* remember_repository, for each snapshot of a repository the window takes.*)
OpenRepository(p) ==
    /\ MaySave
    /\ latest' = [latest EXCEPT !.save = @ + 1]
    /\ saves' = Append(saves, [save |-> latest.save + 1, kind |-> "recent",
                   list |-> <<>>, path |-> p,
                   listed |-> p \in Listed(listed), form |-> FALSE])
    /\ UNCHANGED <<listed, failed, error, menu, groupForm, hub, answers, saved, failures>>

----------------------------------------------------------------------------
(* The writer: save_project_library_at replaces the list, remember_at puts *)
(* the path first among the recents, which hold it once at most, and adds  *)
(* it to the list on disk.                                                 *)

Remembering(store, p) ==
    LET others == RemoveFirst(store.recents, p)
    IN  [list    |-> Remember(store.list, p),
         recents |-> <<p>> \o SubSeq(others, 1, Min({Len(others), MaxRecent - 1}))]

Store(job) ==
    IF job.kind = "list" THEN [saved EXCEPT !.list = job.list]
    ELSE Remembering(saved, job.path)

WriteList ==
    /\ saves # <<>>
    /\ saves' = Tail(saves)
    /\ saved' = Store(Head(saves))
    /\ answers' = answers \cup {[job |-> Head(saves), ok |-> TRUE, stored |-> saved']}
    /\ UNCHANGED <<paneShown, failures>>

WriteListFails ==
    /\ saves # <<>> /\ failures < MaxFailures
    /\ failures' = failures + 1
    /\ saves' = Tail(saves)
    /\ answers' = answers \cup {[job |-> Head(saves), ok |-> FALSE, stored |-> saved]}
    /\ UNCHANGED <<paneShown, saved>>

----------------------------------------------------------------------------
(* finish_project_library_save. *)
FinishList(r) ==
    /\ failed' = (IF r.job.save = latest.pane THEN ~r.ok ELSE failed)
    /\ error' = (IF r.job.save = latest.pane THEN IF r.ok THEN "none" ELSE "save"
                 ELSE error)
    /\ listed' = (IF r.job.save = latest.save /\ r.ok THEN r.stored.list ELSE listed)
    /\ UNCHANGED <<latest, saves, hub>>

(* absorb_remembered_project: whether the reply adds its project, and      *)
(* whether the list that results has to be written again.                  *)
Absorbs(r) ==
    LET p == Head(r.stored.recents)
    IN  ~r.job.listed /\ p \in Listed(r.stored.list) /\ Remember(listed, p) # listed

\* Mutant: a list a later save wrote without the project is left so.
ResaveEvictionOnly(r, list) ==
    Cardinality(Listed(list)) = Cardinality(Listed(listed)) /\ ~failed

Resave(r, list) ==
    /\ \/ Cardinality(Listed(list)) = Cardinality(Listed(listed))
       \/ latest.pane > r.job.save
    /\ ~failed

FinishRecent(r) ==
    LET list == Remember(listed, Head(r.stored.recents)) IN
    /\ hub' = r.stored.recents
    /\ error' = error
    /\ listed' = (IF Absorbs(r) THEN list ELSE listed)
    /\ IF Absorbs(r) /\ Resave(r, list) THEN SubmitList(list, FALSE)
       ELSE UNCHANGED <<latest, failed, saves>>

(* finish_group_form: a failure keeps the dialog and what was typed in it. *)
FinishGroupForm(r) ==
    groupForm' = IF ~r.job.form THEN groupForm
                 ELSE IF r.ok THEN "closed" ELSE "open"

Handle(r) ==
    /\ answers' = answers \ {r}
    /\ \/ r.job.kind = "list" /\ FinishList(r)
       \/ r.job.kind = "recent" /\ r.ok /\ FinishRecent(r)
       \/ r.job.kind = "recent" /\ ~r.ok
          /\ UNCHANGED <<listed, latest, failed, error, hub, saves>>
    /\ FinishGroupForm(r)
    /\ UNCHANGED <<menu, saved, failures>>

PaneInit ==
    /\ listed = Initial /\ saved = [list |-> Initial, recents |-> <<>>]
    /\ hub = <<>> /\ latest = [save |-> 0, pane |-> 0]
    /\ failed = FALSE /\ error = "none" /\ menu = NoMenu
    /\ groupForm = "closed"
    /\ saves = <<>> /\ answers = {} /\ failures = 0

ByUser ==
    \/ \E p \in Projects : OpenRepository(p) \/ OpenMenu(p)
    \/ CloseMenu \/ ForgetItem \/ RefuseMove \/ Retry \/ DismissError
    \/ \E g \in {Top} \cup GroupIds : MoveProjectTo(g)
    \/ \E g \in GroupIds : ToggleGroup(g) \/ Ungroup(g)
    \/ OpenGroupForm \/ SubmitGroupName \/ CancelGroupForm

\* Mutant: only the newest save's reply is awaited.
HandledNewest == \E r \in answers : r.job.save = latest.save /\ Handle(r)

Handled == \E r \in answers : Handle(r)

PaneNext == ByUser \/ WriteList \/ WriteListFails \/ Handled

(* The writer's thread runs what is queued and the main thread runs every  *)
(* task that was woken.                                                    *)
PaneSpec == PaneInit /\ [][PaneNext]_paneVars /\ WF_paneVars(WriteList) /\ WF_paneVars(Handled)

----------------------------------------------------------------------------
Quiet == saves = <<>> /\ answers = {}

PaneTypeOK ==
    /\ listed \in Seq(Entry) /\ saved.list \in Seq(Entry)
    /\ latest.pane <= latest.save
    /\ failed \in BOOLEAN /\ error \in {"none", "save", "refused"}
    /\ menu \in Projects \cup {NoMenu}
    /\ groupForm \in {"closed", "open", "pending"}
    /\ \A i \in DOMAIN saves : saves[i] \in Job
    /\ Len(saved.recents) <= MaxRecent

\* Once every save is answered the pane shows what the settings file holds, or
\* knows that its newest list could not be saved.  It may know so in silence:
\* DismissError takes the strip away and leaves pane_save_failed.
QuietAgrees == Quiet => Same(listed, saved.list) \/ failed

\* A save that failed is told in the strip, which goes on saying so until the
\* user dismisses it or the list is saved again.
FailureIsTold ==
    failed' /\ error' = "none" => failed /\ (error = "none" \/ DismissError)

\* A reply adds the project that was opened, for which a full list may lose one
\* that is in no group, and leaves every group and every other place as the user
\* last put it.
ReplyKeepsEdits ==
    Handled =>
        /\ Groups(listed') = Groups(listed)
        /\ \A e \in ToSet(listed) \ ToSet(listed') :
               e.into = Top /\ e.item \in Projects \ Listed(listed')
        /\ Cardinality(Listed(listed')) >= Cardinality(Listed(listed))

(***************************************************************************)
(* No reply undoes an edit, and none leaves the pane and the file apart    *)
(* except where the newest list could not be saved, which the user was     *)
(* told: whatever edits, openings and failed writes overlapped, and in     *)
(* whatever order their answers were handled (remember_repository,         *)
(* absorb_remembered_project, finish_project_library_save).                *)
(***************************************************************************)
EditsAreKept ==
    [][ReplyKeepsEdits /\ FailureIsTold /\ (PaneTypeOK /\ QuietAgrees)']_paneVars

=============================================================================
