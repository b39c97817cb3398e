---------------------------- MODULE OperationSlot ----------------------------
(***************************************************************************)
(* Who may start a Git operation, and when (workspace.rs, integration.rs   *)
(* and the preparing parts of branch_actions.rs, recovery.rs, tags.rs,     *)
(* interactive_rebase.rs, ignore.rs, discard.rs, profiles.rs and           *)
(* rewrite_review.rs in crates/app/src).                                   *)
(*                                                                         *)
(* operation_busy is one label for the whole window.  A preparation takes  *)
(* it while its plan is read, an accepted operation while Git runs.  Most  *)
(* preparations own a generation: cancelling one drops its task and, when  *)
(* the label is still its own, frees the window.  Tabs, pages and dialogs  *)
(* change meanwhile, and replies are handled against what is shown then.   *)
(***************************************************************************)
EXTENDS Naturals, FiniteSets

CONSTANTS
  Tabs,         \* repositories a tab may show
  NoTab,        \* nothing is open
  Kinds,        \* the preparations the instance has
  MaxDrafts     \* bound: versions of a commit message

\* The preparations, by how they are freed.
Guarded == {"branch", "recovery", "tags", "rebase", "ignore", "discard"}
Forms == {"rebase", "ignore"}
\* The review of a rewritten series asks from its dialog too.
Dialogs == Forms \cup {"checking"}

OperationSlotAssumption ==
  /\ NoTab \notin Tabs
  /\ Kinds \subseteq Guarded \cup {"profile", "comparing", "checking"}
  /\ MaxDrafts \in Nat

VARIABLES
  path,         \* the repository shown, or NoTab
  open,         \* the tabs there are
  page,         \* "repository", "settings" or "projects"
  dialog,       \* the alert on top: none, a form, a confirmation
  busy,         \* operation_busy
  reading,      \* the preparations whose tasks are alive: [kind, path]
  writing,      \* the accepted operation Git runs: none or one
  draft,        \* the commit message of each repository, 0 is empty
  drafts        \* versions written so far

slotVars == <<path, open, page, dialog, busy, reading, writing, draft, drafts>>

Free == "free"
NoDialog == [kind |-> "none", path |-> NoTab]
Pages == {"repository", "settings", "projects"}

SlotInit ==
  /\ path \in Tabs
  /\ open = {path}
  /\ page = "repository"
  /\ dialog = NoDialog
  /\ busy = Free
  /\ reading = {}
  /\ writing = {}
  /\ draft = [t \in Tabs |-> 0]
  /\ drafts = 0

\* The slot once the tasks of kinds are dropped: a label of theirs is freed.
Freed(kinds) == IF busy \in kinds THEN Free ELSE busy

Dropped(kinds) == {r \in reading : r.kind \notin kinds}

\* cancel_branch_action and its siblings, for the kinds a handler names.
Cancel(kinds) ==
  /\ busy' = Freed(kinds)
  /\ reading' = Dropped(kinds)

-----------------------------------------------------------------------------
(* Preparations.                                                           *)

\* The rebase and ignore forms and the rewrite review are dialogs.
OpenForm(k) ==
  /\ k \in Dialogs
  /\ busy = Free /\ path # NoTab /\ page = "repository"
  /\ dialog = NoDialog
  /\ dialog' = [kind |-> k, path |-> path]
  /\ UNCHANGED <<path, open, page, busy, reading, writing, draft, drafts>>

\* Where a preparation can be asked for.
Asked(k) ==
  /\ IF k = "profile" THEN page # "projects" ELSE page = "repository"
  /\ IF k \in Dialogs THEN dialog = [kind |-> k, path |-> path]
     ELSE dialog = NoDialog

\* read_branch_action, read_recovery, read_tag_action, read_rebase,
\* open_discard, IgnoreForm::submit, prepare_profile, prepare_integration and
\* check_remote: one label, one task, one reply.
Prepare(k) ==
  /\ busy = Free
  /\ path # NoTab
  /\ Asked(k)
  /\ busy' = k
  /\ reading' = Dropped({k}) \cup {[kind |-> k, path |-> path]}
  /\ UNCHANGED <<path, open, page, dialog, writing, draft, drafts>>

\* Whose reply clears the label without looking at it.
Careless == {"comparing", "checking"}

AfterReply(k) == IF k \in Careless THEN Free ELSE Freed({k})

\* What is shown must still be what was asked about.  A comparison does not
\* look at the page, a profile only avoids Projects.
StillShown(r) ==
  /\ path = r.path
  /\ CASE r.kind = "comparing" -> TRUE
       [] r.kind = "profile" -> page # "projects"
       [] r.kind = "checking" -> page = "repository" /\ dialog.kind = "checking"
       [] OTHER -> page = "repository"

\* The reply: the plan is confirmed, or the error is shown.
Prepared(r) ==
  /\ r \in reading
  /\ reading' = reading \ {r}
  /\ busy' = AfterReply(r.kind)
  /\ dialog' \in {dialog} \cup
       (IF StillShown(r) THEN {[kind |-> "confirm", path |-> path]} ELSE {})
  /\ UNCHANGED <<path, open, page, writing, draft, drafts>>

-----------------------------------------------------------------------------
(* Accepted operations.                                                    *)

Accepted(operation, t) ==
  {[operation |-> operation, path |-> t, page |-> page, seen |-> path,
    message |-> IF operation = "commit" THEN draft[t] ELSE 0]}

\* write: the one operation of the window, for the repository shown.
Write(operation) ==
  IF busy = Free /\ path # NoTab
    THEN /\ writing' = Accepted(operation, path)
         /\ busy' = "write"
         /\ UNCHANGED <<path, open, page, reading, draft, drafts>>
    ELSE UNCHANGED <<path, open, page, busy, reading, writing, draft, drafts>>

\* Stage, commit, fetch and the like need no confirmation.
Ask(operation) ==
  /\ dialog = NoDialog
  /\ page = "repository"
  /\ path # NoTab
  /\ operation = "commit" => draft[path] # 0
  /\ Write(operation)
  /\ UNCHANGED dialog

\* Mutant: the confirmation does not look at the repository shown.
ConfirmAnyRepository ==
  /\ dialog.kind = "confirm"
  /\ dialog' = NoDialog
  /\ Write("other")

\* OK of confirm_git_write.
Confirm ==
  /\ dialog.kind = "confirm"
  /\ dialog' = NoDialog
  /\ IF path = dialog.path THEN Write("other")
     ELSE UNCHANGED <<path, open, page, busy, reading, writing, draft, drafts>>

\* Cancel of a dialog; that of a form cancels its preparation too.
Dismiss ==
  /\ dialog # NoDialog
  /\ dialog' = NoDialog
  /\ Cancel({dialog.kind} \cap Forms)
  /\ UNCHANGED <<path, open, page, writing, draft, drafts>>

\* clear_committed_draft: only the message that was submitted.
AfterCommit(w) ==
  IF w.operation = "commit" /\ draft[w.path] = w.message
    THEN [draft EXCEPT ![w.path] = 0] ELSE draft

\* The reply of write: the slot is free; a commit empties its message.
Written ==
  \E w \in writing :
    /\ w.operation # "project"
    /\ writing' = {}
    /\ busy' = Free
    /\ \/ UNCHANGED draft
       \/ draft' = AfterCommit(w)
    /\ UNCHANGED <<path, open, page, dialog, reading, drafts>>

\* Clone and Create of the project hub.
CreateProject(t) ==
  /\ page = "projects"
  /\ busy = Free
  /\ dialog = NoDialog
  /\ t \notin open
  /\ writing' = Accepted("project", t)
  /\ busy' = "write"
  /\ UNCHANGED <<path, open, page, dialog, reading, draft, drafts>>

\* open and switch_repository_tab, as far as the slot goes: the tab that is
\* left is retained, which drops the comparison's task (and cancels a
\* discard); an open drops the guarded ones too.
Leaves(kinds) ==
  /\ busy' = Freed(kinds)
  /\ reading' = Dropped(kinds \cup {"comparing"})

\* Its reply opens the new repository for a person who waited for it, and
\* registers a tab for one who moved on.
Created ==
  \E w \in writing :
    /\ w.operation = "project"
    /\ writing' = {}
    /\ open' \in {open, open \cup {w.path}}
    /\ IF w.path \in open' /\ path = w.seen /\ page = w.page
         THEN /\ path' = w.path
              /\ busy' = Free
              /\ reading' = Dropped(Guarded \cup {"comparing"})
         ELSE busy' = Free /\ UNCHANGED <<path, reading>>
    /\ UNCHANGED <<page, dialog, draft, drafts>>

-----------------------------------------------------------------------------
(* Tabs, pages and the message.                                            *)

\* A retained tab is shown as it was left; another one is opened again.
Warm == {"discard"}
Shown == {Warm, Guarded}

\* A tab is selected by a click or a key, also while an operation runs.
SwitchTab(t) ==
  /\ dialog = NoDialog
  /\ t \in open \ {path}
  /\ path' = t
  /\ page' = "repository"
  /\ \E kinds \in Shown : Leaves(kinds)
  /\ UNCHANGED <<open, dialog, writing, draft, drafts>>

\* A folder the system's picker answers with is opened in a tab of its own,
\* whatever is shown by then.
OpenFolder(t) ==
  /\ t \notin open
  /\ open' = open \cup {t}
  /\ path' = t
  /\ page' = "repository"
  /\ Leaves(Guarded)
  /\ UNCHANGED <<dialog, writing, draft, drafts>>

\* Refresh opens the repository shown again.
Reopen ==
  /\ path # NoTab
  /\ dialog = NoDialog
  /\ page = "repository"
  /\ Cancel(Guarded)
  /\ UNCHANGED <<path, open, page, dialog, writing, draft, drafts>>

\* close_repository_tab: not the tab of the running operation.
CloseTab(t) ==
  /\ dialog = NoDialog
  /\ t \in open
  /\ \A w \in writing : w.path # t
  /\ open' = open \ {t}
  /\ IF t = path
       THEN /\ \E kinds \in Shown : Cancel(kinds)
            /\ path' \in IF open' = {} THEN {NoTab} ELSE open'
            /\ page' = IF open' = {} THEN "projects" ELSE "repository"
       ELSE UNCHANGED <<path, page, busy, reading>>
  /\ UNCHANGED <<dialog, writing, draft, drafts>>

ShowSettings ==
  /\ page # "settings"
  /\ dialog = NoDialog
  /\ page' = "settings"
  /\ Cancel({"branch", "rebase", "discard"})
  /\ UNCHANGED <<path, open, dialog, writing, draft, drafts>>

\* show_projects cancels first and stays when something else holds the slot.
ShowProjects ==
  /\ page # "projects"
  /\ dialog = NoDialog
  /\ Cancel({"branch", "rebase", "recovery", "discard"})
  /\ page' = IF busy' = Free THEN "projects" ELSE page
  /\ UNCHANGED <<path, open, dialog, writing, draft, drafts>>

\* Back to the repository, which the hub refuses while the slot is taken.
Return ==
  /\ page # "repository"
  /\ path # NoTab
  /\ dialog = NoDialog
  /\ page = "projects" => busy = Free
  /\ page' = "repository"
  /\ UNCHANGED <<path, open, dialog, busy, reading, writing, draft, drafts>>

\* The message is edited, while a commit of it runs too.
EditMessage ==
  /\ drafts < MaxDrafts
  /\ path # NoTab /\ page = "repository"
  /\ dialog = NoDialog
  /\ drafts' = drafts + 1
  /\ draft' = [draft EXCEPT ![path] = drafts + 1]
  /\ UNCHANGED <<path, open, page, dialog, busy, reading, writing>>

Replies == (\E r \in reading : Prepared(r)) \/ Written \/ Created

SlotNext ==
  \/ \E k \in Kinds : OpenForm(k) \/ Prepare(k)
  \/ Replies
  \/ \E operation \in {"commit", "other"} : Ask(operation)
  \/ Confirm \/ Dismiss
  \/ \E t \in Tabs : SwitchTab(t) \/ OpenFolder(t) \/ CloseTab(t) \/ CreateProject(t)
  \/ Reopen \/ ShowSettings \/ ShowProjects \/ Return
  \/ EditMessage

SlotSpec == SlotInit /\ [][SlotNext]_slotVars

\* Git ends within its time limits and replies are handled.
FairSlotSpec == SlotSpec /\ WF_slotVars(Replies)

-----------------------------------------------------------------------------
(***************************************************************************)
(* Types.                                                                  *)
(***************************************************************************)
Operations ==
  [operation : {"commit", "other", "project"}, path : Tabs, page : Pages,
   seen : Tabs \cup {NoTab}, message : 0..MaxDrafts]

SlotTypeOK ==
  /\ path \in Tabs \cup {NoTab}
  /\ open \subseteq Tabs /\ (path # NoTab => path \in open)
  /\ page \in Pages
  /\ dialog \in [kind : Dialogs \cup {"none", "confirm"}, path : Tabs \cup {NoTab}]
  /\ busy \in Kinds \cup {Free, "write"}
  /\ reading \subseteq [kind : Kinds, path : Tabs]
  /\ writing \subseteq Operations
  /\ draft \in [Tabs -> 0..MaxDrafts] /\ drafts \in 0..MaxDrafts

(***************************************************************************)
(* The label is that of whatever is alive: of the one preparation whose    *)
(* task runs, or of the one operation.  Without it a reply that frees the  *)
(* slot unseen (write, prepare_integration) would free another's.          *)
(***************************************************************************)
LabelIsOfTheTask ==
  /\ \A r \in reading : busy = r.kind /\ \A other \in reading : other = r
  /\ \A w \in writing : busy = "write" /\ \A other \in writing : other = w

\* A task starts only when no other is alive: tasks never overlap.
TasksTakeTurns ==
    (reading' \ reading # {} \/ writing' \ writing # {}) =>
        reading = {} /\ writing = {}

RunsWhatIsShown ==
    (dialog.kind = "confirm" /\ writing' # writing /\ writing' # {}) =>
        \A w \in writing' : w.path = dialog.path

ReviewsShown ==
    (dialog'.kind = "confirm" /\ dialog' # dialog) =>
        /\ dialog'.path = path
        /\ \E r \in reading \ reading' : r.path = dialog'.path

ClearsCommitted ==
    \A t \in Tabs : (draft[t] # 0 /\ draft'[t] = 0) =>
        \E w \in writing : w.path = t /\ w.message = draft[t]

(***************************************************************************)
(* An operation runs for the repository it was reviewed in, and alone: a   *)
(* review opens for the repository shown, what is confirmed is submitted   *)
(* only while that repository is shown (a folder may have been opened      *)
(* under the dialog), no task starts beside another, and a commit clears   *)
(* the message it committed and no other.                                  *)
(***************************************************************************)
ReviewedIsShown ==
  [][ /\ SlotTypeOK /\ LabelIsOfTheTask
      /\ RunsWhatIsShown /\ ReviewsShown /\ ClearsCommitted /\ TasksTakeTurns ]_slotVars

(***************************************************************************)
(* Whatever takes the slot gives it back: the window is never busy for     *)
(* good.                                                                   *)
(***************************************************************************)
SlotIsFreed == (busy # Free) ~> (busy = Free)
=============================================================================
