----------------------------- MODULE WindowProofs -----------------------------
(***************************************************************************)
(* Proofs about what one window keeps: the slot of explicit operations     *)
(* (OperationSlot), for any repositories, preparations and messages, the   *)
(* watch of the desktop's theme (DesktopTheme), for any themes and any     *)
(* number of writes, moves, watchers and choices, the theme the window     *)
(* wears (ThemeEditor), for any themes, saves, choices and changes, and    *)
(* the pane of projects (ProjectPane), for any projects, limits, edits and *)
(* orders of the replies.                                                  *)
(***************************************************************************)
EXTENDS OperationSlot, DesktopTheme, ThemeEditor, ProjectPane, FiniteSetTheorems,
        SequenceTheorems, WellFoundedInduction, TLAPS

-----------------------------------------------------------------------------
(* The operation slot.                                                     *)

\* The inductive invariant: types, and one task under the label it took.
SlotInvariant == SlotTypeOK /\ LabelIsOfTheTask

\* What a step leaves unchanged, the invariant keeps.
LEMMA SlotStuttering ==
  ASSUME SlotInvariant, UNCHANGED slotVars
  PROVE  SlotInvariant'
BY DEF SlotInvariant, SlotTypeOK, LabelIsOfTheTask, slotVars

\* Dropping the tasks of some preparations, and freeing the label if it is
\* theirs, keeps the slot sound (cancel_branch_action and its siblings).
LEMMA DroppedIsSound ==
  ASSUME SlotInvariant, OperationSlotAssumption,
         NEW labels \in SUBSET (Guarded \cup {"comparing"}),
         NEW kinds, labels \subseteq kinds,
         busy' = Freed(labels), reading' = Dropped(kinds), writing' = writing
  PROVE  /\ LabelIsOfTheTask'
         /\ busy' \in Kinds \cup {Free, "write"}
         /\ reading' \subseteq [kind : Kinds, path : Tabs]
<1>1. "write" \notin labels
  BY DEF Guarded
<1>2. busy' \in Kinds \cup {Free, "write"}
  BY DEF SlotInvariant, SlotTypeOK, Freed
<1>3. reading' \subseteq reading /\ \A r \in reading' : r.kind \notin labels
  BY DEF Dropped
<1>4. \A r \in reading' : busy' = r.kind
  BY <1>3 DEF SlotInvariant, LabelIsOfTheTask, Freed
<1>5. \A w \in writing' : busy' = "write"
  BY <1>1 DEF SlotInvariant, LabelIsOfTheTask, Freed
<1> QED
  BY <1>2, <1>3, <1>4, <1>5 DEF SlotInvariant, SlotTypeOK, LabelIsOfTheTask

\* While an operation runs no preparation is alive, whatever its kind.
LEMMA OperationIsAlone ==
  ASSUME SlotInvariant, OperationSlotAssumption, NEW w \in writing
  PROVE  reading = {} /\ busy = "write" /\ writing = {w} /\ w \in Operations
<1>1. "write" \notin Kinds
  BY DEF OperationSlotAssumption, Guarded
<1> QED
  BY <1>1 DEF SlotInvariant, SlotTypeOK, LabelIsOfTheTask

\* A free label: nothing is alive.
LEMMA FreeIsIdle ==
  ASSUME SlotInvariant, OperationSlotAssumption, busy = Free
  PROVE  reading = {} /\ writing = {}
<1>1. Free \notin Kinds /\ Free # "write"
  BY DEF OperationSlotAssumption, Guarded, Free
<1> QED
  BY <1>1 DEF SlotInvariant, SlotTypeOK, LabelIsOfTheTask

\* write: the slot is taken for the repository shown, or nothing changes.
LEMMA WriteIsSound ==
  ASSUME SlotInvariant, OperationSlotAssumption,
         NEW operation \in {"commit", "other"}, Write(operation)
  PROVE  /\ LabelIsOfTheTask'
         /\ busy' \in Kinds \cup {Free, "write"}
         /\ reading' \subseteq [kind : Kinds, path : Tabs]
         /\ writing' \subseteq Operations
         /\ writing' \in {writing, Accepted(operation, path)}
         /\ UNCHANGED <<path, open, page, draft, drafts>>
<1>1. CASE busy = Free /\ path # NoTab
  <2>1. /\ writing' = Accepted(operation, path) /\ busy' = "write"
        /\ UNCHANGED <<path, open, page, reading, draft, drafts>>
    BY <1>1 DEF Write
  <2>2. reading = {}
    BY <1>1, FreeIsIdle
  <2>3. path \in Tabs
    BY <1>1 DEF SlotInvariant, SlotTypeOK
  <2>4. draft[path] \in 0..MaxDrafts /\ 0 \in 0..MaxDrafts
    BY <2>3 DEF SlotInvariant, SlotTypeOK, OperationSlotAssumption
  <2>5. Accepted(operation, path) \subseteq Operations
    BY <2>3, <2>4 DEF SlotInvariant, SlotTypeOK, Accepted, Operations
  <2>6. LabelIsOfTheTask'
    BY <2>1, <2>2 DEF LabelIsOfTheTask, Accepted
  <2> QED
    BY <2>1, <2>2, <2>5, <2>6
<1>2. CASE ~(busy = Free /\ path # NoTab)
  <2>1. UNCHANGED <<path, open, page, busy, reading, writing, draft, drafts>>
    BY <1>2 DEF Write
  <2> QED
    BY <2>1 DEF SlotInvariant, SlotTypeOK, LabelIsOfTheTask
<1> QED
  BY <1>1, <1>2

\* Opening a form: nothing starts.
LEMMA OpenFormStep ==
  ASSUME SlotInvariant, NEW k \in Kinds, OpenForm(k)
  PROVE  SlotInvariant'
<1> USE DEF SlotInvariant, SlotTypeOK, OpenForm
<1>1. dialog' \in [kind : Dialogs \cup {"none", "confirm"}, path : Tabs \cup {NoTab}]
  OBVIOUS
<1> QED
  BY <1>1 DEF LabelIsOfTheTask

\* A preparation takes the free slot.
LEMMA PrepareStep ==
  ASSUME SlotInvariant, OperationSlotAssumption, NEW k \in Kinds, Prepare(k)
  PROVE  SlotInvariant'
<1>1. reading = {} /\ writing = {}
  BY FreeIsIdle DEF Prepare
<1>2. path \in Tabs
  BY DEF Prepare, SlotInvariant, SlotTypeOK
<1>3. reading' = {[kind |-> k, path |-> path]} /\ busy' = k /\ writing' = {}
  BY <1>1 DEF Prepare, Dropped
<1>4. LabelIsOfTheTask'
  BY <1>3 DEF LabelIsOfTheTask
<1>5. UNCHANGED <<path, open, page, dialog, draft, drafts>>
  BY DEF Prepare
<1>6. reading' \subseteq [kind : Kinds, path : Tabs] /\ writing' \subseteq Operations
  BY <1>2, <1>3
<1>7. SlotTypeOK'
  BY <1>3, <1>5, <1>6 DEF SlotInvariant, SlotTypeOK
<1> QED
  BY <1>4, <1>7 DEF SlotInvariant

\* The one preparation's reply: none is left, and the label is freed, also by
\* the replies that do not look at it.
LEMMA PreparedStep ==
  ASSUME SlotInvariant, OperationSlotAssumption, NEW r \in reading, Prepared(r)
  PROVE  SlotInvariant'
<1>1. reading = {r} /\ busy = r.kind /\ r.kind \in Kinds /\ path \in Tabs \cup {NoTab}
  BY DEF SlotInvariant, SlotTypeOK, LabelIsOfTheTask
<1>2. reading' = {} /\ writing' = writing
  BY <1>1 DEF Prepared
<1>3. writing = {}
  BY OperationIsAlone
<1>4. busy' = Free
  BY <1>1 DEF Prepared, AfterReply, Freed
<1>5. LabelIsOfTheTask'
  BY <1>2, <1>3 DEF LabelIsOfTheTask
<1>6. dialog' \in [kind : Dialogs \cup {"none", "confirm"}, path : Tabs \cup {NoTab}]
  <2>1. dialog' \in {dialog, [kind |-> "confirm", path |-> path]}
    BY DEF Prepared
  <2> QED
    BY <1>1, <2>1 DEF SlotInvariant, SlotTypeOK
<1>7. SlotTypeOK'
  BY <1>2, <1>3, <1>4, <1>6 DEF Prepared, SlotInvariant, SlotTypeOK
<1> QED
  BY <1>5, <1>7 DEF SlotInvariant

\* What needs no confirmation takes the slot or does nothing.
LEMMA AskStep ==
  ASSUME SlotInvariant, OperationSlotAssumption,
         NEW operation \in {"commit", "other"}, Ask(operation)
  PROVE  SlotInvariant'
<1>1. Write(operation) /\ UNCHANGED dialog
  BY DEF Ask
<1> QED
  BY <1>1, WriteIsSound DEF SlotInvariant, SlotTypeOK

\* So does what was confirmed.
LEMMA ConfirmStep ==
  ASSUME SlotInvariant, OperationSlotAssumption, Confirm
  PROVE  SlotInvariant'
<1>1. dialog' \in [kind : Dialogs \cup {"none", "confirm"}, path : Tabs \cup {NoTab}]
  BY DEF Confirm, NoDialog
<1>2. CASE path = dialog.path
  <2>1. Write("other")
    BY <1>2 DEF Confirm
  <2> QED
    BY <1>1, <2>1, WriteIsSound DEF SlotInvariant, SlotTypeOK
<1>3. CASE path # dialog.path
  <2>1. UNCHANGED <<path, open, page, busy, reading, writing, draft, drafts>>
    BY <1>3 DEF Confirm
  <2> QED
    BY <1>1, <2>1 DEF SlotInvariant, SlotTypeOK, LabelIsOfTheTask
<1> QED
  BY <1>2, <1>3

\* A dialog is cancelled, and a form's preparation with it.
LEMMA DismissStep ==
  ASSUME SlotInvariant, OperationSlotAssumption, Dismiss
  PROVE  SlotInvariant'
<1>1. dialog' \in [kind : Dialogs \cup {"none", "confirm"}, path : Tabs \cup {NoTab}]
  BY DEF Dismiss, NoDialog
<1>2. {dialog.kind} \cap Forms \in SUBSET (Guarded \cup {"comparing"})
  BY DEF Forms, Guarded
<1>3. /\ LabelIsOfTheTask'
      /\ busy' \in Kinds \cup {Free, "write"}
      /\ reading' \subseteq [kind : Kinds, path : Tabs]
  BY <1>2, DroppedIsSound DEF Dismiss, Cancel
<1> QED
  BY <1>1, <1>3 DEF Dismiss, SlotInvariant, SlotTypeOK

\* An operation ends: the slot is free and nothing is alive.
LEMMA WrittenStep ==
  ASSUME SlotInvariant, OperationSlotAssumption, Written
  PROVE  SlotInvariant'
<1> PICK w \in writing : /\ w.operation # "project"
                         /\ writing' = {}
                         /\ busy' = Free
                         /\ \/ UNCHANGED draft
                            \/ draft' = AfterCommit(w)
                         /\ UNCHANGED <<path, open, page, dialog, reading, drafts>>
  BY DEF Written
<1>1. reading = {} /\ w.path \in Tabs
  BY OperationIsAlone DEF Operations
<1>2. draft' \in [Tabs -> 0..MaxDrafts]
  BY DEF AfterCommit, SlotInvariant, SlotTypeOK, OperationSlotAssumption
<1> QED
  BY <1>1, <1>2 DEF SlotInvariant, SlotTypeOK, LabelIsOfTheTask

\* A clone takes the free slot too.
LEMMA CreateProjectStep ==
  ASSUME SlotInvariant, OperationSlotAssumption, NEW t \in Tabs, CreateProject(t)
  PROVE  SlotInvariant'
<1>1. reading = {} /\ writing = {}
  BY FreeIsIdle DEF CreateProject
<1>2. Accepted("project", t) \subseteq Operations
  BY DEF Accepted, Operations, SlotInvariant, SlotTypeOK, OperationSlotAssumption
<1>3. LabelIsOfTheTask'
  BY <1>1 DEF CreateProject, LabelIsOfTheTask, Accepted
<1>4. SlotTypeOK'
  BY <1>1, <1>2 DEF CreateProject, SlotInvariant, SlotTypeOK
<1> QED
  BY <1>3, <1>4 DEF SlotInvariant

\* It ends, and may show what it created.
LEMMA CreatedStep ==
  ASSUME SlotInvariant, OperationSlotAssumption, Created
  PROVE  SlotInvariant'
<1> PICK w \in writing :
      /\ w.operation = "project"
      /\ writing' = {}
      /\ open' \in {open, open \cup {w.path}}
      /\ IF w.path \in open' /\ path = w.seen /\ page = w.page
           THEN /\ path' = w.path
                /\ busy' = Free
                /\ reading' = Dropped(Guarded \cup {"comparing"})
           ELSE busy' = Free /\ UNCHANGED <<path, reading>>
      /\ UNCHANGED <<page, dialog, draft, drafts>>
  BY DEF Created
<1>1. reading = {} /\ w.path \in Tabs
  BY OperationIsAlone DEF Operations
<1>2. reading' = {} /\ busy' = Free
  BY <1>1 DEF Dropped
<1>3. path' \in {w.path, path} /\ (path' # path => path' \in open')
  OBVIOUS
<1>4. open \subseteq open' /\ open' \subseteq Tabs
  BY <1>1 DEF SlotInvariant, SlotTypeOK
<1> QED
  BY <1>1, <1>2, <1>3, <1>4 DEF SlotInvariant, SlotTypeOK, LabelIsOfTheTask

\* What is left is retained or dropped; what is shown was opened.
LEMMA SwitchTabStep ==
  ASSUME SlotInvariant, OperationSlotAssumption, NEW t \in Tabs, SwitchTab(t)
  PROVE  SlotInvariant'
<1> PICK kinds \in Shown : Leaves(kinds)
  BY DEF SwitchTab
<1>1. kinds \in SUBSET (Guarded \cup {"comparing"})
  BY DEF Shown, Warm, Guarded
<1>2. /\ kinds \subseteq kinds \cup {"comparing"}
      /\ busy' = Freed(kinds) /\ reading' = Dropped(kinds \cup {"comparing"})
      /\ writing' = writing
  BY DEF SwitchTab, Leaves
<1>3. /\ LabelIsOfTheTask'
      /\ busy' \in Kinds \cup {Free, "write"}
      /\ reading' \subseteq [kind : Kinds, path : Tabs]
  BY <1>1, <1>2, DroppedIsSound
<1> QED
  BY <1>3 DEF SwitchTab, SlotInvariant, SlotTypeOK, Pages

LEMMA OpenFolderStep ==
  ASSUME SlotInvariant, OperationSlotAssumption, NEW t \in Tabs, OpenFolder(t)
  PROVE  SlotInvariant'
<1>1. Guarded \in SUBSET (Guarded \cup {"comparing"})
  OBVIOUS
<1>2. /\ LabelIsOfTheTask'
      /\ busy' \in Kinds \cup {Free, "write"}
      /\ reading' \subseteq [kind : Kinds, path : Tabs]
  BY <1>1, DroppedIsSound DEF OpenFolder, Leaves
<1> QED
  BY <1>2 DEF OpenFolder, SlotInvariant, SlotTypeOK, Pages

LEMMA ReopenStep ==
  ASSUME SlotInvariant, OperationSlotAssumption, Reopen
  PROVE  SlotInvariant'
<1>1. Guarded \in SUBSET (Guarded \cup {"comparing"})
  OBVIOUS
<1>2. /\ LabelIsOfTheTask'
      /\ busy' \in Kinds \cup {Free, "write"}
      /\ reading' \subseteq [kind : Kinds, path : Tabs]
  BY <1>1, DroppedIsSound DEF Reopen, Cancel
<1> QED
  BY <1>2 DEF Reopen, SlotInvariant, SlotTypeOK

\* The tab of a running operation stays; closing another leaves what it read.
LEMMA CloseTabStep ==
  ASSUME SlotInvariant, OperationSlotAssumption, NEW t \in Tabs, CloseTab(t)
  PROVE  SlotInvariant'
<1>1. /\ open' = open \ {t} /\ open' \subseteq Tabs
      /\ UNCHANGED <<dialog, writing, draft, drafts>>
  BY DEF CloseTab, SlotInvariant, SlotTypeOK
<1>2. CASE t = path
  <2>1. /\ \E kinds \in Shown : Cancel(kinds)
        /\ path' \in IF open' = {} THEN {NoTab} ELSE open'
        /\ page' = IF open' = {} THEN "projects" ELSE "repository"
    BY <1>2 DEF CloseTab
  <2>2. PICK kinds \in Shown : Cancel(kinds)
    BY <2>1
  <2>3. kinds \in SUBSET (Guarded \cup {"comparing"})
    BY DEF Shown, Warm, Guarded
  <2>4. /\ LabelIsOfTheTask'
        /\ busy' \in Kinds \cup {Free, "write"}
        /\ reading' \subseteq [kind : Kinds, path : Tabs]
    BY <1>1, <2>2, <2>3, DroppedIsSound DEF Cancel
  <2>5. path' \in Tabs \cup {NoTab} /\ (path' # NoTab => path' \in open') /\ page' \in Pages
    BY <1>1, <2>1 DEF Pages
  <2> QED
    BY <1>1, <2>4, <2>5 DEF SlotInvariant, SlotTypeOK
<1>3. CASE t # path
  <2>1. UNCHANGED <<path, page, busy, reading>>
    BY <1>3 DEF CloseTab
  <2> QED
    BY <1>1, <1>3, <2>1 DEF SlotInvariant, SlotTypeOK, LabelIsOfTheTask
<1> QED
  BY <1>2, <1>3

\* The pages.
LEMMA ShowSettingsStep ==
  ASSUME SlotInvariant, OperationSlotAssumption, ShowSettings
  PROVE  SlotInvariant'
<1>1. {"branch", "rebase", "discard"} \in SUBSET (Guarded \cup {"comparing"})
  BY DEF Guarded
<1>2. /\ LabelIsOfTheTask'
      /\ busy' \in Kinds \cup {Free, "write"}
      /\ reading' \subseteq [kind : Kinds, path : Tabs]
  BY <1>1, DroppedIsSound DEF ShowSettings, Cancel
<1> QED
  BY <1>2 DEF ShowSettings, SlotInvariant, SlotTypeOK, Pages

LEMMA ShowProjectsStep ==
  ASSUME SlotInvariant, OperationSlotAssumption, ShowProjects
  PROVE  SlotInvariant'
<1>1. {"branch", "rebase", "recovery", "discard"} \in SUBSET (Guarded \cup {"comparing"})
  BY DEF Guarded
<1>2. /\ LabelIsOfTheTask'
      /\ busy' \in Kinds \cup {Free, "write"}
      /\ reading' \subseteq [kind : Kinds, path : Tabs]
  BY <1>1, DroppedIsSound DEF ShowProjects, Cancel
<1> QED
  BY <1>2 DEF ShowProjects, SlotInvariant, SlotTypeOK, Pages

LEMMA ReturnStep ==
  ASSUME SlotInvariant, Return
  PROVE  SlotInvariant'
BY DEF Return, SlotInvariant, SlotTypeOK, LabelIsOfTheTask, Pages

LEMMA EditMessageStep ==
  ASSUME SlotInvariant, OperationSlotAssumption, EditMessage
  PROVE  SlotInvariant'
<1>1. drafts + 1 \in 0..MaxDrafts
  BY DEF EditMessage, SlotInvariant, SlotTypeOK, OperationSlotAssumption
<1>2. draft' \in [Tabs -> 0..MaxDrafts] /\ drafts' \in 0..MaxDrafts
  BY <1>1 DEF EditMessage, SlotInvariant, SlotTypeOK
<1> QED
  BY <1>2 DEF EditMessage, SlotInvariant, SlotTypeOK, LabelIsOfTheTask

\* Every step keeps the invariant.
LEMMA SlotStep ==
  ASSUME SlotInvariant, OperationSlotAssumption, SlotNext
  PROVE  SlotInvariant'
<1>1. CASE \E k \in Kinds : OpenForm(k) \/ Prepare(k)
  BY <1>1, OpenFormStep, PrepareStep
<1>2. CASE Replies
  BY <1>2, PreparedStep, WrittenStep, CreatedStep DEF Replies
<1>3. CASE \E operation \in {"commit", "other"} : Ask(operation)
  BY <1>3, AskStep
<1>4. CASE Confirm \/ Dismiss
  BY <1>4, ConfirmStep, DismissStep
<1>5. CASE \E t \in Tabs : SwitchTab(t) \/ OpenFolder(t) \/ CloseTab(t) \/ CreateProject(t)
  BY <1>5, SwitchTabStep, OpenFolderStep, CloseTabStep, CreateProjectStep
<1>6. CASE Reopen \/ ShowSettings \/ ShowProjects \/ Return
  BY <1>6, ReopenStep, ShowSettingsStep, ShowProjectsStep, ReturnStep
<1>7. CASE EditMessage
  BY <1>7, EditMessageStep
<1> QED
  BY <1>1, <1>2, <1>3, <1>4, <1>5, <1>6, <1>7 DEF SlotNext

(***************************************************************************)
(* The label of the window is that of the one task alive: a preparation    *)
(* and an operation, or two of either, never run at once, so that a reply  *)
(* that frees the label unseen frees its own (write, prepare_integration). *)
(***************************************************************************)
THEOREM OneTaskAtATime ==
  ASSUME OperationSlotAssumption
  PROVE  SlotSpec => []SlotInvariant
<1>1. SlotInit => SlotInvariant
  <2> SUFFICES ASSUME SlotInit PROVE SlotInvariant
    OBVIOUS
  <2>1. draft \in [Tabs -> 0..MaxDrafts] /\ drafts \in 0..MaxDrafts
    BY DEF SlotInit, OperationSlotAssumption
  <2> QED
    BY <2>1 DEF SlotInit, SlotInvariant, SlotTypeOK, LabelIsOfTheTask, NoDialog, Pages
<1>2. SlotInvariant /\ [SlotNext]_slotVars => SlotInvariant'
  BY SlotStep, SlotStuttering
<1> QED
  BY <1>1, <1>2, PTL DEF SlotSpec

-----------------------------------------------------------------------------
(* What a step may not do.                                                 *)

\* A task starts only in a free slot, where nothing is alive.
LEMMA StartsAlone ==
  ASSUME SlotInvariant, OperationSlotAssumption, SlotNext
  PROVE  TasksTakeTurns
<1> SUFFICES ASSUME reading' \ reading # {} \/ writing' \ writing # {}
             PROVE  busy = Free
  BY FreeIsIdle DEF TasksTakeTurns
<1> QED
  BY DEF SlotNext, Replies, OpenForm, Prepare, Prepared, Ask, Confirm, Dismiss, Write,
         Written, Created, SwitchTab, OpenFolder, CloseTab, CreateProject, Reopen,
         ShowSettings, ShowProjects, Return, EditMessage, Cancel, Leaves, Dropped

\* What is confirmed runs for the repository of its review.
LEMMA ConfirmedIsShown ==
  ASSUME SlotInvariant, SlotNext
  PROVE  RunsWhatIsShown
<1> SUFFICES ASSUME dialog.kind = "confirm", writing' # writing, writing' # {},
                    NEW w \in writing'
             PROVE  w.path = dialog.path
  BY DEF RunsWhatIsShown
<1>1. dialog # NoDialog
  BY DEF NoDialog
<1>2. Confirm
  BY <1>1 DEF SlotNext, Replies, OpenForm, Prepare, Prepared, Ask, Dismiss, Written, Created,
              SwitchTab, OpenFolder, CloseTab, CreateProject, Reopen, ShowSettings,
              ShowProjects, Return, EditMessage
<1>3. path = dialog.path /\ Write("other")
  BY <1>2 DEF Confirm
<1>4. writing' = Accepted("other", path)
  BY <1>3 DEF Write
<1> QED
  BY <1>3, <1>4 DEF Accepted

\* A review opens only with the reply of the preparation it shows.
LEMMA ReviewIsOfTheReply ==
  ASSUME SlotInvariant, SlotNext
  PROVE  ReviewsShown
<1> SUFFICES ASSUME dialog'.kind = "confirm", dialog' # dialog
             PROVE  /\ dialog'.path = path
                    /\ \E r \in reading \ reading' : r.path = dialog'.path
  BY DEF ReviewsShown
<1>1. \E r \in reading : Prepared(r)
  <2>1. dialog' # NoDialog
    BY DEF NoDialog
  <2>2. \A k \in Kinds : ~OpenForm(k)
    BY DEF OpenForm, Dialogs, Forms
  <2> QED
    BY <2>1, <2>2 DEF SlotNext, Replies, Prepare, Ask, Confirm, Dismiss, Written, Created,
              SwitchTab, OpenFolder, CloseTab, CreateProject, Reopen, ShowSettings,
              ShowProjects, Return, EditMessage
<1>2. PICK r \in reading : Prepared(r)
  BY <1>1
<1>3. StillShown(r) /\ dialog' = [kind |-> "confirm", path |-> path] /\ r \notin reading'
  BY <1>2 DEF Prepared
<1> QED
  BY <1>3 DEF StillShown

\* A message is emptied only by the end of the operation that committed it.
LEMMA ClearedIsCommitted ==
  ASSUME SlotInvariant, SlotNext
  PROVE  ClearsCommitted
<1> SUFFICES ASSUME NEW t \in Tabs, draft[t] # 0, draft'[t] = 0
             PROVE  \E w \in writing : w.path = t /\ w.message = draft[t]
  BY DEF ClearsCommitted
<1>1. ~EditMessage
  BY DEF EditMessage, SlotInvariant, SlotTypeOK
<1>2. Written
  BY <1>1 DEF SlotNext, Replies, OpenForm, Prepare, Prepared, Ask, Confirm, Write, Dismiss,
              Created, SwitchTab, OpenFolder, CloseTab, CreateProject, Reopen, ShowSettings,
              ShowProjects, Return
<1>3. PICK w \in writing : draft' = AfterCommit(w)
  BY <1>2 DEF Written
<1> QED
  BY <1>3 DEF AfterCommit, SlotInvariant, SlotTypeOK

(***************************************************************************)
(* An operation runs for the repository it was reviewed in, alone, and a   *)
(* commit clears the message it committed and no other: for any tabs,      *)
(* preparations and messages (confirm_git_write, write).                   *)
(***************************************************************************)
THEOREM OperationsAreReviewed ==
  ASSUME OperationSlotAssumption
  PROVE  SlotSpec => ReviewedIsShown
<1> DEFINE Step == /\ SlotTypeOK /\ LabelIsOfTheTask
                   /\ RunsWhatIsShown /\ ReviewsShown /\ ClearsCommitted
                   /\ TasksTakeTurns
<1>1. SlotInvariant /\ [SlotNext]_slotVars => [Step]_slotVars
  BY ConfirmedIsShown, ReviewIsOfTheReply, ClearedIsCommitted, StartsAlone
     DEF SlotInvariant
<1>2. SlotSpec => []SlotInvariant
  BY OneTaskAtATime
<1> QED
  BY <1>1, <1>2, PTL DEF SlotSpec, ReviewedIsShown

-----------------------------------------------------------------------------
(* The desktop's theme: what the queue of the reread loop tells.           *)

Requests == {"now", "settled", "lost"} \X Nat

Told(e, queue) == \E i \in DOMAIN queue : queue[i] = Lost(e)

LEMMA ToldInQueue ==
  \A e, queue : e \in LostEpochs(queue) <=> e \in 1..epoch /\ Told(e, queue)
BY DEF LostEpochs, Told

\* A request that is appended leaves those before it.
LEMMA AppendTells ==
  ASSUME NEW queue \in Seq(Requests), NEW request \in Requests
  PROVE  /\ Append(queue, request) \in Seq(Requests)
         /\ \A e : Told(e, queue) => Told(e, Append(queue, request))
BY AppendProperties, LenProperties DEF Told

\* A request that is taken is told by itself, the others by the rest.
LEMMA HeadTells ==
  ASSUME NEW queue \in Seq(Requests), queue # <<>>
  PROVE  /\ Tail(queue) \in Seq(Requests)
         /\ \A e : Told(e, queue) => Told(e, <<Head(queue)>>) \/ Told(e, Tail(queue))
<1>1. /\ Tail(queue) \in Seq(Requests)
      /\ Len(Tail(queue)) = Len(queue) - 1
      /\ \A i \in 1..Len(Tail(queue)) : Tail(queue)[i] = queue[i + 1]
  BY HeadTailProperties
<1>2. DOMAIN queue = 1..Len(queue) /\ Len(queue) \in Nat
  BY LenProperties
<1>3. DOMAIN Tail(queue) = 1..Len(Tail(queue))
  BY <1>1, LenProperties
<1>4. ASSUME NEW e, NEW i \in DOMAIN queue, queue[i] = Lost(e)
      PROVE  Told(e, <<Head(queue)>>) \/ Told(e, Tail(queue))
  <2>1. CASE i = 1
    <3>1. Head(queue) = queue[1]
      BY <2>1, <1>2
    <3>2. 1 \in DOMAIN <<Head(queue)>> /\ <<Head(queue)>>[1] = Lost(e)
      BY <2>1, <3>1, <1>4
    <3> QED
      BY <3>2 DEF Told
  <2>2. CASE i # 1
    <3>1. i - 1 \in 1..Len(Tail(queue)) /\ (i - 1) + 1 = i
      BY <2>2, <1>1, <1>2
    <3>2. Tail(queue)[i - 1] = Lost(e)
      BY <3>1, <1>1, <1>4
    <3> QED
      BY <3>1, <3>2, <1>3 DEF Told
  <2> QED
    BY <2>1, <2>2
<1> QED
  BY <1>1, <1>4 DEF Told

\* Every element of a finite set is in its sequence.
LEMMA SetToSeqIsOnto ==
  ASSUME NEW S, IsFiniteSet(S)
  PROVE  SetToSeq(S) \in Seq(S) /\ \A x \in S : \E i \in DOMAIN SetToSeq(S) : SetToSeq(S)[i] = x
<1> DEFINE n == Cardinality(S)
           f == SetToSeq(S)
<1>1. n \in Nat /\ ExistsBijection(1..n, S)
  BY FS_CardinalityType
<1>2. \E g \in [1..n -> S] : IsInjective(g)
  BY <1>1 DEF ExistsBijection, Bijection, Injection
<1>3. f \in [1..n -> S] /\ IsInjective(f)
  BY <1>2 DEF SetToSeq
<1>4. f \in Injection(1..n, S)
  BY <1>3 DEF Injection
<1>5. Cardinality(1..n) = n
  BY <1>1, FS_Interval
<1>6. f \in Surjection(1..n, S)
  BY <1>4, <1>5, FS_Injection
<1>7. f \in Seq(S)
  BY <1>1, <1>3, SeqDef
<1> QED
  BY <1>3, <1>6, <1>7 DEF Surjection

-----------------------------------------------------------------------------
(* The desktop's theme: the inductive invariant.                           *)

\* A watcher that was made for the watch that starts sees current/, or its
\* loss is being told; one that was not made sees nothing.
MadeSees ==
  (watch = "starting" /\ epoch \in DOMAIN starting /\ starting[epoch] = "made") =>
    epoch \in alive \/ epoch \in lost \cup LostEpochs(requests)

OnlyMadeSee == \A e \in DOMAIN starting : starting[e] # "made" => e \notin alive

\* A watch that is on holds the watcher of its epoch, whose reply was taken.
OnIsHeld == watch = "on" => held = epoch /\ epoch \notin DOMAIN starting

WatchSound ==
  /\ watch \in {"off", "starting", "on", "failed"}
  /\ epoch \in Nat /\ held \in 0..epoch
  /\ DOMAIN starting \subseteq 1..epoch
  /\ starting \in [DOMAIN starting -> {"asked", "made", "failed"}]
  /\ alive \subseteq DOMAIN starting \cup ({held} \ {0})
  /\ requests \in Seq(Requests)
  /\ lost \subseteq 1..epoch
  /\ HeldSees /\ OnlyOneIsHeld
  /\ MadeSees /\ OnlyMadeSee /\ OnIsHeld

RestSound ==
  /\ theme \in Good \cup {Broken, Missing}
  /\ present \in BOOLEAN /\ following \in BOOLEAN /\ showing \in BOOLEAN
  /\ generation \in Nat
  /\ stage \in {"idle", "settling", "begun", "read"}
  /\ stage # "settling" => lost = {}
  /\ shown \in [available : BOOLEAN, palette : Good \cup {NoPalette}]

FollowerInvariant == WatchSound /\ RestSound /\ WatchedAsWanted

LEMMA InvariantIsReal ==
  ASSUME FollowerInvariant
  PROVE  WatchIsReal
BY DEF FollowerInvariant, WatchSound, RestSound, WatchIsReal, FollowerTypeOK, Requests

\* Requests that are appended, and losses that are joined, keep a sound watch.
LEMMA SameWatch ==
  ASSUME WatchSound, UNCHANGED <<watchVars, alive>>,
         requests' \in Seq(Requests), lost' \subseteq 1..epoch,
         \A e \in 1..epoch : e \in lost \/ Told(e, requests) =>
                              e \in lost' \/ Told(e, requests')
  PROVE  WatchSound'
<1>1. UNCHANGED <<watch, epoch, starting, held, alive>>
  BY DEF watchVars
<1>2. lost \cup LostEpochs(requests) \subseteq lost' \cup LostEpochs(requests)'
  BY <1>1 DEF WatchSound, LostEpochs, Told
<1> QED
  BY <1>1, <1>2 DEF WatchSound, HeldSees, OnlyOneIsHeld, MadeSees, OnlyMadeSee, OnIsHeld

\* A watch that starts: nothing is held and its watcher is only asked for.
LEMMA StartWatchStep ==
  ASSUME WatchSound, NEW next \in Nat, next > epoch, StartWatch(next),
         requests' \in Seq(Requests), UNCHANGED lost
  PROVE  WatchSound'
<1>1. /\ watch' = "starting" /\ epoch' = next /\ held' = 0 /\ alive' = alive \ {held}
      /\ starting' = [e \in DOMAIN starting \cup {next} |->
                        IF e = next THEN "asked" ELSE starting[e]]
  BY DEF StartWatch
<1>2. /\ DOMAIN starting' = DOMAIN starting \cup {next}
      /\ starting'[next] = "asked"
      /\ \A e \in DOMAIN starting : starting'[e] = starting[e]
  BY <1>1 DEF WatchSound
<1>3. /\ 1..epoch \subseteq 1..next /\ next \in 1..next /\ next \notin 1..epoch
      /\ 0 \in 0..next
  BY DEF WatchSound
<1>4. next \notin alive
  BY <1>3 DEF WatchSound
<1>5. /\ DOMAIN starting' \subseteq 1..next
      /\ starting' \in [DOMAIN starting' -> {"asked", "made", "failed"}]
  BY <1>1, <1>2, <1>3 DEF WatchSound
<1>6. alive' \subseteq DOMAIN starting'
  BY <1>1, <1>2 DEF WatchSound
<1>7. HeldSees' /\ OnlyOneIsHeld' /\ OnIsHeld'
  BY <1>1 DEF HeldSees, OnlyOneIsHeld, OnIsHeld
<1>8. MadeSees'
  BY <1>1, <1>2 DEF MadeSees
<1>9. OnlyMadeSee'
  BY <1>1, <1>2, <1>4 DEF OnlyMadeSee, WatchSound
<1> QED
  BY <1>1, <1>3, <1>5, <1>6, <1>7, <1>8, <1>9 DEF WatchSound

\* A watch that stops: nothing is held.
LEMMA StopWatchStep ==
  ASSUME WatchSound, StopWatch, requests' \in Seq(Requests), UNCHANGED lost
  PROVE  WatchSound'
<1>1. /\ watch' = "off" /\ epoch' = epoch + 1 /\ held' = 0 /\ alive' = alive \ {held}
      /\ UNCHANGED starting
  BY DEF StopWatch
<1>2. 1..epoch \subseteq 1..epoch' /\ epoch' \in Nat /\ 0 \in 0..epoch'
  BY <1>1 DEF WatchSound
<1>3. HeldSees' /\ OnlyOneIsHeld' /\ OnIsHeld' /\ MadeSees'
  BY <1>1 DEF HeldSees, OnlyOneIsHeld, OnIsHeld, MadeSees
<1>4. OnlyMadeSee'
  BY <1>1 DEF OnlyMadeSee, WatchSound
<1> QED
  BY <1>1, <1>2, <1>3, <1>4 DEF WatchSound

\* sync_watch: whatever is wanted, the watch is sound and there exactly when
\* it is wanted.
LEMMA SyncWatchStep ==
  ASSUME WatchSound, UNCHANGED lost,
         NEW follows \in BOOLEAN, NEW shows \in BOOLEAN, NEW offered \in BOOLEAN,
         NEW queue \in Seq(Requests), \A e : Told(e, requests) => Told(e, queue),
         SyncWatch(follows, shows, offered, queue)
  PROVE  /\ WatchSound'
         /\ (watch' # "off") <=> Wanted(follows, shows, watch', offered)
<1> DEFINE wanted == Wanted(follows, shows, watch, offered)
<1>1. CASE wanted = (watch # "off")
  <2>1. requests' = queue /\ UNCHANGED <<watchVars, alive>>
    BY <1>1 DEF SyncWatch
  <2>2. UNCHANGED watch
    BY <2>1 DEF watchVars
  <2>3. lost \subseteq 1..epoch
    BY DEF WatchSound
  <2>4. WatchSound'
    BY <2>1, <2>3, SameWatch
  <2> QED
    BY <1>1, <2>2, <2>4
<1>2. CASE wanted # (watch # "off") /\ wanted
  <2>1. requests' = Append(queue, Now) /\ StartWatch(epoch + 2)
    BY <1>2 DEF SyncWatch
  <2>2. Append(queue, Now) \in Seq(Requests)
    BY AppendTells DEF Now, Requests
  <2>3. epoch + 2 \in Nat /\ epoch + 2 > epoch
    BY DEF WatchSound
  <2>4. WatchSound'
    BY <2>1, <2>2, <2>3, StartWatchStep
  <2>5. watch' = "starting"
    BY <2>1 DEF StartWatch
  <2> QED
    BY <1>2, <2>4, <2>5 DEF Wanted
<1>3. CASE wanted # (watch # "off") /\ ~wanted
  <2>1. requests' = queue /\ StopWatch
    BY <1>3 DEF SyncWatch
  <2>2. WatchSound'
    BY <2>1, StopWatchStep
  <2>3. watch' = "off"
    BY <2>1 DEF StopWatch
  <2> QED
    BY <1>3, <2>2, <2>3 DEF Wanted
<1> QED
  BY <1>1, <1>2, <1>3

-----------------------------------------------------------------------------
(* The desktop's theme: one lemma per action.                              *)

\* The user.
LEMMA FollowStep ==
  ASSUME FollowerInvariant, NEW selected \in BOOLEAN, Follow(selected)
  PROVE  FollowerInvariant'
<1>1. /\ following' = selected
      /\ SyncWatch(selected, showing, shown.available, requests)
      /\ UNCHANGED <<theme, present, showing, stage, lost, found, generation, shown>>
  BY DEF Follow, desktopVars, loopVars
<1>2. requests \in Seq(Requests) /\ shown.available \in BOOLEAN /\ showing \in BOOLEAN
  BY DEF FollowerInvariant, WatchSound, RestSound
<1>3. WatchSound' /\ ((watch' # "off") <=> Wanted(selected, showing, watch', shown.available))
  BY <1>1, <1>2, SyncWatchStep DEF FollowerInvariant
<1> QED
  BY <1>1, <1>3 DEF FollowerInvariant, RestSound, WatchedAsWanted

LEMMA ShowStep ==
  ASSUME FollowerInvariant, NEW on \in BOOLEAN, Show(on)
  PROVE  FollowerInvariant'
<1>1. /\ showing' = on
      /\ SyncWatch(following, on, shown.available, requests)
      /\ UNCHANGED <<theme, present, following, stage, lost, found, generation, shown>>
  BY DEF Show, desktopVars, loopVars
<1>2. requests \in Seq(Requests) /\ shown.available \in BOOLEAN /\ following \in BOOLEAN
  BY DEF FollowerInvariant, WatchSound, RestSound
<1>3. WatchSound' /\ ((watch' # "off") <=> Wanted(following, on, watch', shown.available))
  BY <1>1, <1>2, SyncWatchStep DEF FollowerInvariant
<1> QED
  BY <1>1, <1>3 DEF FollowerInvariant, RestSound, WatchedAsWanted

LEMMA ChooseStep ==
  ASSUME FollowerInvariant, Choose
  PROVE  FollowerInvariant'
<1>1. /\ following' = TRUE
      /\ SyncWatch(TRUE, showing, shown.available, Append(requests, Now))
      /\ UNCHANGED <<theme, present, showing, stage, lost, found, generation, shown>>
  BY DEF Choose, desktopVars, loopVars
<1>2. requests \in Seq(Requests) /\ shown.available \in BOOLEAN /\ showing \in BOOLEAN
  BY DEF FollowerInvariant, WatchSound, RestSound
<1>3. /\ Append(requests, Now) \in Seq(Requests)
      /\ \A e : Told(e, requests) => Told(e, Append(requests, Now))
  BY <1>2, AppendTells DEF Now, Requests
<1>4. WatchSound' /\ ((watch' # "off") <=> Wanted(TRUE, showing, watch', shown.available))
  BY <1>1, <1>2, <1>3, SyncWatchStep DEF FollowerInvariant
<1> QED
  BY <1>1, <1>4 DEF FollowerInvariant, RestSound, WatchedAsWanted

LEMMA RefreshStep ==
  ASSUME FollowerInvariant, Refresh
  PROVE  FollowerInvariant'
<1>1. /\ requests' = Append(requests, Now)
      /\ UNCHANGED <<theme, present, following, showing, stage, lost, found, generation, shown>>
  BY DEF Refresh, desktopVars, loopVars
<1>2. requests \in Seq(Requests) /\ epoch \in Nat /\ lost \subseteq 1..epoch
  BY DEF FollowerInvariant, WatchSound
<1>3. /\ requests' \in Seq(Requests)
      /\ \A e : Told(e, requests) => Told(e, requests')
  BY <1>1, <1>2, AppendTells DEF Now, Requests
<1>4. RestSound'
  BY <1>1 DEF FollowerInvariant, RestSound
<1>5. CASE watch = "failed"
  <2>1. StartWatch(epoch + 1)
    BY <1>5 DEF Refresh
  <2>2. epoch + 1 \in Nat /\ epoch + 1 > epoch
    BY <1>2
  <2>3. WatchSound'
    BY <1>1, <1>3, <2>1, <2>2, StartWatchStep DEF FollowerInvariant
  <2>4. watch' = "starting"
    BY <2>1 DEF StartWatch
  <2> QED
    BY <1>1, <1>4, <1>5, <2>3, <2>4 DEF FollowerInvariant, WatchedAsWanted, Wanted
<1>6. CASE watch # "failed"
  <2>1. UNCHANGED <<watchVars, alive>>
    BY <1>6 DEF Refresh
  <2>2. WatchSound'
    BY <1>1, <1>2, <1>3, <2>1, SameWatch DEF FollowerInvariant
  <2>3. UNCHANGED watch
    BY <2>1 DEF watchVars
  <2> QED
    BY <1>1, <1>4, <2>2, <2>3 DEF FollowerInvariant, WatchedAsWanted
<1> QED
  BY <1>5, <1>6

\* A watcher is made, or fails.
LEMMA MakeWatcherStep ==
  ASSUME FollowerInvariant, NEW e \in DOMAIN starting, MakeWatcher(e)
  PROVE  FollowerInvariant'
<1>1. /\ starting[e] = "asked"
      /\ starting' = [starting EXCEPT ![e] = IF present THEN "made" ELSE "failed"]
      /\ alive' = IF present THEN alive \cup {e} ELSE alive
      /\ UNCHANGED <<theme, present, following, showing, watch, epoch, held, requests,
                     stage, lost, found, generation, shown>>
  BY DEF MakeWatcher, desktopVars, userVars, loopVars
<1>2. /\ DOMAIN starting' = DOMAIN starting
      /\ starting'[e] = IF present THEN "made" ELSE "failed"
      /\ \A i \in DOMAIN starting : i # e => starting'[i] = starting[i]
      /\ starting' \in [DOMAIN starting' -> {"asked", "made", "failed"}]
  BY <1>1 DEF FollowerInvariant, WatchSound
<1>3. RestSound'
  BY <1>1 DEF FollowerInvariant, RestSound
<1>4. WatchedAsWanted'
  BY <1>1 DEF FollowerInvariant, WatchedAsWanted
<1>5. alive \subseteq alive' /\ alive' \subseteq alive \cup {e}
  BY <1>1
<1>6. alive' \subseteq DOMAIN starting' \cup ({held'} \ {0})
  BY <1>1, <1>2, <1>5 DEF FollowerInvariant, WatchSound
<1>7. LostEpochs(requests)' = LostEpochs(requests)
  BY <1>1 DEF LostEpochs
<1>8. HeldSees' /\ OnlyOneIsHeld' /\ OnIsHeld'
  BY <1>1, <1>2, <1>5, <1>7
     DEF FollowerInvariant, WatchSound, HeldSees, OnlyOneIsHeld, OnIsHeld
<1>9. MadeSees'
  <2> SUFFICES ASSUME watch' = "starting", epoch' \in DOMAIN starting',
                      starting'[epoch'] = "made"
               PROVE  epoch' \in alive' \/ epoch' \in lost' \cup LostEpochs(requests)'
    BY DEF MadeSees
  <2>1. CASE epoch = e
    BY <2>1, <1>1, <1>2
  <2>2. CASE epoch # e
    BY <2>2, <1>1, <1>2, <1>5, <1>7 DEF FollowerInvariant, WatchSound, MadeSees
  <2> QED
    BY <2>1, <2>2
<1>10. OnlyMadeSee'
  <2> SUFFICES ASSUME NEW i \in DOMAIN starting', starting'[i] # "made"
               PROVE  i \notin alive'
    BY DEF OnlyMadeSee
  <2>1. i \notin alive
    BY <1>1, <1>2 DEF FollowerInvariant, WatchSound, OnlyMadeSee
  <2>2. i = e => ~present
    BY <1>2
  <2> QED
    BY <2>1, <2>2, <1>1
<1>11. WatchSound'
  BY <1>1, <1>2, <1>6, <1>8, <1>9, <1>10 DEF FollowerInvariant, WatchSound
<1> QED
  BY <1>3, <1>4, <1>11 DEF FollowerInvariant

\* The maker's reply is taken: for the watch that starts, or dropped.
LEMMA TakeWatcherStep ==
  ASSUME FollowerInvariant, NEW e \in DOMAIN starting, TakeWatcher(e)
  PROVE  FollowerInvariant'
<1>1. /\ starting[e] # "asked"
      /\ starting' = [i \in DOMAIN starting \ {e} |-> starting[i]]
      /\ UNCHANGED <<theme, present, following, showing, epoch, requests,
                     stage, lost, found, generation, shown>>
  BY DEF TakeWatcher, Forget, desktopVars, userVars, loopVars
<1>2. /\ DOMAIN starting' = DOMAIN starting \ {e}
      /\ \A i \in DOMAIN starting' : starting'[i] = starting[i]
      /\ starting' \in [DOMAIN starting' -> {"asked", "made", "failed"}]
  BY <1>1 DEF FollowerInvariant, WatchSound
<1>3. RestSound'
  BY <1>1 DEF FollowerInvariant, RestSound
<1>4. LostEpochs(requests)' = LostEpochs(requests)
  BY <1>1 DEF LostEpochs
<1>5. e \in 1..epoch /\ e \in 0..epoch /\ e # 0
  BY DEF FollowerInvariant, WatchSound
<1>6. CASE e = epoch /\ watch = "starting" /\ starting[e] = "made"
  <2>1. watch' = "on" /\ held' = e /\ UNCHANGED alive
    BY <1>6 DEF TakeWatcher
  <2>2. held = 0
    BY <1>6 DEF FollowerInvariant, WatchSound, OnlyOneIsHeld
  <2>3. alive' \subseteq DOMAIN starting' \cup ({held'} \ {0})
    BY <1>2, <1>5, <2>1, <2>2 DEF FollowerInvariant, WatchSound
  <2>4. HeldSees'
    BY <1>1, <1>4, <1>6, <2>1 DEF FollowerInvariant, WatchSound, HeldSees, MadeSees
  <2>5. OnlyOneIsHeld' /\ OnIsHeld' /\ MadeSees'
    BY <1>1, <1>2, <1>6, <2>1 DEF OnlyOneIsHeld, OnIsHeld, MadeSees
  <2>6. OnlyMadeSee'
    BY <1>2, <2>1 DEF FollowerInvariant, WatchSound, OnlyMadeSee
  <2>7. WatchSound'
    BY <1>1, <1>2, <1>5, <2>1, <2>3, <2>4, <2>5, <2>6 DEF FollowerInvariant, WatchSound
  <2> QED
    BY <1>1, <1>3, <1>6, <2>1, <2>7 DEF FollowerInvariant, WatchedAsWanted, Wanted
<1>7. CASE e = epoch /\ watch = "starting" /\ starting[e] # "made"
  <2>1. watch' = "failed" /\ UNCHANGED <<held, alive>>
    BY <1>7 DEF TakeWatcher
  <2>2. held = 0 /\ e \notin alive
    BY <1>7 DEF FollowerInvariant, WatchSound, OnlyOneIsHeld, OnlyMadeSee
  <2>3. alive' \subseteq DOMAIN starting' \cup ({held'} \ {0})
    BY <1>2, <2>1, <2>2 DEF FollowerInvariant, WatchSound
  <2>4. HeldSees' /\ OnlyOneIsHeld' /\ OnIsHeld' /\ MadeSees'
    BY <2>1, <2>2 DEF HeldSees, OnlyOneIsHeld, OnIsHeld, MadeSees
  <2>5. OnlyMadeSee'
    BY <1>2, <2>1 DEF FollowerInvariant, WatchSound, OnlyMadeSee
  <2>6. WatchSound'
    BY <1>1, <1>2, <2>1, <2>3, <2>4, <2>5 DEF FollowerInvariant, WatchSound
  <2> QED
    BY <1>1, <1>3, <1>7, <2>1, <2>6 DEF FollowerInvariant, WatchedAsWanted, Wanted
<1>8. CASE ~(e = epoch /\ watch = "starting")
  <2>1. alive' = alive \ {e} /\ UNCHANGED <<watch, held>>
    BY <1>8 DEF TakeWatcher
  <2>2. alive' \subseteq DOMAIN starting' \cup ({held'} \ {0})
    BY <1>2, <2>1 DEF FollowerInvariant, WatchSound
  <2>3. HeldSees'
    <3> SUFFICES ASSUME watch = "on"
                 PROVE  held \in alive' \/ epoch \in lost \cup LostEpochs(requests)
      BY <1>1, <1>4, <2>1 DEF HeldSees
    <3>1. held = epoch /\ e # epoch
      BY DEF FollowerInvariant, WatchSound, OnIsHeld
    <3> QED
      BY <3>1, <2>1 DEF FollowerInvariant, WatchSound, HeldSees
  <2>4. OnlyOneIsHeld' /\ OnIsHeld'
    BY <1>1, <1>2, <2>1 DEF FollowerInvariant, WatchSound, OnlyOneIsHeld, OnIsHeld
  <2>5. MadeSees'
    BY <1>1, <1>2, <1>4, <1>8, <2>1 DEF FollowerInvariant, WatchSound, MadeSees
  <2>6. OnlyMadeSee'
    BY <1>2, <2>1 DEF FollowerInvariant, WatchSound, OnlyMadeSee
  <2>7. WatchSound'
    BY <1>1, <1>2, <2>1, <2>2, <2>3, <2>4, <2>5, <2>6 DEF FollowerInvariant, WatchSound
  <2> QED
    BY <1>1, <1>3, <2>1, <2>7 DEF FollowerInvariant, WatchedAsWanted
<1> QED
  BY <1>6, <1>7, <1>8

\* What is wanted depends on the watch, the page and what is offered.
LEMMA SameWanted ==
  ASSUME FollowerInvariant, UNCHANGED <<following, showing, watch, shown>>
  PROVE  WatchedAsWanted'
BY DEF FollowerInvariant, WatchedAsWanted

\* The desktop: a write is reported by the watchers that see it.
LEMMA WriteThemeStep ==
  ASSUME FollowerInvariant, NEW to \in Good \cup {Broken, Missing}, WriteTheme(to)
  PROVE  FollowerInvariant'
<1>1. /\ theme' = to
      /\ requests' = IF alive = {} THEN requests ELSE Append(requests, Settled)
      /\ UNCHANGED <<present, following, showing, watchVars, alive, stage, lost, generation, shown>>
  BY DEF WriteTheme, userVars, loopVars
<1>2. /\ Append(requests, Settled) \in Seq(Requests)
      /\ \A e : Told(e, requests) => Told(e, Append(requests, Settled))
  BY AppendTells DEF FollowerInvariant, WatchSound, Settled, Requests
<1>3. WatchSound'
  BY <1>1, <1>2, SameWatch DEF FollowerInvariant, WatchSound
<1>4. RestSound'
  BY <1>1 DEF FollowerInvariant, RestSound
<1>5. WatchedAsWanted'
  BY <1>1, SameWanted DEF watchVars
<1> QED
  BY <1>3, <1>4, <1>5 DEF FollowerInvariant

\* When current/ moves away every watcher that saw it says so.
LEMMA MoveAwayStep ==
  ASSUME FollowerInvariant, MoveAway
  PROVE  FollowerInvariant'
<1> DEFINE news == {Lost(e) : e \in alive}
           order == SetToSeq(news)
<1>1. /\ present' = FALSE /\ theme' = Missing /\ alive' = {}
      /\ requests' = requests \o order
      /\ UNCHANGED <<following, showing, watch, epoch, starting, held, stage, lost, generation,
                     shown>>
  BY DEF MoveAway, userVars, watchVars, loopVars
<1>2. alive \subseteq 1..epoch /\ epoch \in Nat
  BY DEF FollowerInvariant, WatchSound
<1>3. IsFiniteSet(news)
  <2>1. IsFiniteSet(1..epoch)
    BY <1>2, FS_Interval
  <2>2. IsFiniteSet(alive)
    BY <1>2, <2>1, FS_Subset
  <2> DEFINE tell == [e \in alive |-> Lost(e)]
  <2>3. tell \in Surjection(alive, news)
    BY DEF Surjection
  <2> QED
    BY <2>2, <2>3, FS_Surjection
<1>4. news \subseteq Requests
  BY <1>2 DEF Lost, Requests
<1>5. order \in Seq(Requests) /\ \A x \in news : \E i \in DOMAIN order : order[i] = x
  BY <1>3, <1>4, SetToSeqIsOnto, SeqMonotonic
<1> HIDE DEF order
<1>6. requests \in Seq(Requests)
  BY DEF FollowerInvariant, WatchSound
<1>7. /\ requests' \in Seq(Requests)
      /\ Len(requests') = Len(requests) + Len(order)
      /\ \A i \in 1..Len(requests) + Len(order) :
           requests'[i] = IF i <= Len(requests) THEN requests[i] ELSE order[i - Len(requests)]
  BY <1>1, <1>5, <1>6, ConcatProperties
<1>8. /\ DOMAIN requests' = 1..Len(requests) + Len(order)
      /\ DOMAIN requests = 1..Len(requests) /\ Len(requests) \in Nat
      /\ DOMAIN order = 1..Len(order) /\ Len(order) \in Nat
  BY <1>5, <1>6, <1>7, LenProperties
<1>9. \A e : Told(e, requests) => Told(e, requests')
  <2> SUFFICES ASSUME NEW e, NEW i \in DOMAIN requests, requests[i] = Lost(e)
               PROVE  Told(e, requests')
    BY DEF Told
  <2>1. i \in DOMAIN requests' /\ requests'[i] = requests[i]
    BY <1>7, <1>8
  <2> QED
    BY <2>1 DEF Told
<1>10. \A e \in alive : Told(e, requests')
  <2> SUFFICES ASSUME NEW e \in alive
               PROVE  Told(e, requests')
    OBVIOUS
  <2>1. PICK i \in DOMAIN order : order[i] = Lost(e)
    BY <1>5
  <2>2. /\ Len(requests) + i \in 1..Len(requests) + Len(order)
        /\ ~(Len(requests) + i <= Len(requests)) /\ (Len(requests) + i) - Len(requests) = i
    BY <1>8
  <2>3. requests'[Len(requests) + i] = Lost(e)
    BY <1>7, <2>1, <2>2
  <2> QED
    BY <1>8, <2>2, <2>3 DEF Told
<1>11. alive \cup LostEpochs(requests) \subseteq LostEpochs(requests)'
  BY <1>1, <1>2, <1>9, <1>10 DEF LostEpochs, Told
<1>12. HeldSees' /\ MadeSees'
  BY <1>1, <1>11 DEF FollowerInvariant, WatchSound, HeldSees, MadeSees, OnIsHeld
<1>13. OnlyOneIsHeld' /\ OnlyMadeSee' /\ OnIsHeld'
  BY <1>1 DEF FollowerInvariant, WatchSound, OnlyOneIsHeld, OnlyMadeSee, OnIsHeld
<1>14. WatchSound'
  BY <1>1, <1>7, <1>12, <1>13 DEF FollowerInvariant, WatchSound
<1>15. RestSound'
  BY <1>1 DEF FollowerInvariant, RestSound
<1> QED
  BY <1>1, <1>14, <1>15, SameWanted DEF FollowerInvariant

LEMMA MoveBackStep ==
  ASSUME FollowerInvariant, MoveBack
  PROVE  FollowerInvariant'
<1>1. /\ present' = TRUE /\ theme' \in Good
      /\ UNCHANGED <<following, showing, watchVars, alive, requests, stage, lost, generation, shown>>
  BY DEF MoveBack, userVars, loopVars
<1>2. WatchSound'
  BY <1>1, SameWatch DEF FollowerInvariant, WatchSound
<1>3. RestSound'
  BY <1>1 DEF FollowerInvariant, RestSound
<1>4. WatchedAsWanted'
  BY <1>1, SameWanted DEF watchVars
<1> QED
  BY <1>2, <1>3, <1>4 DEF FollowerInvariant

\* The reread loop: what the queue tells is told to the watch or kept in lost.
LEMMA BeginRereadStep ==
  ASSUME FollowerInvariant, BeginReread
  PROVE  FollowerInvariant'
<1>1. /\ Losing(lost \cup LostEpochs(requests))
      /\ lost' = {} /\ requests' = <<>> /\ stage' = "begun" /\ generation' = generation + 1
      /\ UNCHANGED <<theme, present, following, showing, epoch, starting, shown>>
  BY DEF BeginReread, desktopVars, userVars
<1>2. RestSound'
  BY <1>1 DEF FollowerInvariant, RestSound
<1>3. <<>> \in Seq(Requests)
  BY EmptySeq
<1>4. CASE epoch \in lost \cup LostEpochs(requests) /\ watch # "off"
  <2>1. watch' = "failed" /\ held' = 0 /\ alive' = alive \ {held}
    BY <1>1, <1>4 DEF Losing
  <2>2. HeldSees' /\ OnlyOneIsHeld' /\ OnIsHeld' /\ MadeSees'
    BY <2>1 DEF HeldSees, OnlyOneIsHeld, OnIsHeld, MadeSees
  <2>3. OnlyMadeSee'
    BY <1>1, <2>1 DEF FollowerInvariant, WatchSound, OnlyMadeSee
  <2>4. alive' \subseteq DOMAIN starting'
    BY <1>1, <2>1 DEF FollowerInvariant, WatchSound
  <2>5. WatchSound'
    BY <1>1, <1>3, <2>1, <2>2, <2>3, <2>4 DEF FollowerInvariant, WatchSound
  <2> QED
    BY <1>1, <1>2, <1>4, <2>1, <2>5 DEF FollowerInvariant, WatchedAsWanted, Wanted
<1>5. CASE ~(epoch \in lost \cup LostEpochs(requests) /\ watch # "off")
  <2>1. UNCHANGED <<watch, held, alive>>
    BY <1>1, <1>5 DEF Losing
  <2>2. HeldSees' /\ MadeSees'
    BY <1>1, <1>5, <2>1 DEF FollowerInvariant, WatchSound, HeldSees, MadeSees
  <2>3. OnlyOneIsHeld' /\ OnIsHeld' /\ OnlyMadeSee'
    BY <1>1, <2>1 DEF FollowerInvariant, WatchSound, OnlyOneIsHeld, OnIsHeld, OnlyMadeSee
  <2>4. WatchSound'
    BY <1>1, <1>3, <2>1, <2>2, <2>3 DEF FollowerInvariant, WatchSound
  <2> QED
    BY <1>1, <1>2, <2>1, <2>4, SameWanted DEF FollowerInvariant
<1> QED
  BY <1>4, <1>5

\* A request that is taken is kept in lost if it tells of a loss.
LEMMA TakenIsKept ==
  ASSUME FollowerInvariant, requests # <<>>, requests' = Tail(requests),
         lost' = lost \cup LostEpochs(<<Head(requests)>>),
         UNCHANGED <<watchVars, alive>>
  PROVE  WatchSound'
<1>1. /\ requests' \in Seq(Requests)
      /\ \A e : Told(e, requests) => Told(e, <<Head(requests)>>) \/ Told(e, requests')
  BY HeadTells DEF FollowerInvariant, WatchSound
<1>2. lost' \subseteq 1..epoch
  BY DEF FollowerInvariant, WatchSound, LostEpochs
<1>3. \A e \in 1..epoch : e \in lost \/ Told(e, requests) => e \in lost' \/ Told(e, requests')
  BY <1>1, ToldInQueue
<1> QED
  BY <1>1, <1>2, <1>3, SameWatch DEF FollowerInvariant

LEMMA BeginSettlingStep ==
  ASSUME FollowerInvariant, BeginSettling
  PROVE  FollowerInvariant'
<1>1. /\ stage = "idle" /\ requests # <<>> /\ stage' = "settling"
      /\ lost' = LostEpochs(<<Head(requests)>>) /\ requests' = Tail(requests)
      /\ UNCHANGED <<theme, present, following, showing, watchVars, alive, generation, shown>>
  BY DEF BeginSettling, desktopVars, userVars
<1>2. lost = {}
  BY <1>1 DEF FollowerInvariant, RestSound
<1>3. lost' = lost \cup LostEpochs(<<Head(requests)>>)
  BY <1>1, <1>2
<1>4. WatchSound'
  BY <1>1, <1>3, TakenIsKept
<1>5. RestSound'
  BY <1>1 DEF FollowerInvariant, RestSound
<1>6. WatchedAsWanted'
  BY <1>1, SameWanted DEF watchVars
<1> QED
  BY <1>4, <1>5, <1>6 DEF FollowerInvariant

LEMMA JoinSettlingStep ==
  ASSUME FollowerInvariant, JoinSettling
  PROVE  FollowerInvariant'
<1>1. /\ stage = "settling" /\ requests # <<>>
      /\ lost' = lost \cup LostEpochs(<<Head(requests)>>) /\ requests' = Tail(requests)
      /\ UNCHANGED <<theme, present, following, showing, watchVars, alive, stage, generation, shown>>
  BY DEF JoinSettling, desktopVars, userVars
<1>2. WatchSound'
  BY <1>1, TakenIsKept
<1>3. RestSound'
  BY <1>1 DEF FollowerInvariant, RestSound
<1>4. WatchedAsWanted'
  BY <1>1, SameWanted DEF watchVars
<1> QED
  BY <1>2, <1>3, <1>4 DEF FollowerInvariant

LEMMA ReadThemeStep ==
  ASSUME FollowerInvariant, ReadTheme
  PROVE  FollowerInvariant'
<1>1. /\ stage = "begun" /\ stage' = "read"
      /\ UNCHANGED <<theme, present, following, showing, watchVars, alive, requests, lost,
                     generation, shown>>
  BY DEF ReadTheme, desktopVars, userVars
<1>2. WatchSound'
  BY <1>1, SameWatch DEF FollowerInvariant, WatchSound
<1>3. RestSound'
  BY <1>1 DEF FollowerInvariant, RestSound
<1>4. WatchedAsWanted'
  BY <1>1, SameWanted DEF watchVars
<1> QED
  BY <1>2, <1>3, <1>4 DEF FollowerInvariant

\* What was read may end or start what Settings alone wants.
LEMMA FinishStep ==
  ASSUME FollowerInvariant, Finish
  PROVE  FollowerInvariant'
<1>1. /\ stage = "read" /\ stage' = "idle" /\ shown' = After(found.theme)
      /\ SyncWatch(following, showing, found.theme # Missing, requests)
      /\ UNCHANGED <<theme, present, following, showing, lost, generation>>
  BY DEF Finish, desktopVars, userVars
<1>2. /\ shown'.available = (found.theme # Missing)
      /\ shown' \in [available : BOOLEAN, palette : Good \cup {NoPalette}]
  BY <1>1 DEF After, FollowerInvariant, RestSound
<1>3. /\ requests \in Seq(Requests) /\ following \in BOOLEAN /\ showing \in BOOLEAN
      /\ (found.theme # Missing) \in BOOLEAN
  BY DEF FollowerInvariant, WatchSound, RestSound
<1>4. /\ WatchSound'
      /\ (watch' # "off") <=> Wanted(following, showing, watch', found.theme # Missing)
  BY <1>1, <1>3, SyncWatchStep DEF FollowerInvariant
<1>5. RestSound'
  BY <1>1, <1>2 DEF FollowerInvariant, RestSound
<1> QED
  BY <1>1, <1>2, <1>4, <1>5 DEF FollowerInvariant, WatchedAsWanted

LEMMA FollowerStep ==
  ASSUME FollowerInvariant, FollowerNext
  PROVE  FollowerInvariant'
<1>1. CASE Desktop
  BY <1>1, WriteThemeStep, MoveAwayStep, MoveBackStep DEF Desktop
<1>2. CASE User
  BY <1>2, FollowStep, ShowStep, ChooseStep, RefreshStep DEF User
<1>3. CASE Watcher
  BY <1>3, MakeWatcherStep, TakeWatcherStep DEF Watcher
<1>4. CASE Loop
  BY <1>4, BeginRereadStep, BeginSettlingStep, JoinSettlingStep, ReadThemeStep, FinishStep
     DEF Loop
<1> QED
  BY <1>1, <1>2, <1>3, <1>4 DEF FollowerNext

LEMMA FollowerStuttering ==
  ASSUME FollowerInvariant, UNCHANGED followerVars
  PROVE  FollowerInvariant'
<1>1. UNCHANGED <<theme, present, following, showing, watchVars, watch, alive, requests,
                  stage, lost, generation, shown>>
  BY DEF followerVars, desktopVars, userVars, watchVars, loopVars
<1>2. WatchSound'
  BY <1>1, SameWatch DEF FollowerInvariant, WatchSound
<1>3. RestSound'
  BY <1>1 DEF FollowerInvariant, RestSound
<1> QED
  BY <1>1, <1>2, <1>3, SameWanted DEF FollowerInvariant

LEMMA FollowerStart ==
  ASSUME FollowerInit
  PROVE  FollowerInvariant
<1>1. requests \in Seq(Requests)
  <2>1. Now \in Requests
    BY DEF Now, Requests
  <2>2. <<Now>> \in Seq(Requests) /\ <<Now, Now>> \in Seq(Requests)
    BY <2>1
  <2> QED
    BY <2>2 DEF FollowerInit
<1>2. /\ watch \in {"off", "starting"} /\ held = 0 /\ alive = {} /\ lost = {}
      /\ epoch \in Nat /\ 0 \in 0..epoch
  BY DEF FollowerInit
<1>3. /\ DOMAIN starting \subseteq 1..epoch
      /\ starting \in [DOMAIN starting -> {"asked", "made", "failed"}]
      /\ \A e \in DOMAIN starting : starting[e] = "asked"
  BY DEF FollowerInit, NoEpochs
<1>4. HeldSees /\ OnlyOneIsHeld /\ MadeSees /\ OnlyMadeSee /\ OnIsHeld
  BY <1>2, <1>3 DEF HeldSees, OnlyOneIsHeld, MadeSees, OnlyMadeSee, OnIsHeld
<1>5. WatchSound
  BY <1>1, <1>2, <1>3, <1>4 DEF WatchSound
<1>6. RestSound /\ WatchedAsWanted
  BY DEF FollowerInit, RestSound, WatchedAsWanted, Wanted
<1> QED
  BY <1>5, <1>6 DEF FollowerInvariant

(***************************************************************************)
(* current/ is watched exactly while something needs it, by at most one    *)
(* watcher, which sees it or whose loss the loop is about to be told of:   *)
(* however often the theme is replaced or current/ moved, and in whatever  *)
(* order late watchers and rereads arrive (sync_watch, start_watch).       *)
(***************************************************************************)
THEOREM TheWatchIsReal == FollowerSpec => []WatchIsReal
<1>1. FollowerInvariant /\ [FollowerNext]_followerVars => FollowerInvariant'
  BY FollowerStep, FollowerStuttering
<1>2. FollowerInit => FollowerInvariant
  BY FollowerStart
<1>3. FollowerInvariant => WatchIsReal
  BY InvariantIsReal
<1> QED
  BY <1>1, <1>2, <1>3, PTL DEF FollowerSpec

-----------------------------------------------------------------------------
(* The theme the window wears: the inductive invariant.                     *)

SavedThemes == [base : BuiltIn, palette : Palettes]

ThemeLists == UNION {[numbers -> SavedThemes] : numbers \in SUBSET Nat}

ThemeSelections ==
  {Choice(b) : b \in BuiltIn} \cup {Custom(id) : id \in Nat} \cup {Omarchy}

ThemeSettings == [theme : ThemeSelections, follow : BOOLEAN]

Editors ==
  [open : {TRUE}, editing : Nat, base : BuiltIn, pendingBase : BuiltIn \cup {NoDraft},
   draft : Palettes, invalid : BOOLEAN, pending : BOOLEAN]

SaveReplies == {"none", "saved", "failed"}

ThemeSaves ==
  [kind : {"edited", "imported"}, id : Nat, reply : SaveReplies] \cup
  [kind : {"deleted"}, id : Nat, base : BuiltIn, reply : SaveReplies]

ThemeWrites ==
  {[kind |-> "document"]} \cup {WriteSettings(s) : s \in ThemeSettings}
    \cup {WriteThemes(list) : list \in ThemeLists}

\* Numbers are only given by saves, and there is room for the themes.
Fits(list) ==
  /\ DOMAIN list \subseteq 1 .. spent.saves
  /\ Cardinality(DOMAIN list) <= MaxThemes

ThemeStateTyped ==
  /\ themes \in ThemeLists /\ Fits(themes)
  /\ disk \in [themes : ThemeLists, settings : ThemeSettings] /\ Fits(disk.themes)
  /\ settings \in ThemeSettings
  /\ writes \in Seq(ThemeWrites)
  /\ save \in ThemeSaves \cup {NoSave}
  /\ form \in Editors \cup {NoForm}
  /\ confirm \in Nat
  /\ transfer \in {"idle", "dialog", "reading", "read", "naming", "writing", "written"}
  /\ preview \in Palettes \cup {NoDraft} /\ palette \in Palettes
  /\ scheduled \in BOOLEAN /\ dirty \in BOOLEAN /\ awaiting \in BOOLEAN /\ light \in BOOLEAN
  /\ desktop \in DesktopPalettes
  /\ spent \in [saves : 0 .. MaxSaves, choices : Nat, edits : Nat, crashes : Nat]

\* What a save in flight makes of the list that is shown.
IsOutcome(list) ==
  /\ Fits(list)
  /\ \/ /\ save.kind \in {"edited", "imported"}
        /\ \E made \in SavedThemes : list = With(themes, save.id, made)
        /\ save.kind = "imported" => save.id \notin DOMAIN themes
     \/ save.kind = "deleted" /\ list = Without(themes, save.id)

NoListWaits == \A i \in 1 .. Len(writes) : writes[i].kind # "themes"

\* One list at a time is on its way to the store, and its reply to the window.
SaveInFlight ==
  /\ ~SavePending \/ save.reply = "failed" => NoListWaits /\ themes = disk.themes
  /\ SavePending /\ save.reply = "saved" => NoListWaits /\ IsOutcome(disk.themes)
  /\ SavePending /\ save.reply = "none" =>
       /\ themes = disk.themes
       /\ \E i \in 1 .. Len(writes) :
            /\ writes[i].kind = "themes" /\ IsOutcome(writes[i].themes)
            /\ \A j \in 1 .. Len(writes) : writes[j].kind = "themes" => j = i

\* The editor, a confirmation and a transfer exclude each other, and only the
\* editor's own save is in flight while it is open.
OneDialog ==
  /\ form.open <=> preview # NoDraft
  /\ confirm # 0 => ~form.open /\ ~SavePending /\ transfer = "idle"
  /\ transfer # "idle" => ~form.open /\ ~SavePending
  /\ form.open => (SavePending <=> form.pending)
  /\ SavePending => (save.kind = "edited" <=> form.open)

\* A draft is worn at once or at the next frame; without one, the theme is,
\* though the frame may still come.
Wears ==
  /\ dirty => scheduled
  /\ spent.crashes = 0 => SelectionIsListed
  /\ spent.crashes = 0 /\ (IF preview = NoDraft THEN ~awaiting ELSE ~dirty) =>
       palette = Apply(preview, settings, themes)

\* One document at a time is being read or written.
OneDocument ==
  \A i \in 1 .. Len(writes) : writes[i].kind = "document" =>
    /\ transfer \in {"reading", "writing"}
    /\ \A j \in 1 .. Len(writes) : writes[j].kind = "document" => j = i

ThemeInv == ThemeStateTyped /\ SaveInFlight /\ OneDialog /\ OneDocument /\ Wears

LEMMA NumberIsFresh ==
  ASSUME NEW list \in ThemeLists, NEW n \in Nat, DOMAIN list \subseteq 1 .. n
  PROVE  NextThemeId(list) \in 1 .. n + 1 /\ NextThemeId(list) \notin DOMAIN list
<1>1. CASE DOMAIN list = {}
  BY <1>1 DEF NextThemeId
<1>2. CASE DOMAIN list # {}
  <2> DEFINE Below == {pair \in Nat \X Nat : pair[1] < pair[2]}
             Bounds == {m \in Nat : \A id \in DOMAIN list : id <= m}
  <2>1. IsWellFoundedOn(Below, Nat)
    <3>1. OpToRel(<, Nat) = Below
      BY DEF OpToRel
    <3> QED
      BY <3>1, NatLessThanWellFounded
  <2>2. n \in Bounds
    OBVIOUS
  <2>3. PICK m \in Bounds : \A k \in Bounds : ~(<<k, m>> \in Below)
    <3> HIDE DEF Below
    <3> QED
      BY <2>1, <2>2, WFMin, Bounds \subseteq Nat
  <2>4. m \in DOMAIN list
    <3> SUFFICES ASSUME m \notin DOMAIN list
                 PROVE  FALSE
      OBVIOUS
    <3>1. m # 0
      BY <1>2
    <3>2. m - 1 \in Bounds /\ m - 1 < m
      BY <3>1
    <3>3. <<m - 1, m>> \in Below
      BY <3>2
    <3> QED
      BY <2>3, <3>2, <3>3
  <2>5. \E id \in DOMAIN list : \A other \in DOMAIN list : other <= id
    BY <2>4
  <2>6. PICK id \in DOMAIN list : /\ NextThemeId(list) = 1 + id
                                  /\ \A other \in DOMAIN list : other <= id
    BY <1>2, <2>5 DEF NextThemeId
  <2> QED
    BY <2>6
<1> QED
  BY <1>1, <1>2

LEMMA ListsAre ==
  ASSUME NEW list
  PROVE  list \in ThemeLists <=>
           /\ DOMAIN list \subseteq Nat
           /\ list = [id \in DOMAIN list |-> list[id]]
           /\ \A id \in DOMAIN list : list[id] \in SavedThemes
<1>1. ASSUME list \in ThemeLists
      PROVE  /\ DOMAIN list \subseteq Nat
             /\ list = [id \in DOMAIN list |-> list[id]]
             /\ \A id \in DOMAIN list : list[id] \in SavedThemes
  BY <1>1 DEF ThemeLists
<1>2. ASSUME DOMAIN list \subseteq Nat, list = [id \in DOMAIN list |-> list[id]],
             \A id \in DOMAIN list : list[id] \in SavedThemes
      PROVE  list \in ThemeLists
  <2>1. list \in [DOMAIN list -> SavedThemes]
    BY <1>2
  <2> QED
    BY <1>2, <2>1 DEF ThemeLists
<1> QED
  BY <1>1, <1>2

\* A theme more, or another in its place.
LEMMA WithIs ==
  ASSUME NEW list \in ThemeLists, NEW id \in Nat, NEW made \in SavedThemes,
         NEW n \in Nat, DOMAIN list \subseteq 1 .. n
  PROVE  /\ With(list, id, made) \in ThemeLists
         /\ DOMAIN With(list, id, made) = DOMAIN list \cup {id}
         /\ With(list, id, made)[id] = made
         /\ \A i \in DOMAIN list : i # id => With(list, id, made)[i] = list[i]
         /\ Cardinality(DOMAIN With(list, id, made)) =
              IF id \in DOMAIN list THEN Cardinality(DOMAIN list)
              ELSE Cardinality(DOMAIN list) + 1
<1>1. /\ DOMAIN With(list, id, made) = DOMAIN list \cup {id}
      /\ With(list, id, made)[id] = made
      /\ \A i \in DOMAIN list : i # id => With(list, id, made)[i] = list[i]
  BY DEF With
<1>2. With(list, id, made) \in ThemeLists
  <2>1. \A i \in DOMAIN list \cup {id} : With(list, id, made)[i] \in SavedThemes
    BY <1>1, ListsAre
  <2>2. With(list, id, made) =
          [i \in DOMAIN With(list, id, made) |-> With(list, id, made)[i]]
    BY <1>1 DEF With
  <2> QED
    BY <1>1, <2>1, <2>2, ListsAre
<1>3. Cardinality(DOMAIN list \cup {id}) =
        IF id \in DOMAIN list THEN Cardinality(DOMAIN list) ELSE Cardinality(DOMAIN list) + 1
  <2>1. IsFiniteSet(DOMAIN list)
    <3>1. IsFiniteSet(1 .. n)
      BY FS_Interval
    <3> QED
      BY <3>1, FS_Subset
  <2> QED
    BY <2>1, FS_AddElement
<1> QED
  BY <1>1, <1>2, <1>3

\* A theme less.
LEMMA WithoutIs ==
  ASSUME NEW list \in ThemeLists, NEW id, NEW n \in Nat, DOMAIN list \subseteq 1 .. n
  PROVE  /\ Without(list, id) \in ThemeLists
         /\ DOMAIN Without(list, id) = DOMAIN list \ {id}
         /\ \A i \in DOMAIN list : i # id => Without(list, id)[i] = list[i]
         /\ Cardinality(DOMAIN Without(list, id)) <= Cardinality(DOMAIN list)
<1>1. /\ DOMAIN Without(list, id) = DOMAIN list \ {id}
      /\ \A i \in DOMAIN list : i # id => Without(list, id)[i] = list[i]
  BY DEF Without
<1>2. Without(list, id) \in ThemeLists
  <2>1. \A i \in DOMAIN list \ {id} : Without(list, id)[i] \in SavedThemes
    BY <1>1, ListsAre
  <2>2. Without(list, id) = [i \in DOMAIN Without(list, id) |-> Without(list, id)[i]]
    BY <1>1 DEF Without
  <2> QED
    BY <1>1, <2>1, <2>2, ListsAre
<1>3. Cardinality(DOMAIN list \ {id}) <= Cardinality(DOMAIN list)
  <2>1. IsFiniteSet(DOMAIN list)
    <3>1. IsFiniteSet(1 .. n)
      BY FS_Interval
    <3> QED
      BY <3>1, FS_Subset
  <2> QED
    BY <2>1, FS_Subset
<1> QED
  BY <1>1, <1>2, <1>3

-----------------------------------------------------------------------------
(* What a selection means.                                                  *)

LEMMA SelectionIs ==
  ASSUME NEW s \in ThemeSettings
  PROVE  /\ s.follow \in BOOLEAN
         /\ s.theme[1] \in {"builtin", "custom", "omarchy"}
         /\ s.theme[1] = "builtin" => s.theme[2] \in BuiltIn /\ s.theme = Choice(s.theme[2])
         /\ s.theme[1] = "custom" => s.theme[2] \in Nat /\ s.theme = Custom(s.theme[2])
         /\ s.theme[1] = "omarchy" <=> s.theme = Omarchy
<1>1. s.theme \in ThemeSelections /\ s.follow \in BOOLEAN
  BY DEF ThemeSettings
<1>2. CASE \E b \in BuiltIn : s.theme = Choice(b)
  BY <1>1, <1>2 DEF Choice, Omarchy
<1>3. CASE \E id \in Nat : s.theme = Custom(id)
  BY <1>1, <1>3 DEF Custom, Omarchy
<1>4. CASE s.theme = Omarchy
  BY <1>1, <1>4 DEF Omarchy
<1> QED
  BY <1>1, <1>2, <1>3, <1>4 DEF ThemeSelections

LEMMA ResolvedIs ==
  ASSUME ThemeAssumption, NEW s \in ThemeSettings, NEW list \in ThemeLists,
         desktop \in DesktopPalettes
  PROVE  LET chosen == Resolve(s.theme, list)
         IN  /\ chosen.palette \in Palettes
             /\ chosen.selection[1] \in {"builtin", "custom", "omarchy"}
             /\ chosen.selection[1] = "builtin" => chosen.selection[2] \in BuiltIn
             /\ chosen.selection[1] = "custom" => chosen.selection[2] \in DOMAIN list
             /\ chosen.selection = Omarchy <=> s.theme = Omarchy
<1> DEFINE chosen == Resolve(s.theme, list)
<1>1. Midnight \in BuiltIn /\ BuiltIn \subseteq Palettes /\ DesktopPalettes \subseteq Palettes
  BY DEF ThemeAssumption, Palettes
<1>2. Choice(Midnight)[1] = "builtin" /\ Choice(Midnight)[2] = Midnight
      /\ Choice(Midnight) # Omarchy
  BY DEF Choice, Omarchy
<1>3. CASE s.theme[1] = "custom"
  <2>1. CASE s.theme[2] \in DOMAIN list
    <3>1. chosen = [selection |-> s.theme, palette |-> list[s.theme[2]].palette]
      BY <1>3, <2>1 DEF Resolve
    <3>2. list[s.theme[2]].palette \in Palettes
      BY <2>1, ListsAre DEF SavedThemes
    <3> QED
      BY <1>3, <2>1, <3>1, <3>2, SelectionIs
  <2>2. CASE s.theme[2] \notin DOMAIN list
    <3>1. chosen = [selection |-> Choice(Midnight), palette |-> Midnight]
      BY <1>3, <2>2 DEF Resolve
    <3> QED
      BY <1>1, <1>2, <1>3, <3>1, SelectionIs
  <2> QED
    BY <2>1, <2>2
<1>4. CASE s.theme[1] = "omarchy"
  <2>1. chosen = [selection |-> Omarchy, palette |-> desktop]
    BY <1>4 DEF Resolve
  <2>2. s.theme = Omarchy
    BY <1>4, SelectionIs
  <2> QED
    BY <1>1, <1>4, <2>1, <2>2
<1>5. CASE s.theme[1] = "builtin"
  <2>1. chosen = [selection |-> s.theme, palette |-> s.theme[2]]
    BY <1>5 DEF Resolve
  <2>2. s.theme[2] \in BuiltIn /\ s.theme # Omarchy
    BY <1>5, SelectionIs
  <2> QED
    BY <1>1, <1>5, <2>1, <2>2
<1> QED
  BY <1>3, <1>4, <1>5, SelectionIs

LEMMA EffectiveIs ==
  ASSUME ThemeAssumption, NEW s \in ThemeSettings, NEW list \in ThemeLists, NEW lit,
         desktop \in DesktopPalettes
  PROVE  LET effective == EffectiveTheme(s, list, lit)
         IN  /\ effective.palette \in Palettes
             /\ effective.selection[1] \in {"builtin", "custom", "omarchy"}
             /\ effective.selection[1] = "builtin" => effective.selection[2] \in BuiltIn
             /\ effective.selection[1] = "custom" => effective.selection[2] \in DOMAIN list
<1> DEFINE chosen == Resolve(s.theme, list)
           effective == EffectiveTheme(s, list, lit)
           Day == [selection |-> Choice(Daylight), palette |-> Daylight]
           Night == [selection |-> Choice(Midnight), palette |-> Midnight]
<1>1. effective \in {chosen, Day, Night}
  BY DEF EffectiveTheme
<1>2. /\ Daylight \in BuiltIn /\ Midnight \in BuiltIn /\ BuiltIn \subseteq Palettes
      /\ \A b \in BuiltIn : Choice(b)[1] = "builtin" /\ Choice(b)[2] = b
  BY DEF ThemeAssumption, Palettes, Choice
<1>3. CASE effective = chosen
  BY <1>3, ResolvedIs
<1>4. CASE effective = Day
  BY <1>2, <1>4
<1>5. CASE effective = Night
  BY <1>2, <1>5
<1> HIDE DEF effective
<1> QED
  BY <1>1, <1>3, <1>4, <1>5 DEF effective

\* A draft starts from a built-in theme.
LEMMA ActiveBaseIs ==
  ASSUME ThemeAssumption, ThemeStateTyped
  PROVE  ActiveBase \in BuiltIn
<1> DEFINE effective == EffectiveTheme(settings, themes, light)
<1>1. /\ effective.selection[1] \in {"builtin", "custom", "omarchy"}
      /\ effective.selection[1] = "builtin" => effective.selection[2] \in BuiltIn
      /\ effective.selection[1] = "custom" => effective.selection[2] \in DOMAIN themes
  BY EffectiveIs DEF ThemeStateTyped
<1>2. \A id \in DOMAIN themes : themes[id].base \in BuiltIn
  BY ListsAre DEF ThemeStateTyped, SavedThemes
<1>3. Daylight \in BuiltIn /\ Midnight \in BuiltIn
  BY DEF ThemeAssumption
<1> HIDE DEF effective
<1>4. ActiveBase = IF effective.selection[1] = "builtin" THEN effective.selection[2]
                   ELSE IF effective.selection[1] = "custom"
                        THEN themes[effective.selection[2]].base
                   ELSE IF IsLight(effective.palette) THEN Daylight ELSE Midnight
  BY DEF ActiveBase, effective
<1> QED
  BY <1>1, <1>2, <1>3, <1>4

\* Lists that agree on the selected theme mean the same.
LEMMA SameMeaning ==
  ASSUME NEW s \in ThemeSettings, NEW a \in ThemeLists, NEW b \in ThemeLists, NEW lit,
         s.theme[1] = "custom" =>
           s.theme[2] \in DOMAIN a /\ s.theme[2] \in DOMAIN b /\ a[s.theme[2]] = b[s.theme[2]]
  PROVE  EffectiveTheme(s, a, lit) = EffectiveTheme(s, b, lit)
<1>1. Resolve(s.theme, a) = Resolve(s.theme, b)
  BY DEF Resolve
<1> QED
  BY <1>1 DEF EffectiveTheme

LEMMA AppliedIs ==
  ASSUME ThemeAssumption, NEW shade \in Palettes \cup {NoDraft},
         NEW s \in ThemeSettings, NEW list \in ThemeLists, desktop \in DesktopPalettes
  PROVE  Apply(shade, s, list) \in Palettes
BY EffectiveIs DEF Apply

LEMMA DraftsAre ==
  ASSUME ThemeAssumption
  PROVE  NoDraft \notin Palettes /\ BuiltIn \subseteq Palettes /\ Edited \subseteq Palettes
         /\ DesktopPalettes \subseteq Palettes
BY DEF ThemeAssumption, Palettes

LEMMA SpendIs ==
  ASSUME ThemeStateTyped, NEW bound, NEW what \in {"choices", "edits", "crashes"},
         Spend(what, bound)
  PROVE  /\ spent' \in [saves : 0 .. MaxSaves, choices : Nat, edits : Nat, crashes : Nat]
         /\ spent'.saves = spent.saves
         /\ what # "crashes" => spent'.crashes = spent.crashes
         /\ what = "crashes" => spent'.crashes # 0
BY DEF ThemeStateTyped, Spend

LEMMA SpendSaves ==
  ASSUME ThemeAssumption, ThemeStateTyped, Spend("saves", MaxSaves)
  PROVE  /\ spent' \in [saves : 0 .. MaxSaves, choices : Nat, edits : Nat, crashes : Nat]
         /\ spent'.saves = spent.saves + 1
         /\ spent'.crashes = spent.crashes
<1>1. MaxSaves \in Nat /\ spent.saves \in 0 .. MaxSaves /\ spent.saves < MaxSaves
  BY DEF ThemeStateTyped, Spend, ThemeAssumption
<1> QED
  BY <1>1 DEF ThemeStateTyped, Spend

-----------------------------------------------------------------------------
(* Steps that leave the saves alone.                                        *)

SpentTyped == spent \in [saves : 0 .. MaxSaves, choices : Nat, edits : Nat, crashes : Nat]

LEMMA SavesRest ==
  ASSUME ThemeStateTyped, SaveInFlight, UNCHANGED <<themes, writes, save>>,
         disk'.themes = disk.themes, spent'.saves = spent.saves
  PROVE  SaveInFlight' /\ Fits(themes)' /\ Fits(disk.themes)'
<1>1. Fits(themes) /\ Fits(disk.themes)
  BY DEF ThemeStateTyped
<1>2. Fits(themes)' /\ Fits(disk.themes)'
  BY <1>1 DEF Fits
<1>3. /\ ~SavePending' \/ save'.reply = "failed" => NoListWaits' /\ themes' = disk'.themes
      /\ SavePending' /\ save'.reply = "saved" => NoListWaits' /\ IsOutcome(disk.themes)'
  BY DEF SaveInFlight, SavePending, NoListWaits, IsOutcome, Fits
<1>4. ASSUME SavePending', save'.reply = "none"
      PROVE  /\ themes' = disk'.themes
             /\ \E i \in 1 .. Len(writes') :
                  /\ writes'[i].kind = "themes" /\ IsOutcome(writes[i].themes)'
                  /\ \A j \in 1 .. Len(writes') : writes'[j].kind = "themes" => j = i
  <2>1. SavePending /\ save.reply = "none"
    BY <1>4 DEF SavePending
  <2>2. PICK i \in 1 .. Len(writes) :
          /\ writes[i].kind = "themes" /\ IsOutcome(writes[i].themes)
          /\ \A j \in 1 .. Len(writes) : writes[j].kind = "themes" => j = i
    BY <2>1 DEF SaveInFlight
  <2>3. IsOutcome(writes[i].themes)'
    BY <2>2 DEF IsOutcome, Fits
  <2> QED
    BY <2>1, <2>2, <2>3 DEF SaveInFlight
<1> QED
  BY <1>2, <1>3, <1>4 DEF SaveInFlight

LEMMA WritesAre ==
  /\ [kind |-> "document"] \in ThemeWrites /\ [kind |-> "document"].kind # "themes"
  /\ \A s \in ThemeSettings :
       WriteSettings(s) \in ThemeWrites /\ WriteSettings(s).kind # "themes"
  /\ \A list \in ThemeLists :
       /\ WriteThemes(list) \in ThemeWrites
       /\ WriteThemes(list).kind = "themes" /\ WriteThemes(list).themes = list
BY DEF ThemeWrites, WriteSettings, WriteThemes

LEMMA KindsAre ==
  /\ \A s \in ThemeSettings : WriteSettings(s).kind # "document"
  /\ \A list : WriteThemes(list).kind # "document"
BY DEF WriteSettings, WriteThemes

\* Another write waits behind the list.
LEMMA SavesWait ==
  ASSUME ThemeStateTyped, SaveInFlight, NEW job \in ThemeWrites, job.kind # "themes",
         writes' = Append(writes, job), UNCHANGED <<themes, save>>,
         disk'.themes = disk.themes, spent'.saves = spent.saves
  PROVE  SaveInFlight' /\ Fits(themes)' /\ Fits(disk.themes)' /\ writes' \in Seq(ThemeWrites)
<1>1. /\ writes \in Seq(ThemeWrites) /\ writes' \in Seq(ThemeWrites)
      /\ Len(writes) \in Nat /\ Len(writes') = Len(writes) + 1
      /\ \A i \in 1 .. Len(writes) : writes'[i] = writes[i]
      /\ writes'[Len(writes) + 1] = job
  BY DEF ThemeStateTyped
<1>2. Fits(themes)' /\ Fits(disk.themes)'
  BY DEF ThemeStateTyped, Fits
<1>3. NoListWaits => NoListWaits'
  BY <1>1 DEF NoListWaits
<1>4. /\ ~SavePending' \/ save'.reply = "failed" => NoListWaits' /\ themes' = disk'.themes
      /\ SavePending' /\ save'.reply = "saved" => NoListWaits' /\ IsOutcome(disk.themes)'
  BY <1>3 DEF SaveInFlight, SavePending, IsOutcome, Fits
<1>5. ASSUME SavePending', save'.reply = "none"
      PROVE  /\ themes' = disk'.themes
             /\ \E i \in 1 .. Len(writes') :
                  /\ writes'[i].kind = "themes" /\ IsOutcome(writes[i].themes)'
                  /\ \A j \in 1 .. Len(writes') : writes'[j].kind = "themes" => j = i
  <2>1. SavePending /\ save.reply = "none"
    BY <1>5 DEF SavePending
  <2>2. PICK i \in 1 .. Len(writes) :
          /\ writes[i].kind = "themes" /\ IsOutcome(writes[i].themes)
          /\ \A j \in 1 .. Len(writes) : writes[j].kind = "themes" => j = i
    BY <2>1 DEF SaveInFlight
  <2>3. i \in 1 .. Len(writes') /\ writes'[i] = writes[i]
    BY <1>1
  <2>4. IsOutcome(writes[i].themes)'
    BY <2>2, <2>3 DEF IsOutcome, Fits
  <2>5. \A j \in 1 .. Len(writes') : writes'[j].kind = "themes" => j = i
    BY <1>1, <2>2
  <2> QED
    BY <2>1, <2>2, <2>3, <2>4, <2>5 DEF SaveInFlight
<1> QED
  BY <1>1, <1>2, <1>4, <1>5 DEF SaveInFlight

LEMMA DocumentsRest ==
  ASSUME OneDocument, UNCHANGED writes,
         transfer' = transfer \/ transfer \notin {"reading", "writing"}
  PROVE  OneDocument'
BY DEF OneDocument

LEMMA DocumentsWait ==
  ASSUME ThemeStateTyped, OneDocument, NEW job \in ThemeWrites, job.kind # "document",
         writes' = Append(writes, job),
         transfer' = transfer \/ transfer \notin {"reading", "writing"}
  PROVE  OneDocument'
<1>1. /\ writes \in Seq(ThemeWrites) /\ Len(writes) \in Nat /\ Len(writes') = Len(writes) + 1
      /\ \A i \in 1 .. Len(writes) : writes'[i] = writes[i]
      /\ writes'[Len(writes) + 1] = job
  BY DEF ThemeStateTyped
<1>2. \A i \in 1 .. Len(writes') : writes'[i].kind = "document" =>
        i \in 1 .. Len(writes) /\ writes[i].kind = "document"
  BY <1>1
<1> QED
  BY <1>2 DEF OneDocument

-----------------------------------------------------------------------------
(* The editor.                                                              *)

\* preview_theme_draft.
LEMMA DraftedIsSound ==
  ASSUME ThemeAssumption, ThemeInv, NEW shade \in Palettes, Preview(shade),
         form' \in Editors, form'.pending <=> SavePending, SavePending => save.kind = "edited",
         transfer = "idle", confirm = 0,
         UNCHANGED <<themes, settings, disk, writes, save, confirm, transfer, awaiting, outside>>,
         SpentTyped', spent'.saves = spent.saves, spent'.crashes = spent.crashes
  PROVE  ThemeInv'
<1>1. SaveInFlight' /\ Fits(themes)' /\ Fits(disk.themes)'
  BY SavesRest DEF ThemeInv
<1>2. shade # NoDraft /\ form'.open
  BY DraftsAre DEF Editors
<1>3. preview' = shade /\ scheduled' = TRUE /\ dirty' = scheduled
      /\ palette' = IF scheduled THEN palette ELSE shade
  BY DEF Preview
<1>4. ThemeStateTyped'
  BY <1>1, <1>3 DEF ThemeInv, ThemeStateTyped, SpentTyped, outside
<1>5. OneDialog'
  BY <1>2, <1>3 DEF OneDialog, SavePending
<1>6. Wears'
  BY <1>2, <1>3 DEF ThemeInv, ThemeStateTyped, Wears, Apply, SelectionIsListed
<1>7. OneDocument'
  BY DocumentsRest DEF ThemeInv
<1> QED
  BY <1>1, <1>4, <1>5, <1>6, <1>7 DEF ThemeInv

\* A field of the editor changes and the draft does not.
LEMMA RedrawnIsSound ==
  ASSUME ThemeInv, form.open, form' \in Editors, form'.pending = form.pending,
         UNCHANGED <<themes, settings, disk, writes, save, confirm, transfer, awaiting, outside,
                     preview, scheduled, dirty, palette>>,
         SpentTyped', spent'.saves = spent.saves, spent'.crashes = spent.crashes
  PROVE  ThemeInv'
<1>1. SaveInFlight' /\ Fits(themes)' /\ Fits(disk.themes)'
  BY SavesRest DEF ThemeInv
<1>2. form'.open
  BY DEF Editors
<1>3. ThemeStateTyped'
  BY <1>1 DEF ThemeInv, ThemeStateTyped, SpentTyped, outside
<1>4. OneDialog'
  BY <1>2 DEF ThemeInv, OneDialog, SavePending
<1>5. Wears'
  BY <1>2 DEF ThemeInv, OneDialog, Wears, Apply, SelectionIsListed
<1>6. OneDocument'
  BY DocumentsRest DEF ThemeInv
<1> QED
  BY <1>1, <1>3, <1>4, <1>5, <1>6 DEF ThemeInv

\* While the editor is open nothing else is.
LEMMA EditorIsAlone ==
  ASSUME ThemeInv, form.open
  PROVE  /\ form \in Editors
         /\ form.pending <=> SavePending
         /\ SavePending => save.kind = "edited"
         /\ transfer = "idle" /\ confirm = 0
<1>1. form \in Editors
  BY DEF ThemeInv, ThemeStateTyped, NoForm
<1> QED
  BY <1>1 DEF ThemeInv, OneDialog

LEMMA OpenEditorStep ==
  ASSUME ThemeAssumption, ThemeInv, NEW id \in Nat, NEW base \in BuiltIn,
         NEW shade \in Palettes, OpenEditor(id, base, shade)
  PROVE  ThemeInv'
<1>1. ~SavePending /\ transfer = "idle" /\ confirm = 0
  BY DEF OpenEditor, CardIdle, NoModal
<1>2. form' \in Editors /\ form'.pending = FALSE
  BY DEF OpenEditor, Editors
<1>3. SpentTyped' /\ UNCHANGED spent
  BY DEF OpenEditor, ThemeInv, ThemeStateTyped, SpentTyped
<1> QED
  BY <1>1, <1>2, <1>3, DraftedIsSound DEF OpenEditor

LEMMA NewThemeStep ==
  ASSUME ThemeAssumption, ThemeInv, NewTheme
  PROVE  ThemeInv'
BY ActiveBaseIs, DraftsAre, OpenEditorStep DEF NewTheme, ThemeInv

LEMMA EditThemeStep ==
  ASSUME ThemeAssumption, ThemeInv, EditTheme
  PROVE  ThemeInv'
<1>1. PICK id \in DOMAIN themes : OpenEditor(id, themes[id].base, themes[id].palette)
  BY DEF EditTheme
<1>2. id \in Nat /\ themes[id] \in SavedThemes
  BY ListsAre DEF ThemeInv, ThemeStateTyped
<1> QED
  BY <1>1, <1>2, OpenEditorStep DEF SavedThemes

\* An edit of a form keeps its type.
LEMMA EditIsTyped ==
  ASSUME ThemeInv, NEW bound, Spend("edits", bound)
  PROVE  SpentTyped' /\ spent'.saves = spent.saves /\ spent'.crashes = spent.crashes
BY SpendIs DEF ThemeInv, SpentTyped

LEMMA TypeColorStep ==
  ASSUME ThemeAssumption, ThemeInv, NEW color \in Edited, TypeColor(color)
  PROVE  ThemeInv'
<1>1. /\ form.open /\ Spend("edits", MaxEdits)
      /\ Redraw([form EXCEPT !.draft = color, !.invalid = FALSE])
  BY DEF TypeColor
<1>2. form' \in Editors /\ form'.pending = form.pending /\ color \in Palettes
  BY <1>1, EditorIsAlone, DraftsAre DEF Redraw, Editors
<1>3. CASE color = form.draft
  BY <1>1, <1>2, <1>3, EditIsTyped, RedrawnIsSound DEF TypeColor, Redraw
<1>4. CASE color # form.draft
  BY <1>1, <1>2, <1>4, EditIsTyped, EditorIsAlone, DraftedIsSound DEF TypeColor, Redraw
<1> QED
  BY <1>3, <1>4

LEMMA TypeNonsenseStep ==
  ASSUME ThemeAssumption, ThemeInv, TypeNonsense
  PROVE  ThemeInv'
<1>1. /\ form.open /\ Spend("edits", MaxEdits) /\ Redraw([form EXCEPT !.invalid = TRUE])
  BY DEF TypeNonsense
<1>2. form' \in Editors /\ form'.pending = form.pending
  BY <1>1, EditorIsAlone DEF Redraw, Editors
<1> QED
  BY <1>1, <1>2, EditIsTyped, RedrawnIsSound DEF TypeNonsense, Redraw

LEMMA PickColorStep ==
  ASSUME ThemeAssumption, ThemeInv, NEW color \in Edited, PickColor(color)
  PROVE  ThemeInv'
<1>1. /\ form.open /\ Spend("edits", MaxEdits) /\ Preview(color)
      /\ Redraw([form EXCEPT !.draft = color, !.invalid = FALSE])
  BY DEF PickColor
<1>2. form' \in Editors /\ form'.pending = form.pending /\ color \in Palettes
  BY <1>1, EditorIsAlone, DraftsAre DEF Redraw, Editors
<1> QED
  BY <1>1, <1>2, EditIsTyped, EditorIsAlone, DraftedIsSound DEF Redraw

LEMMA ResetToBaseStep ==
  ASSUME ThemeAssumption, ThemeInv, ResetToBase
  PROVE  ThemeInv'
<1>1. /\ form.open /\ Spend("edits", MaxEdits) /\ Preview(form.base)
      /\ Redraw([form EXCEPT !.pendingBase = NoDraft, !.draft = form.base, !.invalid = FALSE])
  BY DEF ResetToBase
<1>2. form.base \in Palettes
  BY <1>1, EditorIsAlone, DraftsAre DEF Editors
<1>3. form' \in Editors /\ form'.pending = form.pending
  BY <1>1, <1>2, EditorIsAlone DEF Redraw, Editors
<1> QED
  BY <1>1, <1>2, <1>3, EditIsTyped, EditorIsAlone, DraftedIsSound DEF Redraw

LEMMA ChooseBaseStep ==
  ASSUME ThemeAssumption, ThemeInv, NEW base \in BuiltIn, ChooseBase(base)
  PROVE  ThemeInv'
<1>1. form.open /\ Spend("edits", MaxEdits) /\ base \in Palettes
  BY DraftsAre DEF ChooseBase
<1>2. CASE base # form.base /\ form.draft = form.base /\ ~form.invalid
  <2>1. /\ Redraw([form EXCEPT !.base = base, !.pendingBase = NoDraft, !.draft = base])
        /\ Preview(base)
    BY <1>2 DEF ChooseBase
  <2>2. form' \in Editors /\ form'.pending = form.pending
    BY <1>1, <2>1, EditorIsAlone DEF Redraw, Editors
  <2> QED
    BY <1>1, <2>1, <2>2, EditIsTyped, EditorIsAlone, DraftedIsSound DEF Redraw
<1>3. CASE ~(base # form.base /\ form.draft = form.base /\ ~form.invalid)
  <2>1. /\ Redraw([form EXCEPT !.pendingBase = IF base = form.base THEN NoDraft ELSE base])
        /\ UNCHANGED <<preview, scheduled, dirty, palette>>
    BY <1>3 DEF ChooseBase
  <2>2. form' \in Editors /\ form'.pending = form.pending
    BY <1>1, <2>1, EditorIsAlone DEF Redraw, Editors
  <2> QED
    BY <1>1, <2>1, <2>2, EditIsTyped, RedrawnIsSound DEF Redraw
<1> QED
  BY <1>2, <1>3

LEMMA ResolveBaseStep ==
  ASSUME ThemeAssumption, ThemeInv, NEW replace \in BOOLEAN, ResolveBase(replace)
  PROVE  ThemeInv'
<1> DEFINE base == form.pendingBase
           shade == IF replace THEN base ELSE form.draft
<1>1. /\ form.open /\ Spend("edits", MaxEdits) /\ base # NoDraft
      /\ Redraw([form EXCEPT !.base = base, !.pendingBase = NoDraft, !.draft = shade,
                             !.invalid = @ /\ ~replace])
  BY DEF ResolveBase
<1>2. base \in BuiltIn /\ shade \in Palettes
  BY <1>1, EditorIsAlone, DraftsAre DEF Editors
<1>3. form' \in Editors /\ form'.pending = form.pending
  <2>1. form \in Editors
    BY <1>1, EditorIsAlone
  <2>2. (form.invalid /\ ~replace) \in BOOLEAN
    OBVIOUS
  <2> HIDE DEF shade, base
  <2> QED
    BY <1>1, <1>2, <2>1, <2>2 DEF Redraw, Editors
<1>4. CASE replace
  BY <1>1, <1>2, <1>3, <1>4, EditIsTyped, EditorIsAlone, DraftedIsSound DEF ResolveBase, Redraw
<1>5. CASE ~replace
  BY <1>1, <1>3, <1>5, EditIsTyped, RedrawnIsSound DEF ResolveBase, Redraw
<1> QED
  BY <1>4, <1>5

\* Closing the editor goes back to the theme, whatever waits.
LEMMA CloseEditorStep ==
  ASSUME ThemeAssumption, ThemeInv, CloseEditor
  PROVE  ThemeInv'
<1>1. SaveInFlight' /\ Fits(themes)' /\ Fits(disk.themes)'
  BY SavesRest DEF CloseEditor, ThemeInv
<1>2. ~SavePending /\ transfer = "idle" /\ confirm = 0
  BY EditorIsAlone DEF CloseEditor
<1>3. palette' \in Palettes
  BY AppliedIs DEF CloseEditor, ThemeInv, ThemeStateTyped
<1>4. ThemeStateTyped'
  BY <1>1, <1>3 DEF CloseEditor, ThemeInv, ThemeStateTyped, outside
<1>5. OneDialog'
  BY <1>2 DEF CloseEditor, OneDialog, SavePending, NoForm
<1>6. Wears'
  <2>1. Apply(preview, settings, themes)' = Apply(NoDraft, settings, themes)
    BY DEF CloseEditor, outside, Apply, EffectiveTheme, Resolve
  <2> QED
    BY <2>1 DEF CloseEditor, ThemeInv, Wears, SelectionIsListed
<1>7. OneDocument'
  BY DocumentsRest DEF CloseEditor, ThemeInv
<1> QED
  BY <1>1, <1>4, <1>5, <1>6, <1>7 DEF ThemeInv

-----------------------------------------------------------------------------
(* Dialogs, transfers and saves.                                            *)

\* What is worn does not depend on dialogs and saves.
LEMMA WearsOn ==
  ASSUME ThemeInv, UNCHANGED <<themes, settings, preview, scheduled, dirty, palette,
                               awaiting, outside>>,
         spent'.crashes = spent.crashes
  PROVE  Wears'
BY DEF ThemeInv, Wears, Apply, EffectiveTheme, Resolve, SelectionIsListed, outside

LEMMA ConfirmDeleteStep ==
  ASSUME ThemeInv, ConfirmDelete
  PROVE  ThemeInv'
<1>1. PICK id \in DOMAIN themes : confirm' = id
  BY DEF ConfirmDelete
<1>2. id \in Nat
  BY ListsAre DEF ThemeInv, ThemeStateTyped
<1>3. SaveInFlight' /\ Fits(themes)' /\ Fits(disk.themes)'
  BY SavesRest DEF ConfirmDelete, ThemeInv
<1>4. ThemeStateTyped'
  BY <1>1, <1>2, <1>3 DEF ConfirmDelete, ThemeInv, ThemeStateTyped, outside
<1>5. OneDialog'
  BY DEF ConfirmDelete, CardIdle, NoModal, ThemeInv, OneDialog, SavePending
<1>6. Wears'
  BY WearsOn DEF ConfirmDelete
<1>7. OneDocument'
  BY DocumentsRest DEF ConfirmDelete, ThemeInv
<1> QED
  BY <1>3, <1>4, <1>5, <1>6, <1>7 DEF ThemeInv

LEMMA KeepThemeStep ==
  ASSUME ThemeInv, KeepTheme
  PROVE  ThemeInv'
<1>1. SaveInFlight' /\ Fits(themes)' /\ Fits(disk.themes)'
  BY SavesRest DEF KeepTheme, ThemeInv
<1>2. ThemeStateTyped'
  BY <1>1 DEF KeepTheme, ThemeInv, ThemeStateTyped, outside
<1>3. OneDialog'
  BY DEF KeepTheme, ThemeInv, OneDialog, SavePending
<1>4. Wears'
  BY WearsOn DEF KeepTheme
<1>5. OneDocument'
  BY DocumentsRest DEF KeepTheme, ThemeInv
<1> QED
  BY <1>1, <1>2, <1>3, <1>4, <1>5 DEF ThemeInv

\* A transfer begins and ends beside the saves.
LEMMA TransferStep ==
  ASSUME ThemeInv, Import \/ Export \/ EndTransfer
  PROVE  ThemeInv'
<1>1. /\ UNCHANGED <<themes, settings, disk, writes, save, form, confirm, preview,
                     scheduled, dirty, palette, awaiting, outside, spent>>
      /\ \/ transfer = "idle" /\ transfer' \in {"dialog", "naming"} /\ CardIdle
         \/ transfer \in {"read", "written"} /\ transfer' = "idle"
  BY DEF Import, Export, EndTransfer, CardIdle
<1>2. SaveInFlight' /\ Fits(themes)' /\ Fits(disk.themes)'
  BY <1>1, SavesRest DEF ThemeInv
<1>3. ThemeStateTyped'
  BY <1>1, <1>2 DEF ThemeInv, ThemeStateTyped, outside
<1>4. OneDialog'
  BY <1>1 DEF CardIdle, NoModal, ThemeInv, OneDialog, SavePending
<1>5. Wears'
  BY <1>1, WearsOn
<1>6. OneDocument'
  BY <1>1, DocumentsRest DEF ThemeInv
<1> QED
  BY <1>2, <1>3, <1>4, <1>5, <1>6 DEF ThemeInv

LEMMA AnswerDialogStep ==
  ASSUME ThemeInv, AnswerDialog
  PROVE  ThemeInv'
<1>1. /\ transfer \in {"dialog", "naming"} /\ transfer' \in {"idle", "reading", "writing"}
      /\ \/ UNCHANGED writes
         \/ writes' = Append(writes, [kind |-> "document"]) /\ transfer' # "idle"
      /\ UNCHANGED <<themes, settings, disk, save, form, confirm, preview,
                     scheduled, dirty, palette, awaiting, outside, spent>>
  BY DEF AnswerDialog
<1>2. /\ SaveInFlight' /\ Fits(themes)' /\ Fits(disk.themes)'
      /\ writes' \in Seq(ThemeWrites)
  <2>1. CASE UNCHANGED writes
    BY <1>1, <2>1, SavesRest DEF ThemeInv, ThemeStateTyped
  <2>2. CASE writes' = Append(writes, [kind |-> "document"])
    BY <1>1, <2>2, SavesWait, WritesAre DEF ThemeInv
  <2> QED
    BY <1>1, <2>1, <2>2
<1>3. ThemeStateTyped'
  BY <1>1, <1>2 DEF ThemeInv, ThemeStateTyped, outside
<1>4. OneDialog'
  BY <1>1 DEF ThemeInv, OneDialog, SavePending
<1>5. Wears'
  BY <1>1, WearsOn
<1>6. OneDocument'
  <2>1. transfer \notin {"reading", "writing"} /\ OneDocument
    BY <1>1 DEF ThemeInv
  <2>2. CASE UNCHANGED writes
    BY <2>1, <2>2, DocumentsRest
  <2>3. CASE writes' = Append(writes, [kind |-> "document"]) /\ transfer' # "idle"
    <3>1. /\ Len(writes) \in Nat /\ Len(writes') = Len(writes) + 1
          /\ \A i \in 1 .. Len(writes) : writes'[i] = writes[i]
      BY <2>3 DEF ThemeInv, ThemeStateTyped
    <3>2. \A i \in 1 .. Len(writes') : writes'[i].kind = "document" => i = Len(writes) + 1
      BY <2>1, <3>1 DEF OneDocument
    <3> QED
      BY <1>1, <2>3, <3>2 DEF OneDocument
  <2> QED
    BY <1>1, <2>2, <2>3
<1> QED
  BY <1>2, <1>3, <1>4, <1>5, <1>6 DEF ThemeInv

\* submit_custom_themes: the only list on its way.
LEMMA SubmittedIsInFlight ==
  ASSUME ThemeAssumption, ThemeStateTyped, SaveInFlight, ~SavePending,
         NEW list \in ThemeLists, NEW outcome \in ThemeSaves, outcome.reply = "none",
         SubmitThemes(list, outcome), UNCHANGED <<themes, disk>>,
         IsOutcome(list)'
  PROVE  /\ SaveInFlight' /\ SavePending' /\ SpentTyped' /\ spent'.crashes = spent.crashes
         /\ Fits(themes)' /\ Fits(disk.themes)' /\ writes' \in Seq(ThemeWrites)
         /\ save' = outcome
<1>1. /\ Spend("saves", MaxSaves) /\ save' = outcome
      /\ writes' = Append(writes, WriteThemes(list))
  BY DEF SubmitThemes
<1>2. /\ SpentTyped' /\ spent'.saves = spent.saves + 1 /\ spent'.crashes = spent.crashes
      /\ spent.saves \in Nat
  BY <1>1, SpendSaves DEF SpentTyped, ThemeStateTyped
<1>3. Fits(themes)' /\ Fits(disk.themes)'
  BY <1>2 DEF ThemeStateTyped, Fits
<1>4. /\ writes \in Seq(ThemeWrites) /\ writes' \in Seq(ThemeWrites)
      /\ Len(writes) \in Nat /\ Len(writes') = Len(writes) + 1
      /\ \A i \in 1 .. Len(writes) : writes'[i] = writes[i]
      /\ writes'[Len(writes) + 1] = WriteThemes(list)
  BY <1>1, WritesAre DEF ThemeStateTyped
<1>5. SavePending' /\ save'.reply = "none"
  BY <1>1 DEF SavePending, ThemeSaves, NoSave
<1>6. NoListWaits /\ themes = disk.themes
  BY DEF SaveInFlight
<1>7. \E i \in 1 .. Len(writes') :
        /\ writes'[i].kind = "themes" /\ IsOutcome(writes[i].themes)'
        /\ \A j \in 1 .. Len(writes') : writes'[j].kind = "themes" => j = i
  <2>1. PICK i \in 1 .. Len(writes') : i = Len(writes) + 1
    BY <1>4
  <2>2. writes'[i].kind = "themes" /\ writes'[i].themes = list
    BY <1>4, <2>1, WritesAre
  <2>3. IsOutcome(writes[i].themes)'
    BY <1>1, <2>2 DEF IsOutcome, Fits
  <2>4. \A j \in 1 .. Len(writes') : writes'[j].kind = "themes" => j = i
    BY <1>4, <1>6, <2>1 DEF NoListWaits
  <2> QED
    BY <2>2, <2>3, <2>4
<1>8. SaveInFlight'
  BY <1>5, <1>6, <1>7 DEF SaveInFlight
<1> QED
  BY <1>1, <1>2, <1>3, <1>4, <1>5, <1>8

\* What a new theme makes of a list.
LEMMA NewThemeIs ==
  ASSUME ThemeAssumption, ThemeStateTyped, ~Full, NEW made \in SavedThemes
  PROVE  LET id == NextThemeId(themes)
         IN  /\ id \in Nat /\ id \notin DOMAIN themes
             /\ With(themes, id, made) \in ThemeLists
             /\ DOMAIN With(themes, id, made) \subseteq 1 .. spent.saves + 1
             /\ Cardinality(DOMAIN With(themes, id, made)) <= MaxThemes
<1>1. /\ themes \in ThemeLists /\ spent.saves \in Nat /\ MaxThemes \in Nat
      /\ DOMAIN themes \subseteq 1 .. spent.saves
  BY DEF ThemeStateTyped, Fits, ThemeAssumption
<1>2. Cardinality(DOMAIN themes) \in Nat /\ Cardinality(DOMAIN themes) < MaxThemes
  <2>1. IsFiniteSet(1 .. spent.saves)
    BY <1>1, FS_Interval
  <2>2. Cardinality(DOMAIN themes) \in Nat
    BY <1>1, <2>1, FS_Subset, FS_CardinalityType
  <2> QED
    BY <1>1, <2>2 DEF Full
<1>3. PICK id : id = NextThemeId(themes)
  OBVIOUS
<1>4. id \in 1 .. spent.saves + 1 /\ id \in Nat /\ id \notin DOMAIN themes
  <2>1. id \in 1 .. spent.saves + 1 /\ id \notin DOMAIN themes
    BY <1>1, <1>3, NumberIsFresh
  <2> QED
    BY <1>1, <2>1
<1>5. /\ With(themes, id, made) \in ThemeLists
      /\ DOMAIN With(themes, id, made) = DOMAIN themes \cup {id}
      /\ Cardinality(DOMAIN With(themes, id, made)) = Cardinality(DOMAIN themes) + 1
  BY <1>1, <1>4, WithIs
<1>6. DOMAIN With(themes, id, made) \subseteq 1 .. spent.saves + 1
  BY <1>1, <1>4, <1>5
<1>7. Cardinality(DOMAIN With(themes, id, made)) <= MaxThemes
  BY <1>1, <1>2, <1>5
<1> QED
  BY <1>3, <1>4, <1>5, <1>6, <1>7

LEMMA SubmitFormStep ==
  ASSUME ThemeAssumption, ThemeInv, SubmitForm
  PROVE  ThemeInv'
<1>1. PICK id : id = IF form.editing = 0 THEN NextThemeId(themes) ELSE form.editing
  OBVIOUS
<1>2. PICK made : made = [base |-> form.base, palette |-> form.draft]
  OBVIOUS
<1>3. PICK list : list = With(themes, id, made)
  OBVIOUS
<1>4. PICK outcome : outcome = [kind |-> "edited", id |-> id, reply |-> "none"]
  OBVIOUS
<1>5. /\ form.open /\ ~form.pending /\ ~SavePending
      /\ form.editing \in DOMAIN themes \cup {0}
      /\ form.editing = 0 => ~Full
      /\ SubmitThemes(list, outcome)
      /\ form' = [form EXCEPT !.pending = TRUE]
      /\ UNCHANGED <<themes, settings, disk, confirm, transfer, preview, scheduled, dirty,
                     palette, awaiting, outside>>
  BY <1>1, <1>2, <1>3, <1>4 DEF SubmitForm
<1>6. form \in Editors /\ made \in SavedThemes /\ transfer = "idle" /\ confirm = 0
  BY <1>2, <1>5, EditorIsAlone DEF Editors, SavedThemes
<1>7. /\ ThemeStateTyped /\ themes \in ThemeLists /\ spent.saves \in Nat
      /\ DOMAIN themes \subseteq 1 .. spent.saves /\ Cardinality(DOMAIN themes) <= MaxThemes
  BY DEF ThemeInv, ThemeStateTyped, Fits
<1>8. /\ id \in Nat /\ list \in ThemeLists
      /\ DOMAIN list \subseteq 1 .. spent.saves + 1
      /\ Cardinality(DOMAIN list) <= MaxThemes
  <2>1. CASE form.editing = 0
    BY <1>1, <1>3, <1>5, <1>6, <1>7, <2>1, NewThemeIs
  <2>2. CASE form.editing \in DOMAIN themes /\ form.editing # 0
    <3>1. id \in DOMAIN themes /\ id \in Nat
      BY <1>1, <1>7, <2>2
    <3>2. /\ list \in ThemeLists /\ DOMAIN list = DOMAIN themes \cup {id}
          /\ Cardinality(DOMAIN list) = Cardinality(DOMAIN themes)
      BY <1>3, <1>6, <1>7, <3>1, WithIs
    <3> QED
      BY <1>7, <3>1, <3>2
  <2>3. form.editing = 0 \/ (form.editing \in DOMAIN themes /\ form.editing # 0)
    BY <1>5
  <2> QED
    BY <2>1, <2>2, <2>3
<1>9. outcome \in ThemeSaves /\ outcome.reply = "none"
  BY <1>4, <1>8 DEF ThemeSaves, SaveReplies
<1>10. spent'.saves = spent.saves + 1 /\ save' = outcome
  BY <1>5, <1>7, SpendSaves DEF SubmitThemes
<1>11. IsOutcome(list)'
  <2>1. Fits(list)'
    BY <1>8, <1>10 DEF Fits
  <2>2. list = With(themes', save'.id, made) /\ save'.kind = "edited"
    BY <1>3, <1>4, <1>5, <1>10
  <2> QED
    BY <1>6, <2>1, <2>2 DEF IsOutcome
<1>12. /\ SaveInFlight' /\ SavePending' /\ SpentTyped' /\ spent'.crashes = spent.crashes
       /\ Fits(themes)' /\ Fits(disk.themes)' /\ writes' \in Seq(ThemeWrites)
  BY <1>5, <1>8, <1>9, <1>11, SubmittedIsInFlight DEF ThemeInv
<1>13. form' \in Editors /\ form'.open /\ form'.pending
  BY <1>5, <1>6 DEF Editors
<1>14. ThemeStateTyped'
  BY <1>5, <1>9, <1>10, <1>12, <1>13 DEF ThemeInv, ThemeStateTyped, SpentTyped, outside
<1>15. OneDialog'
  BY <1>4, <1>5, <1>6, <1>10, <1>12, <1>13 DEF ThemeInv, OneDialog
<1>16. Wears'
  BY <1>5, <1>12, WearsOn
<1>17. OneDocument'
  BY <1>5, <1>8, DocumentsWait, WritesAre, KindsAre DEF ThemeInv, SubmitThemes
<1> QED
  BY <1>12, <1>14, <1>15, <1>16, <1>17 DEF ThemeInv

LEMMA AddImportedStep ==
  ASSUME ThemeAssumption, ThemeInv, AddImported
  PROVE  ThemeInv'
<1>1. /\ transfer = "read" /\ transfer' = "idle"
      /\ UNCHANGED <<themes, settings, disk, form, confirm, preview, scheduled, dirty,
                     palette, awaiting, outside>>
      /\ ~form.open /\ ~SavePending
  BY DEF AddImported, ThemeInv, OneDialog
<1>2. CASE Full
  <2>1. UNCHANGED <<writes, save, spent>>
    BY <1>2 DEF AddImported
  <2>2. SaveInFlight' /\ Fits(themes)' /\ Fits(disk.themes)'
    BY <1>1, <2>1, SavesRest DEF ThemeInv
  <2>3. ThemeStateTyped'
    BY <1>1, <2>1, <2>2 DEF ThemeInv, ThemeStateTyped, outside
  <2>4. OneDialog'
    BY <1>1, <2>1 DEF ThemeInv, OneDialog, SavePending
  <2>5. Wears'
    BY <1>1, <2>1, WearsOn
  <2>6. OneDocument'
    BY <1>1, <2>1, DocumentsRest DEF ThemeInv
  <2> QED
    BY <2>2, <2>3, <2>4, <2>5, <2>6 DEF ThemeInv
<1>3. CASE ~Full
  <2>1. PICK id : id = NextThemeId(themes)
    OBVIOUS
  <2>2. PICK base \in BuiltIn, color \in Edited :
          SubmitThemes(With(themes, id, [base |-> base, palette |-> color]),
                       [kind |-> "imported", id |-> id, reply |-> "none"])
    BY <1>3, <2>1 DEF AddImported
  <2>3. PICK made : made = [base |-> base, palette |-> color]
    OBVIOUS
  <2>4. PICK list : list = With(themes, id, made)
    OBVIOUS
  <2>5. PICK outcome : outcome = [kind |-> "imported", id |-> id, reply |-> "none"]
    OBVIOUS
  <2>6. ThemeStateTyped /\ made \in SavedThemes
    BY <2>3, DraftsAre DEF ThemeInv, SavedThemes
  <2>7. /\ id \in Nat /\ id \notin DOMAIN themes /\ list \in ThemeLists
        /\ DOMAIN list \subseteq 1 .. spent.saves + 1
        /\ Cardinality(DOMAIN list) <= MaxThemes
    BY <1>3, <2>1, <2>4, <2>6, NewThemeIs
  <2>8. outcome \in ThemeSaves /\ outcome.reply = "none"
    BY <2>5, <2>7 DEF ThemeSaves, SaveReplies
  <2>9. SubmitThemes(list, outcome)
    BY <2>2, <2>3, <2>4, <2>5
  <2>10. spent'.saves = spent.saves + 1 /\ save' = outcome
    BY <2>6, <2>9, SpendSaves DEF SubmitThemes
  <2>11. IsOutcome(list)'
    <3>1. Fits(list)'
      BY <2>7, <2>10 DEF Fits
    <3>2. /\ list = With(themes', save'.id, made) /\ save'.kind = "imported"
          /\ save'.id \notin DOMAIN themes'
      BY <1>1, <2>4, <2>5, <2>7, <2>10
    <3> QED
      BY <2>6, <3>1, <3>2 DEF IsOutcome
  <2>12. /\ SaveInFlight' /\ SavePending' /\ SpentTyped' /\ spent'.crashes = spent.crashes
         /\ Fits(themes)' /\ Fits(disk.themes)' /\ writes' \in Seq(ThemeWrites)
    BY <1>1, <2>7, <2>8, <2>9, <2>11, SubmittedIsInFlight DEF ThemeInv
  <2>13. ThemeStateTyped'
    BY <1>1, <2>8, <2>10, <2>12 DEF ThemeInv, ThemeStateTyped, SpentTyped, outside
  <2>14. OneDialog'
    BY <1>1, <2>5, <2>10, <2>12 DEF ThemeInv, OneDialog
  <2>15. Wears'
    BY <1>1, <2>12, WearsOn
  <2>16. OneDocument'
    BY <1>1, <2>9, DocumentsWait, WritesAre, KindsAre, <2>7 DEF ThemeInv, SubmitThemes
  <2> QED
    BY <2>12, <2>13, <2>14, <2>15, <2>16 DEF ThemeInv
<1> QED
  BY <1>2, <1>3

LEMMA DeleteThemeStep ==
  ASSUME ThemeAssumption, ThemeInv, DeleteTheme
  PROVE  ThemeInv'
<1>1. PICK id : id = confirm
  OBVIOUS
<1>2. PICK list : list = Without(themes, id)
  OBVIOUS
<1>3. PICK outcome : outcome = [kind |-> "deleted", id |-> id, base |-> themes[id].base,
                                reply |-> "none"]
  OBVIOUS
<1>4. /\ confirm # 0 /\ confirm' = 0 /\ ~SavePending /\ id \in DOMAIN themes
      /\ SubmitThemes(list, outcome)
      /\ UNCHANGED <<themes, settings, disk, form, transfer, preview, scheduled, dirty,
                     palette, awaiting, outside>>
  BY <1>1, <1>2, <1>3 DEF DeleteTheme
<1>5. ~form.open /\ transfer = "idle"
  BY <1>4 DEF ThemeInv, OneDialog
<1>6. /\ ThemeStateTyped /\ themes \in ThemeLists /\ spent.saves \in Nat
      /\ DOMAIN themes \subseteq 1 .. spent.saves /\ Cardinality(DOMAIN themes) <= MaxThemes
      /\ Cardinality(DOMAIN themes) \in Nat
  <2>1. /\ ThemeStateTyped /\ themes \in ThemeLists /\ spent.saves \in Nat
        /\ DOMAIN themes \subseteq 1 .. spent.saves /\ Cardinality(DOMAIN themes) <= MaxThemes
    BY DEF ThemeInv, ThemeStateTyped, Fits
  <2>2. IsFiniteSet(1 .. spent.saves)
    BY <2>1, FS_Interval
  <2> QED
    BY <2>1, <2>2, FS_Subset, FS_CardinalityType
<1>7. /\ id \in Nat /\ themes[id].base \in BuiltIn
  BY <1>4, <1>6, ListsAre DEF SavedThemes
<1>8. /\ list \in ThemeLists /\ DOMAIN list \subseteq 1 .. spent.saves + 1
      /\ Cardinality(DOMAIN list) <= MaxThemes
  <2>1. /\ list \in ThemeLists /\ DOMAIN list = DOMAIN themes \ {id}
        /\ Cardinality(DOMAIN list) <= Cardinality(DOMAIN themes)
    BY <1>2, <1>6, WithoutIs
  <2>2. IsFiniteSet(1 .. spent.saves)
    BY <1>6, FS_Interval
  <2>3. Cardinality(DOMAIN list) \in Nat
    BY <1>6, <2>1, <2>2, FS_Subset, FS_CardinalityType
  <2> QED
    BY <1>6, <2>1, <2>3 DEF ThemeAssumption
<1>9. outcome \in ThemeSaves /\ outcome.reply = "none"
  BY <1>3, <1>7 DEF ThemeSaves, SaveReplies
<1>10. spent'.saves = spent.saves + 1 /\ save' = outcome
  BY <1>4, <1>6, SpendSaves DEF SubmitThemes
<1>11. IsOutcome(list)'
  <2>1. Fits(list)'
    BY <1>8, <1>10 DEF Fits
  <2>2. list = Without(themes', save'.id) /\ save'.kind = "deleted"
    BY <1>2, <1>3, <1>4, <1>10
  <2> QED
    BY <2>1, <2>2 DEF IsOutcome
<1>12. /\ SaveInFlight' /\ SavePending' /\ SpentTyped' /\ spent'.crashes = spent.crashes
       /\ Fits(themes)' /\ Fits(disk.themes)' /\ writes' \in Seq(ThemeWrites)
  BY <1>4, <1>8, <1>9, <1>11, SubmittedIsInFlight DEF ThemeInv
<1>13. ThemeStateTyped'
  BY <1>4, <1>9, <1>10, <1>12 DEF ThemeInv, ThemeStateTyped, SpentTyped, outside
<1>14. OneDialog'
  BY <1>3, <1>4, <1>5, <1>10, <1>12 DEF ThemeInv, OneDialog
<1>15. Wears'
  BY <1>4, <1>12, WearsOn
<1>16. OneDocument'
  BY <1>4, <1>8, DocumentsWait, WritesAre, KindsAre DEF ThemeInv, SubmitThemes
<1> QED
  BY <1>12, <1>13, <1>14, <1>15, <1>16 DEF ThemeInv

-----------------------------------------------------------------------------
(* The executor and its replies.                                            *)

\* A write leaves the queue.
LEMMA TakenWrite ==
  ASSUME ThemeStateTyped, writes # <<>>, writes' = Tail(writes)
  PROVE  /\ writes' \in Seq(ThemeWrites) /\ Head(writes) \in ThemeWrites
         /\ Len(writes) \in Nat /\ Len(writes') + 1 = Len(writes) /\ Len(writes') \in Nat
         /\ \A i \in 1 .. Len(writes') : i + 1 \in 1 .. Len(writes) /\ writes'[i] = writes[i + 1]
         /\ Head(writes) = writes[1] /\ 1 \in 1 .. Len(writes)
         /\ \A i \in 1 .. Len(writes) : i # 1 =>
              i - 1 \in 1 .. Len(writes') /\ writes'[i - 1] = writes[i]
<1>1. writes \in Seq(ThemeWrites) /\ writes' \in Seq(ThemeWrites)
  BY DEF ThemeStateTyped
<1>2. /\ Len(writes) \in Nat /\ Len(writes') + 1 = Len(writes) /\ Len(writes') \in Nat
      /\ \A i \in 1 .. Len(writes') : writes'[i] = writes[i + 1]
      /\ Head(writes) = writes[1] /\ 1 \in 1 .. Len(writes)
  BY <1>1
<1>3. Head(writes) \in ThemeWrites
  BY <1>1
<1>4. \A i \in 1 .. Len(writes) : i # 1 =>
        i - 1 \in 1 .. Len(writes') /\ writes'[i - 1] = writes[i]
  <2> SUFFICES ASSUME NEW i \in 1 .. Len(writes), i # 1
               PROVE  i - 1 \in 1 .. Len(writes') /\ writes'[i - 1] = writes[i]
    OBVIOUS
  <2>1. i - 1 \in 1 .. Len(writes') /\ (i - 1) + 1 = i
    BY <1>2
  <2> QED
    BY <1>2, <2>1
<1> QED
  BY <1>1, <1>2, <1>3, <1>4

\* A write of something else runs before the list.
LEMMA OtherWriteRan ==
  ASSUME ThemeStateTyped, SaveInFlight, writes # <<>>, writes' = Tail(writes),
         Head(writes).kind # "themes", UNCHANGED <<themes, save>>,
         disk'.themes = disk.themes, spent'.saves = spent.saves
  PROVE  SaveInFlight' /\ Fits(themes)' /\ Fits(disk.themes)'
<1>1. /\ Len(writes) \in Nat /\ Len(writes') + 1 = Len(writes) /\ Len(writes') \in Nat
      /\ \A i \in 1 .. Len(writes') : i + 1 \in 1 .. Len(writes) /\ writes'[i] = writes[i + 1]
      /\ Head(writes) = writes[1]
      /\ \A i \in 1 .. Len(writes) : i # 1 =>
           i - 1 \in 1 .. Len(writes') /\ writes'[i - 1] = writes[i]
  BY TakenWrite
<1>2. Fits(themes)' /\ Fits(disk.themes)'
  BY DEF ThemeStateTyped, Fits
<1>3. NoListWaits => NoListWaits'
  BY <1>1 DEF NoListWaits
<1>4. /\ ~SavePending' \/ save'.reply = "failed" => NoListWaits' /\ themes' = disk'.themes
      /\ SavePending' /\ save'.reply = "saved" => NoListWaits' /\ IsOutcome(disk.themes)'
  BY <1>3 DEF SaveInFlight, SavePending, IsOutcome, Fits
<1>5. ASSUME SavePending', save'.reply = "none"
      PROVE  /\ themes' = disk'.themes
             /\ \E i \in 1 .. Len(writes') :
                  /\ writes'[i].kind = "themes" /\ IsOutcome(writes[i].themes)'
                  /\ \A j \in 1 .. Len(writes') : writes'[j].kind = "themes" => j = i
  <2>1. SavePending /\ save.reply = "none"
    BY <1>5 DEF SavePending
  <2>2. PICK i \in 1 .. Len(writes) :
          /\ writes[i].kind = "themes" /\ IsOutcome(writes[i].themes)
          /\ \A j \in 1 .. Len(writes) : writes[j].kind = "themes" => j = i
    BY <2>1 DEF SaveInFlight
  <2>3. PICK k : k = i - 1
    OBVIOUS
  <2>4. i # 1
    BY <1>1, <2>2
  <2>5. k \in 1 .. Len(writes') /\ writes'[k] = writes[i]
    BY <1>1, <2>3, <2>4
  <2>6. IsOutcome(writes[k].themes)'
    BY <2>2, <2>5 DEF IsOutcome, Fits
  <2>7. \A j \in 1 .. Len(writes') : writes'[j].kind = "themes" => j = k
    <3> SUFFICES ASSUME NEW j \in 1 .. Len(writes'), writes'[j].kind = "themes"
                 PROVE  j = k
      OBVIOUS
    <3>1. j + 1 \in 1 .. Len(writes) /\ writes[j + 1].kind = "themes"
      BY <1>1
    <3>2. j + 1 = i
      BY <2>2, <3>1
    <3> QED
      BY <2>3, <3>2
  <2> QED
    BY <2>1, <2>2, <2>5, <2>6, <2>7 DEF SaveInFlight
<1> QED
  BY <1>2, <1>4, <1>5 DEF SaveInFlight

LEMMA DocumentTaken ==
  ASSUME ThemeStateTyped, OneDocument, writes # <<>>, writes' = Tail(writes),
         IF Head(writes).kind = "document" THEN TRUE ELSE UNCHANGED transfer
  PROVE  OneDocument'
<1>1. /\ \A i \in 1 .. Len(writes') : i + 1 \in 1 .. Len(writes) /\ writes'[i] = writes[i + 1]
      /\ Len(writes') \in Nat
      /\ Head(writes) = writes[1] /\ 1 \in 1 .. Len(writes)
  BY TakenWrite
<1>2. CASE Head(writes).kind = "document"
  <2>1. \A i \in 1 .. Len(writes') : writes'[i].kind # "document"
    BY <1>1, <1>2 DEF OneDocument
  <2> QED
    BY <2>1 DEF OneDocument
<1>3. CASE Head(writes).kind # "document"
  <2>1. ASSUME NEW i \in 1 .. Len(writes'), writes'[i].kind = "document"
        PROVE  /\ transfer' \in {"reading", "writing"}
               /\ \A j \in 1 .. Len(writes') : writes'[j].kind = "document" => j = i
    <3>1. i + 1 \in 1 .. Len(writes) /\ writes[i + 1].kind = "document"
      BY <1>1, <2>1
    <3>2. /\ transfer \in {"reading", "writing"}
          /\ \A j \in 1 .. Len(writes) : writes[j].kind = "document" => j = i + 1
      BY <3>1 DEF OneDocument
    <3>3. ASSUME NEW j \in 1 .. Len(writes'), writes'[j].kind = "document"
          PROVE  j = i
      <4>1. j + 1 \in 1 .. Len(writes) /\ writes[j + 1].kind = "document"
        BY <1>1, <3>3
      <4> QED
        BY <3>2, <4>1
    <3> QED
      BY <1>3, <3>2, <3>3
  <2> QED
    BY <2>1 DEF OneDocument
<1> QED
  BY <1>2, <1>3

LEMMA RunJobStep ==
  ASSUME ThemeAssumption, ThemeInv, RunJob
  PROVE  ThemeInv'
<1>1. PICK job : job = Head(writes)
  OBVIOUS
<1>2. /\ writes # <<>> /\ writes' = Tail(writes)
      /\ UNCHANGED <<themes, settings, form, confirm, preview, scheduled, dirty, palette,
                     awaiting, outside, spent>>
  BY DEF RunJob
<1>3. /\ ThemeStateTyped /\ SaveInFlight /\ OneDialog /\ OneDocument
      /\ writes' \in Seq(ThemeWrites) /\ job \in ThemeWrites
  BY <1>1, <1>2, TakenWrite DEF ThemeInv
<1>4. Wears'
  BY <1>2, WearsOn
<1>5. CASE /\ job.kind = "themes"
           /\ \E ok \in BOOLEAN :
                /\ disk' = IF ok THEN [disk EXCEPT !.themes = job.themes] ELSE disk
                /\ save' = [save EXCEPT !.reply = IF ok THEN "saved" ELSE "failed"]
           /\ UNCHANGED transfer
  <2>1. PICK ok \in BOOLEAN :
          /\ disk' = IF ok THEN [disk EXCEPT !.themes = job.themes] ELSE disk
          /\ save' = [save EXCEPT !.reply = IF ok THEN "saved" ELSE "failed"]
    BY <1>5
  <2>2. /\ Len(writes) \in Nat /\ Len(writes') \in Nat
        /\ \A i \in 1 .. Len(writes') :
             i + 1 \in 1 .. Len(writes) /\ writes'[i] = writes[i + 1]
        /\ job = writes[1] /\ 1 \in 1 .. Len(writes)
    BY <1>1, <1>2, <1>3, TakenWrite
  <2>3. ~NoListWaits
    BY <1>5, <2>2 DEF NoListWaits
  <2>4. SavePending /\ save.reply = "none"
    <3>1. SavePending /\ save.reply \in SaveReplies
      BY <1>3, <2>3 DEF ThemeStateTyped, SaveInFlight, ThemeSaves, SavePending
    <3> QED
      BY <1>3, <2>3, <3>1 DEF SaveInFlight, SaveReplies
  <2>5. PICK i \in 1 .. Len(writes) :
          /\ themes = disk.themes
          /\ writes[i].kind = "themes" /\ IsOutcome(writes[i].themes)
          /\ \A j \in 1 .. Len(writes) : writes[j].kind = "themes" => j = i
    BY <1>3, <2>4 DEF SaveInFlight
  <2>6. i = 1 /\ IsOutcome(job.themes)
    BY <1>5, <2>2, <2>5
  <2>7. NoListWaits'
    BY <2>2, <2>5, <2>6 DEF NoListWaits
  <2>8. /\ save \in ThemeSaves /\ save' \in ThemeSaves
        /\ save'.kind = save.kind /\ save'.id = save.id
        /\ save'.reply = IF ok THEN "saved" ELSE "failed"
        /\ save' # NoSave
    BY <1>3, <2>1, <2>4 DEF ThemeStateTyped, ThemeSaves, SaveReplies, SavePending, NoSave
  <2>9. job.themes \in ThemeLists
    BY <1>3, <1>5 DEF ThemeWrites, WriteSettings, WriteThemes
  <2>10. /\ disk' \in [themes : ThemeLists, settings : ThemeSettings]
         /\ disk'.themes = IF ok THEN job.themes ELSE disk.themes
    BY <1>3, <2>1, <2>9 DEF ThemeStateTyped
  <2>11. IsOutcome(job.themes)'
    BY <1>1, <1>2, <2>6, <2>8 DEF IsOutcome, Fits
  <2>12. Fits(themes)' /\ Fits(disk.themes)'
    BY <1>2, <1>3, <2>6, <2>10 DEF ThemeStateTyped, IsOutcome, Fits
  <2>13. SaveInFlight'
    <3>1. CASE ok
      <4>1. IsOutcome(disk.themes)'
        BY <1>1, <1>2, <2>10, <2>11, <3>1 DEF IsOutcome, Fits
      <4> QED
        BY <2>7, <2>8, <3>1, <4>1 DEF SaveInFlight, SavePending
    <3>2. CASE ~ok
      BY <1>2, <2>5, <2>7, <2>8, <2>10, <3>2 DEF SaveInFlight, SavePending
    <3> QED
      BY <3>1, <3>2
  <2>14. ThemeStateTyped'
    BY <1>2, <1>3, <1>5, <2>8, <2>10, <2>12 DEF ThemeStateTyped, outside
  <2>15. OneDialog'
    BY <1>2, <1>3, <1>5, <2>4, <2>8 DEF OneDialog, SavePending
  <2>16. OneDocument'
    BY <1>1, <1>2, <1>3, <1>5, DocumentTaken
  <2> QED
    BY <1>4, <2>13, <2>14, <2>15, <2>16 DEF ThemeInv
<1>6. CASE /\ job.kind = "settings"
           /\ \/ disk' = [disk EXCEPT !.settings = job.settings]
              \/ UNCHANGED disk
           /\ UNCHANGED <<save, transfer>>
  <2>1. job.settings \in ThemeSettings
    BY <1>3, <1>6 DEF ThemeWrites, WriteSettings, WriteThemes
  <2>2. /\ disk' \in [themes : ThemeLists, settings : ThemeSettings]
        /\ disk'.themes = disk.themes
    BY <1>3, <1>6, <2>1 DEF ThemeStateTyped
  <2>3. SaveInFlight' /\ Fits(themes)' /\ Fits(disk.themes)'
    BY <1>1, <1>2, <1>3, <1>6, <2>2, OtherWriteRan
  <2>4. ThemeStateTyped'
    BY <1>2, <1>3, <1>6, <2>2, <2>3 DEF ThemeStateTyped, outside
  <2>5. OneDialog'
    BY <1>2, <1>3, <1>6 DEF OneDialog, SavePending
  <2>6. OneDocument'
    BY <1>1, <1>2, <1>3, <1>6, DocumentTaken
  <2> QED
    BY <1>4, <2>3, <2>4, <2>5, <2>6 DEF ThemeInv
<1>7. CASE /\ job.kind = "document"
           /\ transfer' = IF transfer = "reading" THEN "read" ELSE "written"
           /\ UNCHANGED <<disk, save>>
  <2>1. SaveInFlight' /\ Fits(themes)' /\ Fits(disk.themes)'
    BY <1>1, <1>2, <1>3, <1>7, OtherWriteRan
  <2>2. ThemeStateTyped'
    BY <1>2, <1>3, <1>7, <2>1 DEF ThemeStateTyped, outside
  <2>3. OneDialog'
    <3>1. transfer \in {"reading", "writing"}
      BY <1>1, <1>2, <1>3, <1>7, TakenWrite DEF OneDocument
    <3> QED
      BY <1>2, <1>3, <1>7, <3>1 DEF OneDialog, SavePending
  <2>4. OneDocument'
    BY <1>1, <1>2, <1>3, <1>7, DocumentTaken
  <2> QED
    BY <1>4, <2>1, <2>2, <2>3, <2>4 DEF ThemeInv
<1> QED
  BY <1>1, <1>5, <1>6, <1>7 DEF RunJob

\* finish_custom_theme_save finds the list that was written, and nothing else
\* is on its way.
LEMMA SavedIs ==
  ASSUME ThemeInv, save.kind \in {"edited", "imported", "deleted"}, save.reply = "saved"
  PROVE  /\ SavePending /\ save \in ThemeSaves /\ save.id \in Nat
         /\ NoListWaits /\ IsOutcome(disk.themes) /\ Fits(disk.themes)
         /\ transfer = "idle" /\ confirm = 0
         /\ disk.themes \in ThemeLists
<1>1. SavePending
  BY DEF SavePending, NoSave
<1>2. save \in ThemeSaves /\ save.id \in Nat
  BY <1>1 DEF ThemeInv, ThemeStateTyped, SavePending, ThemeSaves
<1> QED
  BY <1>1, <1>2 DEF ThemeInv, ThemeStateTyped, SaveInFlight, OneDialog

\* With the save answered, the window and the store agree.
LEMMA SavesEnd ==
  ASSUME ThemeStateTyped, NoListWaits, save' = NoSave, UNCHANGED <<disk, spent>>,
         themes' = disk.themes,
         \/ UNCHANGED writes
         \/ \E s \in ThemeSettings : writes' = Append(writes, WriteSettings(s))
  PROVE  /\ SaveInFlight' /\ ~SavePending' /\ Fits(themes)' /\ Fits(disk.themes)'
         /\ writes' \in Seq(ThemeWrites)
<1>1. writes' \in Seq(ThemeWrites) /\ NoListWaits'
  <2>1. CASE UNCHANGED writes
    BY <2>1 DEF ThemeStateTyped, NoListWaits
  <2>2. CASE \E s \in ThemeSettings : writes' = Append(writes, WriteSettings(s))
    <3>1. PICK job \in ThemeWrites : job.kind # "themes" /\ writes' = Append(writes, job)
      BY <2>2, WritesAre
    <3>2. /\ Len(writes) \in Nat /\ Len(writes') = Len(writes) + 1
          /\ \A i \in 1 .. Len(writes) : writes'[i] = writes[i]
          /\ writes'[Len(writes) + 1] = job /\ writes' \in Seq(ThemeWrites)
      BY <3>1 DEF ThemeStateTyped
    <3> QED
      BY <3>1, <3>2 DEF NoListWaits
  <2> QED
    BY <2>1, <2>2
<1>2. ~SavePending'
  BY DEF SavePending
<1>3. SaveInFlight'
  BY <1>1, <1>2 DEF SaveInFlight
<1>4. Fits(themes)' /\ Fits(disk.themes)'
  BY DEF ThemeStateTyped, Fits
<1> QED
  BY <1>1, <1>2, <1>3, <1>4

LEMMA FinishEditedStep ==
  ASSUME ThemeAssumption, ThemeInv, FinishEdited
  PROVE  ThemeInv'
<1>1. PICK s : s = [theme |-> Custom(save.id), follow |-> FALSE]
  OBVIOUS
<1>2. /\ save.kind = "edited" /\ save.reply = "saved" /\ save' = NoSave
      /\ themes' = disk.themes /\ form' = NoForm /\ preview' = NoDraft
      /\ settings' = s /\ palette' = Apply(NoDraft, settings', themes')
      /\ writes' = Append(writes, WriteSettings(s))
      /\ UNCHANGED <<disk, confirm, transfer, scheduled, dirty, awaiting, outside, spent>>
  BY <1>1 DEF FinishEdited
<1>3. ThemeStateTyped /\ OneDocument
  BY DEF ThemeInv
<1>4. /\ save.id \in Nat /\ NoListWaits /\ IsOutcome(disk.themes)
      /\ transfer = "idle" /\ confirm = 0 /\ disk.themes \in ThemeLists
  BY <1>2, SavedIs
<1>5. s \in ThemeSettings /\ s.theme[1] = "custom" /\ s.theme[2] = save.id
  BY <1>1, <1>4 DEF ThemeSettings, ThemeSelections, Custom
<1>6. /\ SaveInFlight' /\ ~SavePending' /\ Fits(themes)' /\ Fits(disk.themes)'
      /\ writes' \in Seq(ThemeWrites)
  BY <1>2, <1>3, <1>4, <1>5, SavesEnd
<1>7. palette' \in Palettes
  <2>1. Apply(NoDraft, s, disk.themes) \in Palettes
    BY <1>3, <1>4, <1>5, AppliedIs DEF ThemeStateTyped
  <2> QED
    BY <1>2, <2>1
<1>8. ThemeStateTyped'
  BY <1>2, <1>3, <1>4, <1>5, <1>6, <1>7 DEF ThemeStateTyped, outside
<1>9. OneDialog'
  BY <1>2, <1>4, <1>6 DEF OneDialog, NoForm
<1>10. OneDocument'
  BY <1>2, <1>3, <1>5, DocumentsWait, WritesAre, KindsAre
<1>11. save.id \in DOMAIN disk.themes
  <2>1. PICK made \in SavedThemes : disk.themes = With(themes, save.id, made)
    BY <1>2, <1>4 DEF IsOutcome
  <2> QED
    BY <2>1 DEF With
<1>12. Wears'
  <2>1. SelectionIsListed'
    BY <1>2, <1>5, <1>11 DEF SelectionIsListed
  <2>2. Apply(preview, settings, themes)' = Apply(NoDraft, settings', themes')
    BY <1>2 DEF outside, Apply, EffectiveTheme, Resolve
  <2> QED
    BY <1>2, <2>1, <2>2 DEF ThemeInv, Wears
<1> QED
  BY <1>6, <1>8, <1>9, <1>10, <1>12 DEF ThemeInv

LEMMA FinishImportedStep ==
  ASSUME ThemeAssumption, ThemeInv, FinishImported
  PROVE  ThemeInv'
<1>1. /\ save.kind = "imported" /\ save.reply = "saved" /\ save' = NoSave
      /\ themes' = disk.themes
      /\ UNCHANGED <<settings, disk, writes, palette, awaiting, outside, spent, editing>>
  BY DEF FinishImported
<1>2. ThemeStateTyped /\ OneDocument /\ ~form.open
  BY <1>1, SavedIs DEF ThemeInv, OneDialog
<1>3. /\ save.id \in Nat /\ NoListWaits /\ IsOutcome(disk.themes)
      /\ transfer = "idle" /\ confirm = 0 /\ disk.themes \in ThemeLists
  BY <1>1, SavedIs
<1>4. /\ SaveInFlight' /\ ~SavePending' /\ Fits(themes)' /\ Fits(disk.themes)'
      /\ writes' \in Seq(ThemeWrites)
  BY <1>1, <1>2, <1>3, SavesEnd
<1>5. ThemeStateTyped'
  BY <1>1, <1>2, <1>3, <1>4 DEF ThemeStateTyped, outside, editing
<1>6. OneDialog'
  BY <1>1, <1>2, <1>3, <1>4 DEF ThemeInv, OneDialog, editing
<1>7. OneDocument'
  BY <1>1, <1>2, DocumentsRest DEF editing
<1>8. Wears'
  <2>1. PICK made \in SavedThemes : disk.themes = With(themes, save.id, made)
    BY <1>1, <1>3 DEF IsOutcome
  <2>2. save.id \notin DOMAIN themes
    BY <1>1, <1>3 DEF IsOutcome
  <2>3. \A id \in DOMAIN themes : id \in DOMAIN themes' /\ themes'[id] = themes[id]
    BY <1>1, <2>1, <2>2 DEF With
  <2>4. SelectionIsListed =>
          SelectionIsListed' /\ Apply(preview, settings, themes)' = Apply(preview, settings, themes)
    <3> SUFFICES ASSUME SelectionIsListed
                 PROVE  /\ SelectionIsListed'
                        /\ Apply(preview, settings, themes)' = Apply(preview, settings, themes)
      OBVIOUS
    <3>1. SelectionIsListed'
      BY <1>1, <2>3 DEF SelectionIsListed
    <3>2. EffectiveTheme(settings, themes', light) = EffectiveTheme(settings, themes, light)
      BY <1>1, <1>2, <1>3, <2>3, SameMeaning DEF SelectionIsListed, ThemeStateTyped
    <3>3. Apply(preview, settings, themes)' =
            IF preview # NoDraft THEN preview
            ELSE EffectiveTheme(settings, themes', light).palette
      BY <1>1 DEF outside, editing, Apply, EffectiveTheme, Resolve
    <3> QED
      BY <3>1, <3>2, <3>3 DEF Apply
  <2> QED
    BY <1>1, <2>4 DEF ThemeInv, Wears, editing
<1> QED
  BY <1>4, <1>5, <1>6, <1>7, <1>8 DEF ThemeInv

LEMMA FinishDeletedStep ==
  ASSUME ThemeAssumption, ThemeInv, FinishDeleted
  PROVE  ThemeInv'
<1>1. /\ save.kind = "deleted" /\ save.reply = "saved" /\ save' = NoSave
      /\ themes' = disk.themes
      /\ UNCHANGED <<disk, awaiting, outside, spent, editing>>
  BY DEF FinishDeleted
<1>2. ThemeStateTyped /\ OneDocument /\ ~form.open /\ preview = NoDraft
  BY <1>1, SavedIs DEF ThemeInv, OneDialog
<1>3. /\ save \in ThemeSaves /\ save.id \in Nat /\ NoListWaits /\ IsOutcome(disk.themes)
      /\ transfer = "idle" /\ confirm = 0 /\ disk.themes \in ThemeLists
  BY <1>1, SavedIs
<1>4. save.base \in BuiltIn
  BY <1>1, <1>3 DEF ThemeSaves
<1>5. disk.themes = Without(themes, save.id)
  BY <1>1, <1>3 DEF IsOutcome
<1>6. CASE settings.theme = Custom(save.id)
  <2>1. PICK s : s = [settings EXCEPT !.theme = Choice(save.base)]
    OBVIOUS
  <2>2. /\ settings' = s /\ palette' = Apply(preview, settings', themes')
        /\ writes' = Append(writes, WriteSettings(s))
    BY <1>6, <2>1 DEF FinishDeleted
  <2>3. s \in ThemeSettings /\ s.theme[1] = "builtin"
    BY <1>2, <1>4, <2>1 DEF ThemeStateTyped, ThemeSettings, ThemeSelections, Choice
  <2>4. /\ SaveInFlight' /\ ~SavePending' /\ Fits(themes)' /\ Fits(disk.themes)'
        /\ writes' \in Seq(ThemeWrites)
    BY <1>1, <1>2, <1>3, <2>2, <2>3, SavesEnd
  <2>5. palette' \in Palettes
    <3>1. Apply(preview, s, disk.themes) \in Palettes
      BY <1>2, <1>3, <2>3, AppliedIs DEF ThemeStateTyped
    <3> QED
      BY <1>1, <2>2, <3>1
  <2>6. ThemeStateTyped'
    BY <1>1, <1>2, <1>3, <2>2, <2>3, <2>4, <2>5 DEF ThemeStateTyped, outside, editing
  <2>7. OneDialog'
    BY <1>1, <1>2, <1>3, <2>4 DEF ThemeInv, OneDialog, editing
  <2>8. OneDocument'
    BY <1>1, <1>2, <2>2, <2>3, DocumentsWait, WritesAre, KindsAre DEF editing
  <2>9. Wears'
    <3>1. SelectionIsListed'
      BY <2>2, <2>3 DEF SelectionIsListed
    <3>2. Apply(preview, settings, themes)' = Apply(preview, settings', themes')
      BY <1>1 DEF outside, editing, Apply, EffectiveTheme, Resolve
    <3> QED
      BY <1>1, <2>2, <3>1, <3>2 DEF ThemeInv, Wears, editing
  <2> QED
    BY <2>4, <2>6, <2>7, <2>8, <2>9 DEF ThemeInv
<1>7. CASE settings.theme # Custom(save.id)
  <2>1. UNCHANGED <<settings, palette, writes>>
    BY <1>7 DEF FinishDeleted
  <2>2. /\ SaveInFlight' /\ ~SavePending' /\ Fits(themes)' /\ Fits(disk.themes)'
        /\ writes' \in Seq(ThemeWrites)
    BY <1>1, <1>2, <1>3, <2>1, SavesEnd
  <2>3. ThemeStateTyped'
    BY <1>1, <1>2, <1>3, <2>1, <2>2 DEF ThemeStateTyped, outside, editing
  <2>4. OneDialog'
    BY <1>1, <1>2, <1>3, <2>2 DEF ThemeInv, OneDialog, editing
  <2>5. OneDocument'
    BY <1>1, <1>2, <2>1, DocumentsRest DEF editing
  <2>6. Wears'
    <3>1. \A id \in DOMAIN themes : id # save.id =>
            id \in DOMAIN themes' /\ themes'[id] = themes[id]
      BY <1>1, <1>5 DEF Without
    <3>2. settings.theme[1] = "custom" => settings.theme[2] # save.id
      BY <1>2, <1>7, SelectionIs DEF ThemeStateTyped
    <3>3. SelectionIsListed =>
            SelectionIsListed' /\ Apply(preview, settings, themes)' = Apply(preview, settings, themes)
      <4> SUFFICES ASSUME SelectionIsListed
                   PROVE  /\ SelectionIsListed'
                          /\ Apply(preview, settings, themes)' = Apply(preview, settings, themes)
        OBVIOUS
      <4>1. SelectionIsListed'
        BY <2>1, <3>1, <3>2 DEF SelectionIsListed
      <4>2. EffectiveTheme(settings, themes', light) = EffectiveTheme(settings, themes, light)
        BY <1>1, <1>2, <1>3, <3>1, <3>2, SameMeaning DEF SelectionIsListed, ThemeStateTyped
      <4>3. Apply(preview, settings, themes)' =
              IF preview # NoDraft THEN preview
              ELSE EffectiveTheme(settings, themes', light).palette
        BY <1>1, <2>1 DEF outside, editing, Apply, EffectiveTheme, Resolve
      <4> QED
        BY <4>1, <4>2, <4>3 DEF Apply
    <3> QED
      BY <1>1, <2>1, <3>3 DEF ThemeInv, Wears, editing
  <2> QED
    BY <2>2, <2>3, <2>4, <2>5, <2>6 DEF ThemeInv
<1> QED
  BY <1>6, <1>7

LEMMA FinishFailedStep ==
  ASSUME ThemeAssumption, ThemeInv, FinishFailed
  PROVE  ThemeInv'
<1>1. /\ SavePending /\ save.reply = "failed" /\ save' = NoSave
      /\ form' = IF save.kind = "edited" THEN [form EXCEPT !.pending = FALSE] ELSE form
      /\ UNCHANGED <<themes, settings, disk, writes, confirm, transfer, preview,
                     scheduled, dirty, palette, awaiting, outside, spent>>
  BY DEF FinishFailed
<1>2. ThemeStateTyped /\ OneDocument /\ NoListWaits /\ themes = disk.themes
      /\ transfer = "idle" /\ confirm = 0
  BY <1>1 DEF ThemeInv, SaveInFlight, OneDialog
<1>3. /\ SaveInFlight' /\ ~SavePending' /\ Fits(themes)' /\ Fits(disk.themes)'
      /\ writes' \in Seq(ThemeWrites)
  BY <1>1, <1>2, SavesEnd
<1>4. /\ form' \in Editors \cup {NoForm}
      /\ form'.open <=> form.open
      /\ form'.open => ~form'.pending
  <2>1. CASE save.kind = "edited"
    <3>1. form.open
      BY <1>1, <2>1 DEF ThemeInv, OneDialog
    <3> QED
      BY <1>1, <2>1, <3>1, EditorIsAlone DEF Editors
  <2>2. CASE save.kind # "edited"
    BY <1>1, <1>2, <2>2 DEF ThemeInv, ThemeStateTyped, OneDialog
  <2> QED
    BY <2>1, <2>2
<1>5. ThemeStateTyped'
  BY <1>1, <1>2, <1>3, <1>4 DEF ThemeStateTyped, outside
<1>6. OneDialog'
  BY <1>1, <1>2, <1>3, <1>4 DEF ThemeInv, OneDialog
<1>7. OneDocument'
  BY <1>1, <1>2, DocumentsRest
<1>8. Wears'
  BY <1>1, WearsOn
<1> QED
  BY <1>3, <1>5, <1>6, <1>7, <1>8 DEF ThemeInv

-----------------------------------------------------------------------------
(* The picker, the frame, and what happens outside.                         *)

\* A choice of the settings is written behind whatever waits.
LEMMA SettingsChosen ==
  ASSUME ThemeInv, NEW s \in ThemeSettings, settings' = s,
         writes' = Append(writes, WriteSettings(s)), palette' \in Palettes,
         awaiting' \in BOOLEAN, SpentTyped', spent'.saves = spent.saves,
         UNCHANGED <<themes, disk, save, editing, outside>>
  PROVE  ThemeStateTyped' /\ SaveInFlight' /\ OneDialog' /\ OneDocument'
<1>1. /\ SaveInFlight' /\ Fits(themes)' /\ Fits(disk.themes)' /\ writes' \in Seq(ThemeWrites)
  BY SavesWait, WritesAre DEF ThemeInv
<1>2. ThemeStateTyped'
  BY <1>1 DEF ThemeInv, ThemeStateTyped, SpentTyped, outside, editing
<1>3. OneDialog'
  BY DEF ThemeInv, OneDialog, SavePending, editing
<1>4. OneDocument'
  BY DocumentsWait, WritesAre, KindsAre DEF ThemeInv, editing
<1> QED
  BY <1>1, <1>2, <1>3, <1>4

LEMMA ChooseThemeStep ==
  ASSUME ThemeAssumption, ThemeInv, NEW sel \in Selections, ChooseTheme(sel)
  PROVE  ThemeInv'
<1>1. PICK s : s = [theme |-> sel, follow |-> FALSE]
  OBVIOUS
<1>2. /\ ~form.open /\ Spend("choices", MaxSwitches)
      /\ sel[1] = "custom" => sel[2] \in DOMAIN themes
      /\ settings' = s /\ writes' = Append(writes, WriteSettings(s))
      /\ awaiting' = (sel = Omarchy)
      /\ palette' = IF sel = Omarchy THEN palette ELSE Apply(preview, settings', themes)
      /\ UNCHANGED <<themes, disk, save, editing, outside>>
  BY <1>1 DEF ChooseTheme, NoModal
<1>3. ThemeStateTyped /\ preview = NoDraft
  BY <1>2 DEF ThemeInv, OneDialog
<1>4. sel \in ThemeSelections
  BY <1>3, ListsAre DEF Selections, ThemeSelections, ThemeStateTyped
<1>5. s \in ThemeSettings /\ s.theme = sel
  BY <1>1, <1>4 DEF ThemeSettings
<1>6. SpentTyped' /\ spent'.saves = spent.saves /\ spent'.crashes = spent.crashes
  BY <1>2, <1>3, SpendIs DEF SpentTyped
<1>7. palette' \in Palettes
  <2>1. Apply(preview, s, themes) \in Palettes
    BY <1>3, <1>5, AppliedIs DEF ThemeStateTyped
  <2> QED
    BY <1>2, <1>3, <2>1 DEF ThemeStateTyped
<1>8. ThemeStateTyped' /\ SaveInFlight' /\ OneDialog' /\ OneDocument'
  BY <1>2, <1>5, <1>6, <1>7, SettingsChosen
<1>9. Wears'
  <2>1. SelectionIsListed'
    BY <1>2, <1>5 DEF SelectionIsListed
  <2>2. Apply(preview, settings, themes)' = Apply(preview, settings', themes)
    BY <1>2 DEF outside, editing, Apply, EffectiveTheme, Resolve
  <2> QED
    BY <1>2, <1>3, <1>6, <2>1, <2>2 DEF ThemeInv, Wears, editing
<1> QED
  BY <1>8, <1>9 DEF ThemeInv

LEMMA SetFollowStep ==
  ASSUME ThemeAssumption, ThemeInv, NEW on \in BOOLEAN, SetFollow(on)
  PROVE  ThemeInv'
<1>1. PICK s : s = [settings EXCEPT !.follow = on]
  OBVIOUS
<1>2. /\ Spend("choices", MaxSwitches)
      /\ settings' = s /\ writes' = Append(writes, WriteSettings(s))
      /\ palette' = Apply(preview, settings', themes)
      /\ UNCHANGED <<themes, disk, save, awaiting, editing, outside>>
  BY <1>1 DEF SetFollow
<1>3. ThemeStateTyped
  BY DEF ThemeInv
<1>4. s \in ThemeSettings /\ s.theme = settings.theme
  BY <1>1, <1>3 DEF ThemeStateTyped, ThemeSettings
<1>5. SpentTyped' /\ spent'.saves = spent.saves /\ spent'.crashes = spent.crashes
  BY <1>2, <1>3, SpendIs DEF SpentTyped
<1>6. palette' \in Palettes /\ awaiting' \in BOOLEAN
  <2>1. Apply(preview, s, themes) \in Palettes
    BY <1>3, <1>4, AppliedIs DEF ThemeStateTyped
  <2> QED
    BY <1>2, <1>3, <2>1 DEF ThemeStateTyped
<1>7. ThemeStateTyped' /\ SaveInFlight' /\ OneDialog' /\ OneDocument'
  BY <1>2, <1>4, <1>5, <1>6, SettingsChosen
<1>8. Wears'
  <2>1. SelectionIsListed => SelectionIsListed'
    BY <1>2, <1>4 DEF SelectionIsListed
  <2>2. Apply(preview, settings, themes)' = Apply(preview, settings', themes)
    BY <1>2 DEF outside, editing, Apply, EffectiveTheme, Resolve
  <2> QED
    BY <1>2, <1>5, <2>1, <2>2 DEF ThemeInv, Wears, editing
<1> QED
  BY <1>7, <1>8 DEF ThemeInv

\* Nothing changes but what is worn, and what it depends on.
LEMMA OnlyWorn ==
  ASSUME ThemeInv, UNCHANGED <<themes, settings, disk, writes, save, form, confirm, transfer,
                               preview>>,
         palette' \in Palettes, awaiting' \in BOOLEAN, light' \in BOOLEAN,
         scheduled' \in BOOLEAN, dirty' \in BOOLEAN, desktop' \in DesktopPalettes,
         SpentTyped', spent'.saves = spent.saves
  PROVE  ThemeStateTyped' /\ SaveInFlight' /\ OneDialog' /\ OneDocument'
<1>1. SaveInFlight' /\ Fits(themes)' /\ Fits(disk.themes)'
  BY SavesRest DEF ThemeInv
<1>2. ThemeStateTyped'
  BY <1>1 DEF ThemeInv, ThemeStateTyped, SpentTyped
<1>3. OneDialog'
  BY DEF ThemeInv, OneDialog, SavePending
<1>4. OneDocument'
  BY DocumentsRest DEF ThemeInv
<1> QED
  BY <1>1, <1>2, <1>3, <1>4

LEMMA ApplyOmarchyChoiceStep ==
  ASSUME ThemeAssumption, ThemeInv, ApplyOmarchyChoice
  PROVE  ThemeInv'
<1>1. /\ awaiting' = FALSE /\ palette' = Apply(preview, settings, themes)
      /\ UNCHANGED <<themes, settings, disk, writes, save, editing, outside, spent>>
  BY DEF ApplyOmarchyChoice
<1>2. /\ palette' \in Palettes /\ SpentTyped' /\ scheduled \in BOOLEAN /\ dirty \in BOOLEAN
      /\ light \in BOOLEAN /\ desktop \in DesktopPalettes
  BY <1>1, AppliedIs DEF ThemeInv, ThemeStateTyped, SpentTyped
<1>3. ThemeStateTyped' /\ SaveInFlight' /\ OneDialog' /\ OneDocument'
  BY <1>1, <1>2, OnlyWorn DEF editing, outside
<1>4. Wears'
  <2>1. Apply(preview, settings, themes)' = Apply(preview, settings, themes)
    BY <1>1 DEF outside, editing, Apply, EffectiveTheme, Resolve
  <2> QED
    BY <1>1, <2>1 DEF ThemeInv, Wears, SelectionIsListed, editing
<1> QED
  BY <1>3, <1>4 DEF ThemeInv

LEMMA NextFrameStep ==
  ASSUME ThemeAssumption, ThemeInv, NextFrame
  PROVE  ThemeInv'
<1>1. /\ scheduled' = FALSE /\ dirty' = FALSE
      /\ palette' = IF dirty /\ preview # NoDraft THEN preview ELSE palette
      /\ UNCHANGED <<themes, settings, disk, writes, save, form, confirm, transfer,
                     preview, awaiting, outside, spent>>
  BY DEF NextFrame
<1>2. /\ palette' \in Palettes /\ SpentTyped' /\ awaiting' \in BOOLEAN
      /\ light' \in BOOLEAN /\ desktop' \in DesktopPalettes
  BY <1>1 DEF ThemeInv, ThemeStateTyped, SpentTyped, outside
<1>3. ThemeStateTyped' /\ SaveInFlight' /\ OneDialog' /\ OneDocument'
  BY <1>1, <1>2, OnlyWorn
<1>4. Wears'
  <2>1. Apply(preview, settings, themes)' = Apply(preview, settings, themes)
    BY <1>1 DEF outside, Apply, EffectiveTheme, Resolve
  <2>2. preview # NoDraft => Apply(preview, settings, themes) = preview
    BY DEF Apply
  <2> QED
    BY <1>1, <2>1, <2>2 DEF ThemeInv, Wears, SelectionIsListed
<1> QED
  BY <1>3, <1>4 DEF ThemeInv

LEMMA AppearanceChangesStep ==
  ASSUME ThemeAssumption, ThemeInv, AppearanceChanges
  PROVE  ThemeInv'
<1>1. /\ Spend("choices", MaxSwitches) /\ light' = ~light
      /\ palette' = IF ~settings.follow THEN palette
                    ELSE IF preview # NoDraft THEN preview
                    ELSE EffectiveTheme(settings, themes, light').palette
      /\ UNCHANGED <<themes, settings, disk, writes, save, awaiting, editing, desktop>>
  BY DEF AppearanceChanges
<1>2. ThemeStateTyped
  BY DEF ThemeInv
<1>3. SpentTyped' /\ spent'.saves = spent.saves /\ spent'.crashes = spent.crashes
  BY <1>1, <1>2, SpendIs DEF SpentTyped
<1>4. /\ palette' \in Palettes /\ light' \in BOOLEAN /\ scheduled \in BOOLEAN
      /\ dirty \in BOOLEAN /\ awaiting \in BOOLEAN /\ desktop \in DesktopPalettes
  BY <1>1, <1>2, EffectiveIs DEF ThemeStateTyped
<1>5. ThemeStateTyped' /\ SaveInFlight' /\ OneDialog' /\ OneDocument'
  BY <1>1, <1>3, <1>4, OnlyWorn DEF editing
<1>6. Wears'
  <2>1. Apply(preview, settings, themes)' =
          IF preview # NoDraft THEN preview ELSE EffectiveTheme(settings, themes, light').palette
    BY <1>1 DEF editing, Apply, EffectiveTheme, Resolve
  <2>2. ~settings.follow =>
          EffectiveTheme(settings, themes, light') = EffectiveTheme(settings, themes, light)
    BY DEF EffectiveTheme
  <2> QED
    BY <1>1, <1>3, <2>1, <2>2 DEF ThemeInv, Wears, SelectionIsListed, Apply, editing
<1> QED
  BY <1>5, <1>6 DEF ThemeInv

LEMMA DesktopChangesStep ==
  ASSUME ThemeAssumption, ThemeInv, DesktopChanges
  PROVE  ThemeInv'
<1>1. PICK p \in DesktopPalettes :
        /\ desktop' = p
        /\ palette' = IF settings.theme = Omarchy /\ ~awaiting /\ preview = NoDraft
                      THEN p ELSE palette
  BY DEF DesktopChanges
<1>2. /\ Spend("choices", MaxSwitches)
      /\ UNCHANGED <<themes, settings, disk, writes, save, awaiting, editing, light>>
  BY DEF DesktopChanges
<1>3. ThemeStateTyped
  BY DEF ThemeInv
<1>4. SpentTyped' /\ spent'.saves = spent.saves /\ spent'.crashes = spent.crashes
  BY <1>2, <1>3, SpendIs DEF SpentTyped
<1>5. /\ palette' \in Palettes /\ light \in BOOLEAN /\ scheduled \in BOOLEAN
      /\ dirty \in BOOLEAN /\ awaiting \in BOOLEAN /\ desktop' \in DesktopPalettes
  BY <1>1, <1>3, DraftsAre DEF ThemeStateTyped
<1>6. ThemeStateTyped' /\ SaveInFlight' /\ OneDialog' /\ OneDocument'
  BY <1>2, <1>4, <1>5, OnlyWorn DEF editing
<1>7. Wears'
  <2>1. CASE settings.theme = Omarchy
    <3>1. Resolve(settings.theme, themes)' = [selection |-> Omarchy, palette |-> p]
      BY <1>1, <1>2, <2>1 DEF Resolve, Omarchy
    <3>2. Apply(preview, settings, themes)' = IF preview # NoDraft THEN preview ELSE p
      BY <1>2, <3>1 DEF editing, Apply, EffectiveTheme
    <3> QED
      BY <1>1, <1>2, <1>4, <2>1, <3>2
      DEF ThemeInv, Wears, SelectionIsListed, Apply, editing
  <2>2. CASE settings.theme # Omarchy
    <3>1. settings.theme[1] # "omarchy"
      BY <1>3, <2>2, SelectionIs DEF ThemeStateTyped
    <3>2. Resolve(settings.theme, themes)' = Resolve(settings.theme, themes)
      BY <1>2, <3>1 DEF Resolve
    <3>3. Apply(preview, settings, themes)' = Apply(preview, settings, themes)
      BY <1>2, <3>2 DEF editing, Apply, EffectiveTheme
    <3> QED
      BY <1>1, <1>2, <1>4, <2>2, <3>3 DEF ThemeInv, Wears, SelectionIsListed, editing
  <2> QED
    BY <2>1, <2>2
<1> QED
  BY <1>6, <1>7 DEF ThemeInv

LEMMA RestartStep ==
  ASSUME ThemeAssumption, ThemeInv, Restart
  PROVE  ThemeInv'
<1>1. /\ Spend("crashes", MaxCrashes)
      /\ themes' = disk.themes /\ settings' = disk.settings
      /\ writes' = <<>> /\ save' = NoSave
      /\ form' = NoForm /\ confirm' = 0 /\ transfer' = "idle"
      /\ preview' = NoDraft /\ scheduled' = FALSE /\ dirty' = FALSE /\ awaiting' = FALSE
      /\ palette' = Apply(NoDraft, settings', themes')
      /\ UNCHANGED <<disk, outside>>
  BY DEF Restart
<1>2. ThemeStateTyped
  BY DEF ThemeInv
<1>3. SpentTyped' /\ spent'.saves = spent.saves /\ spent'.crashes # 0
  BY <1>1, <1>2, SpendIs DEF SpentTyped
<1>4. Fits(themes)' /\ Fits(disk.themes)'
  BY <1>1, <1>2, <1>3 DEF ThemeStateTyped, Fits
<1>5. palette' \in Palettes
  <2>1. Apply(NoDraft, disk.settings, disk.themes) \in Palettes
    BY <1>2, AppliedIs DEF ThemeStateTyped
  <2> QED
    BY <1>1, <2>1
<1>6. ThemeStateTyped'
  <2>1. writes' \in Seq(ThemeWrites)
    BY <1>1
  <2> QED
    BY <1>1, <1>2, <1>3, <1>4, <1>5, <2>1 DEF ThemeStateTyped, SpentTyped, outside
<1>7. SaveInFlight' /\ OneDialog' /\ OneDocument'
  BY <1>1 DEF SaveInFlight, NoListWaits, OneDialog, OneDocument, SavePending, NoForm
<1>8. Wears'
  BY <1>1, <1>3 DEF Wears
<1> QED
  BY <1>6, <1>7, <1>8 DEF ThemeInv

-----------------------------------------------------------------------------
(* The window wears the theme.                                              *)

LEMMA ThemeInitInv ==
  ASSUME ThemeAssumption, ThemeInit
  PROVE  ThemeInv
<1>1. themes = EmptyThemes /\ EmptyThemes \in ThemeLists /\ DOMAIN EmptyThemes = {}
  <2>1. DOMAIN EmptyThemes = {} /\ EmptyThemes = [id \in DOMAIN EmptyThemes |-> EmptyThemes[id]]
    BY DEF EmptyThemes
  <2>2. EmptyThemes \in ThemeLists
    BY <2>1, ListsAre
  <2> QED
    BY <2>1, <2>2 DEF ThemeInit
<1>2. Fits(EmptyThemes)
  BY <1>1, FS_EmptySet DEF Fits, ThemeAssumption
<1>3. Midnight \in BuiltIn /\ MaxSaves \in Nat /\ Midnight \in Palettes
  BY DEF ThemeAssumption, Palettes
<1>4. /\ settings \in ThemeSettings /\ settings.theme[1] = "builtin"
      /\ settings.theme[2] = Midnight /\ settings.follow = FALSE
      /\ settings.theme # Omarchy
  BY <1>3 DEF ThemeInit, ThemeSettings, ThemeSelections, Choice, Omarchy
<1>5. disk \in [themes : ThemeLists, settings : ThemeSettings] /\ disk.themes = EmptyThemes
  BY <1>1, <1>4 DEF ThemeInit
<1>6. ThemeStateTyped
  <2>1. writes \in Seq(ThemeWrites)
    BY DEF ThemeInit
  <2>2. spent \in [saves : 0 .. MaxSaves, choices : Nat, edits : Nat, crashes : Nat]
    BY <1>3 DEF ThemeInit
  <2> QED
    BY <1>1, <1>2, <1>3, <1>4, <1>5, <2>1, <2>2 DEF ThemeInit, ThemeStateTyped
<1>7. SaveInFlight /\ OneDialog /\ OneDocument
  BY <1>1, <1>5
  DEF ThemeInit, SaveInFlight, NoListWaits, OneDialog, OneDocument, SavePending, NoForm
<1>8. Wears
  <2>1. Apply(NoDraft, settings, themes) = Midnight
    BY <1>4 DEF Apply, EffectiveTheme, Resolve
  <2> QED
    BY <1>4, <2>1 DEF ThemeInit, Wears, SelectionIsListed
<1> QED
  BY <1>6, <1>7, <1>8 DEF ThemeInv

LEMMA ThemeStuttering ==
  ASSUME ThemeInv, UNCHANGED themeVars
  PROVE  ThemeInv'
<1>1. SaveInFlight' /\ Fits(themes)' /\ Fits(disk.themes)'
  BY SavesRest DEF ThemeInv, themeVars
<1>2. ThemeStateTyped'
  BY <1>1 DEF ThemeInv, ThemeStateTyped, themeVars
<1>3. OneDialog' /\ OneDocument'
  BY DEF ThemeInv, OneDialog, OneDocument, SavePending, themeVars
<1>4. Wears'
  BY WearsOn DEF themeVars, outside
<1> QED
  BY <1>1, <1>2, <1>3, <1>4 DEF ThemeInv

LEMMA ThemeStep ==
  ASSUME ThemeAssumption, ThemeInv, [ThemeNext]_themeVars
  PROVE  ThemeInv'
<1>1. CASE UNCHANGED themeVars
  BY <1>1, ThemeStuttering
<1>2. CASE NewTheme \/ EditTheme \/ TypeNonsense \/ ResetToBase \/ CloseEditor \/ SubmitForm
  BY <1>2, NewThemeStep, EditThemeStep, TypeNonsenseStep, ResetToBaseStep, CloseEditorStep,
     SubmitFormStep
<1>3. CASE ConfirmDelete \/ KeepTheme \/ DeleteTheme \/ Import \/ Export \/ AnswerDialog
  BY <1>3, ConfirmDeleteStep, KeepThemeStep, DeleteThemeStep, TransferStep, AnswerDialogStep
<1>4. CASE \/ \E color \in Edited : TypeColor(color) \/ PickColor(color)
           \/ \E base \in BuiltIn : ChooseBase(base)
           \/ \E replace \in BOOLEAN : ResolveBase(replace)
  BY <1>4, TypeColorStep, PickColorStep, ChooseBaseStep, ResolveBaseStep
<1>5. CASE \/ \E sel \in Selections : ChooseTheme(sel)
           \/ \E on \in BOOLEAN : SetFollow(on)
  BY <1>5, ChooseThemeStep, SetFollowStep
<1>6. CASE ThemeReplies
  BY <1>6, FinishEditedStep, FinishImportedStep, FinishDeletedStep, FinishFailedStep,
     AddImportedStep, TransferStep, ApplyOmarchyChoiceStep DEF ThemeReplies
<1>7. CASE NextFrame \/ RunJob \/ AppearanceChanges \/ DesktopChanges \/ Restart
  BY <1>7, NextFrameStep, RunJobStep, AppearanceChangesStep, DesktopChangesStep, RestartStep
<1> QED
  BY <1>1, <1>2, <1>3, <1>4, <1>5, <1>6, <1>7 DEF ThemeNext, ThemeUser

LEMMA InvIsWorn ==
  ASSUME ThemeAssumption, ThemeInv
  PROVE  WindowWearsTheTheme
<1>1. ThemeTypeOK
  <2>1. ASSUME NEW list \in ThemeLists, Fits(list)
        PROVE  /\ DOMAIN list \subseteq 1 .. MaxThemes + MaxSaves
               /\ \A id \in DOMAIN list : list[id] \in [base : BuiltIn, palette : Palettes]
    <3>1. /\ spent.saves \in 0 .. MaxSaves /\ MaxSaves \in Nat /\ MaxThemes \in Nat
          /\ DOMAIN list \subseteq 1 .. spent.saves
      BY <2>1 DEF ThemeInv, ThemeStateTyped, Fits, ThemeAssumption
    <3>2. 1 .. spent.saves \subseteq 1 .. MaxThemes + MaxSaves
      BY <3>1
    <3> QED
      BY <3>1, <3>2, ListsAre DEF SavedThemes
  <2>2. \A list \in {themes, disk.themes} :
          /\ DOMAIN list \subseteq 1 .. MaxThemes + MaxSaves
          /\ \A id \in DOMAIN list : list[id] \in [base : BuiltIn, palette : Palettes]
    BY <2>1 DEF ThemeInv, ThemeStateTyped
  <2>3. \A s \in {settings, disk.settings} :
          s.follow \in BOOLEAN /\ s.theme[1] \in {"builtin", "custom", "omarchy"}
    BY SelectionIs DEF ThemeInv, ThemeStateTyped
  <2>4. Cardinality(DOMAIN themes) <= MaxThemes
    BY DEF ThemeInv, ThemeStateTyped, Fits
  <2>5. {scheduled, dirty, awaiting, light} \subseteq BOOLEAN /\ palette \in Palettes
    BY DEF ThemeInv, ThemeStateTyped
  <2>6. /\ form.open <=> preview # NoDraft
        /\ transfer \in {"idle", "dialog", "reading", "read", "naming", "writing", "written"}
    BY DEF ThemeInv, ThemeStateTyped, OneDialog
  <2> QED
    BY <2>2, <2>3, <2>4, <2>5, <2>6 DEF ThemeTypeOK
<1>2. ListMatchesStore
  BY DEF ThemeInv, SaveInFlight, ListMatchesStore
<1>3. spent.crashes = 0 => SelectionIsListed /\ WearsTheTheme
  BY DEF ThemeInv, Wears, OneDialog, WearsTheTheme
<1> QED
  BY <1>1, <1>2, <1>3 DEF WindowWearsTheTheme

(***************************************************************************)
(* Whatever is saved, imported, deleted, chosen, previewed or changed on   *)
(* the desktop, in any order and with writes that fail, the list shown is  *)
(* the one saved, and until the program stops the window wears the draft   *)
(* or what the settings mean (theme_editor.rs:723, :1358; settings.rs:893).*)
(***************************************************************************)
THEOREM ThemeIsWorn ==
  ASSUME ThemeAssumption
  PROVE  ThemeSpec => []WindowWearsTheTheme
<1>1. ThemeInit => ThemeInv
  BY ThemeInitInv
<1>2. ThemeInv /\ [ThemeNext]_themeVars => ThemeInv'
  BY ThemeStep
<1>3. ThemeInv => WindowWearsTheTheme
  BY InvIsWorn
<1> QED
  BY <1>1, <1>2, <1>3, PTL DEF ThemeSpec

-----------------------------------------------------------------------------
(* The pane of projects.                                                   *)

\* A list as the edits keep it: no project and no group is listed twice.
OneEach(lib) == \A i, j \in DOMAIN lib : lib[i].item = lib[j].item => i = j

SoundList(lib) == lib \in Seq(Entry) /\ OneEach(lib)

\* The entries of a list, and what they list.
LEMMA EntriesAre ==
  ASSUME NEW lib \in Seq(Entry)
  PROVE  /\ Len(lib) \in Nat /\ DOMAIN lib = 1 .. Len(lib)
         /\ \A i \in DOMAIN lib : lib[i] \in Entry /\ lib[i].item \in Items(lib)
         /\ Items(lib) \subseteq Projects \cup GroupIds
         /\ Groups(lib) \subseteq GroupIds
         /\ ToSet(lib) = {lib[i] : i \in DOMAIN lib}
<1>1. \A i \in DOMAIN lib : lib[i] \in Entry
  OBVIOUS
<1>2. Items(lib) \subseteq Projects \cup GroupIds
  BY <1>1 DEF Items, Entry
<1> QED
  BY <1>1, <1>2 DEF Items, Groups, ToSet

\* At finds what is listed.
LEMMA AtIs ==
  ASSUME NEW lib, NEW item \in Items(lib)
  PROVE  At(lib, item) \in DOMAIN lib /\ lib[At(lib, item)].item = item
BY DEF Items, At

\* What is left when one entry is removed.
LEMMA RemovingOne ==
  ASSUME NEW lib, SoundList(lib), NEW i \in DOMAIN lib
  PROVE  /\ SoundList(RemoveAt(lib, i))
         /\ ToSet(RemoveAt(lib, i)) = ToSet(lib) \ {lib[i]}
         /\ Items(RemoveAt(lib, i)) = Items(lib) \ {lib[i].item}
<1> DEFINE before == SubSeq(lib, 1, i - 1)
           after == SubSeq(lib, i + 1, Len(lib))
           left == RemoveAt(lib, i)
<1>1. /\ lib \in Seq(Entry) /\ Len(lib) \in Nat /\ i \in 1 .. Len(lib) /\ DOMAIN lib = 1 .. Len(lib)
      /\ \A j \in 1 .. Len(lib) : lib[j] \in Entry
  BY EntriesAre DEF SoundList
<1>2. /\ before \in Seq(Entry) /\ Len(before) = i - 1
      /\ \A j \in 1 .. i - 1 : before[j] = lib[j]
  BY <1>1, SubSeqProperties
<1>3. /\ after \in Seq(Entry) /\ Len(after) = Len(lib) - i
      /\ \A j \in 1 .. Len(lib) - i : after[j] = lib[j + i]
  BY <1>1, SubSeqProperties
<1>4. left = before \o after
  BY DEF RemoveAt
<1> HIDE DEF before, after, left
<1>5. /\ left \in Seq(Entry) /\ Len(left) = Len(lib) - 1
      /\ \A j \in 1 .. Len(lib) - 1 :
           left[j] = IF j <= i - 1 THEN before[j] ELSE after[j - (i - 1)]
  <2>1. /\ left \in Seq(Entry) /\ Len(left) = Len(before) + Len(after)
        /\ \A j \in 1 .. Len(before) + Len(after) :
             left[j] = IF j <= Len(before) THEN before[j] ELSE after[j - Len(before)]
    BY <1>2, <1>3, <1>4, ConcatProperties
  <2>2. Len(before) + Len(after) = Len(lib) - 1
    BY <1>1, <1>2, <1>3
  <2> QED
    BY <1>2, <2>1, <2>2
<1>6. \A j \in 1 .. Len(lib) - 1 : left[j] = lib[IF j < i THEN j ELSE j + 1]
  <2> SUFFICES ASSUME NEW j \in 1 .. Len(lib) - 1
               PROVE  left[j] = lib[IF j < i THEN j ELSE j + 1]
    OBVIOUS
  <2>1. CASE j < i
    <3>1. j \in 1 .. i - 1
      BY <1>1, <2>1
    <3> QED
      BY <1>1, <1>2, <1>5, <2>1, <3>1
  <2>2. CASE ~(j < i)
    <3>1. j - (i - 1) \in 1 .. Len(lib) - i /\ j - (i - 1) + i = j + 1 /\ ~(j <= i - 1)
      BY <1>1, <2>2
    <3>2. left[j] = after[j - (i - 1)]
      BY <1>5, <3>1
    <3> QED
      BY <1>3, <2>2, <3>1, <3>2
  <2> QED
    BY <2>1, <2>2
<1>7. DOMAIN left = 1 .. Len(lib) - 1
  BY <1>1, <1>5
<1>8. OneEach(left)
  <2> SUFFICES ASSUME NEW j \in 1 .. Len(lib) - 1, NEW k \in 1 .. Len(lib) - 1,
                      left[j].item = left[k].item
               PROVE  j = k
    BY <1>7 DEF OneEach
  <2> DEFINE J == IF j < i THEN j ELSE j + 1
             K == IF k < i THEN k ELSE k + 1
  <2>1. J \in 1 .. Len(lib) /\ K \in 1 .. Len(lib)
    BY <1>1
  <2>2. lib[J].item = lib[K].item
    BY <1>6
  <2>3. J = K
    <3> HIDE DEF J, K
    <3> QED
      BY <1>1, <2>1, <2>2 DEF SoundList, OneEach
  <2> QED
    BY <1>1, <2>3
<1>9. \A j \in 1 .. Len(lib) : j # i =>
        \E k \in 1 .. Len(lib) - 1 : left[k] = lib[j]
  <2> SUFFICES ASSUME NEW j \in 1 .. Len(lib), j # i
               PROVE  \E k \in 1 .. Len(lib) - 1 : left[k] = lib[j]
    OBVIOUS
  <2>1. CASE j < i
    <3>1. j \in 1 .. Len(lib) - 1 /\ left[j] = lib[j]
      BY <1>1, <1>6, <2>1
    <3> QED
      BY <3>1
  <2>2. CASE ~(j < i)
    <3>1. j - 1 \in 1 .. Len(lib) - 1 /\ ~(j - 1 < i) /\ (j - 1) + 1 = j
      BY <1>1, <2>2
    <3>2. left[j - 1] = lib[(j - 1) + 1]
      BY <1>6, <3>1
    <3> QED
      BY <3>1, <3>2
  <2> QED
    BY <2>1, <2>2
<1>10. \A j \in 1 .. Len(lib) - 1 : \E k \in 1 .. Len(lib) : k # i /\ left[j] = lib[k]
  BY <1>1, <1>6
<1>11. \A k \in 1 .. Len(lib) : k # i => lib[k].item # lib[i].item
  BY <1>1 DEF SoundList, OneEach
<1>12. ToSet(left) = {left[j] : j \in 1 .. Len(lib) - 1} /\ ToSet(lib) = {lib[j] : j \in 1 .. Len(lib)}
  BY <1>1, <1>7 DEF ToSet
<1>13. ToSet(left) = ToSet(lib) \ {lib[i]}
  <2>1. \A e \in ToSet(left) : e \in ToSet(lib) /\ e # lib[i]
    BY <1>10, <1>11, <1>12
  <2>2. \A e \in ToSet(lib) : e # lib[i] => e \in ToSet(left)
    BY <1>9, <1>12
  <2> QED
    BY <2>1, <2>2, <1>11, <1>12
<1>14. Items(left) = Items(lib) \ {lib[i].item}
  <2>1. Items(left) = {left[j].item : j \in 1 .. Len(lib) - 1}
    BY <1>7 DEF Items
  <2>2. Items(lib) = {lib[j].item : j \in 1 .. Len(lib)}
    BY <1>1 DEF Items
  <2>3. \A x \in Items(left) : x \in Items(lib) /\ x # lib[i].item
    BY <1>10, <1>11, <2>1, <2>2
  <2>4. \A x \in Items(lib) : x # lib[i].item => x \in Items(left)
    BY <1>9, <2>1, <2>2
  <2> QED
    BY <2>3, <2>4
<1> QED
  BY <1>5, <1>8, <1>13, <1>14 DEF left, SoundList

\* A list with one entry more.
LEMMA AppendingOne ==
  ASSUME NEW lib, SoundList(lib), NEW e \in Entry, e.item \notin Items(lib)
  PROVE  /\ SoundList(Append(lib, e))
         /\ ToSet(Append(lib, e)) = ToSet(lib) \cup {e}
         /\ Items(Append(lib, e)) = Items(lib) \cup {e.item}
<1> DEFINE more == Append(lib, e)
<1>1. /\ lib \in Seq(Entry) /\ Len(lib) \in Nat /\ DOMAIN lib = 1 .. Len(lib)
      /\ \A i \in 1 .. Len(lib) : lib[i].item # e.item
  BY EntriesAre DEF SoundList
<1>2. /\ more \in Seq(Entry) /\ Len(more) = Len(lib) + 1
      /\ \A i \in 1 .. Len(lib) : more[i] = lib[i]
      /\ more[Len(lib) + 1] = e
  BY <1>1, AppendProperties
<1> HIDE DEF more
<1>3. DOMAIN more = 1 .. Len(lib) + 1 /\ \A i \in DOMAIN more : i \in 1 .. Len(lib) \/ i = Len(lib) + 1
  BY <1>1, <1>2
<1>3a. 1 .. Len(lib) \subseteq DOMAIN more /\ Len(lib) + 1 \in DOMAIN more
  BY <1>1, <1>3
<1>4. OneEach(more)
  <2> SUFFICES ASSUME NEW i \in DOMAIN more, NEW j \in DOMAIN more, more[i].item = more[j].item
               PROVE  i = j
    BY DEF OneEach
  <2>1. CASE i \in 1 .. Len(lib) /\ j \in 1 .. Len(lib)
    BY <1>1, <1>2, <2>1 DEF SoundList, OneEach
  <2> QED
    BY <1>1, <1>2, <1>3, <2>1
<1>5. ToSet(more) = ToSet(lib) \cup {e}
  BY <1>1, <1>2, <1>3, <1>3a DEF ToSet
<1>6. Items(more) = Items(lib) \cup {e.item}
  BY <1>1, <1>2, <1>3, <1>3a DEF Items
<1> QED
  BY <1>2, <1>4, <1>5, <1>6 DEF more, SoundList

\* forget_project, and detaching an entry that moves: only that entry goes.
LEMMA DetachedIs ==
  ASSUME NEW lib, SoundList(lib), NEW item
  PROVE  /\ SoundList(Detached(lib, item))
         /\ Items(Detached(lib, item)) = Items(lib) \ {item}
<1>1. CASE item \in Items(lib)
  BY <1>1, AtIs, RemovingOne DEF Detached
<1> QED
  BY <1>1 DEF Detached

\* move_project and move_group: every entry stays listed.
LEMMA MoveIs ==
  ASSUME NEW lib, SoundList(lib), NEW item \in Items(lib), NEW into \in {Top} \cup GroupIds
  PROVE  SoundList(Move(lib, item, into)) /\ Items(Move(lib, item, into)) = Items(lib)
<1> DEFINE e == [lib[At(lib, item)] EXCEPT !.into = into]
<1>1. lib[At(lib, item)] \in Entry /\ lib[At(lib, item)].item = item
  BY AtIs, EntriesAre DEF SoundList
<1>2. e \in Entry /\ e.item = item
  BY <1>1 DEF Entry
<1>3. Move(lib, item, into) = Append(Detached(lib, item), e)
  BY DEF Move, Attach
<1> HIDE DEF e
<1>4. e.item \notin Items(Detached(lib, item))
  BY <1>2, DetachedIs
<1>5. /\ SoundList(Append(Detached(lib, item), e))
      /\ Items(Append(Detached(lib, item), e)) = Items(Detached(lib, item)) \cup {e.item}
  BY <1>2, <1>4, DetachedIs, AppendingOne
<1> QED
  BY <1>2, <1>3, <1>5, DetachedIs

\* set_collapsed: every entry stays listed.
LEMMA SetCollapsedIs ==
  ASSUME NEW lib, SoundList(lib), NEW id \in Items(lib), NEW collapsed \in BOOLEAN
  PROVE  /\ SoundList(SetCollapsed(lib, id, collapsed))
         /\ Items(SetCollapsed(lib, id, collapsed)) = Items(lib)
<1> DEFINE i == At(lib, id)
           e == [lib[i] EXCEPT !.collapsed = collapsed]
           new == SetCollapsed(lib, id, collapsed)
<1>1. i \in 1 .. Len(lib) /\ lib \in Seq(Entry) /\ lib[i] \in Entry /\ DOMAIN lib = 1 .. Len(lib)
  BY AtIs, EntriesAre DEF SoundList
<1>2. e \in Entry /\ e.item = lib[i].item
  BY <1>1 DEF Entry
<1>3. new = [lib EXCEPT ![i] = e]
  BY DEF SetCollapsed
<1> HIDE DEF i, e, new
<1>4. /\ new \in Seq(Entry) /\ DOMAIN new = DOMAIN lib
      /\ \A j \in DOMAIN lib : new[j].item = lib[j].item
  BY <1>1, <1>2, <1>3, ExceptSeq
<1> QED
  BY <1>4 DEF SoundList, OneEach, Items, new

\* The number of a new group is no listed one's.
LEMMA GroupIsNew ==
  ASSUME NEW lib, SoundList(lib), LibraryAssumption, NextGroupId(lib) <= MaxId
  PROVE  NextGroupId(lib) \in GroupIds /\ NextGroupId(lib) \notin Items(lib)
<1>1. Groups(lib) \subseteq 1 .. MaxId /\ MaxId \in Nat
  BY EntriesAre DEF SoundList, GroupIds, LibraryAssumption
<1>2. CASE Groups(lib) = {}
  <2>1. NextGroupId(lib) = 1
    BY <1>2 DEF NextGroupId
  <2>2. 1 \notin Projects
    BY DEF LibraryAssumption
  <2> QED
    BY <1>1, <1>2, <2>1, <2>2 DEF GroupIds, Groups, LibraryAssumption
<1>3. CASE Groups(lib) # {}
  <2> DEFINE Below == {pair \in Nat \X Nat : pair[1] < pair[2]}
             Bounds == {m \in Nat : \A id \in Groups(lib) : id <= m}
  <2>1. IsWellFoundedOn(Below, Nat)
    <3>1. OpToRel(<, Nat) = Below
      BY DEF OpToRel
    <3> QED
      BY <3>1, NatLessThanWellFounded
  <2>2. MaxId \in Bounds
    BY <1>1
  <2>3. PICK m \in Bounds : \A k \in Bounds : ~(<<k, m>> \in Below)
    <3> HIDE DEF Below
    <3> QED
      BY <2>1, <2>2, WFMin, Bounds \subseteq Nat
  <2>4. m \in Groups(lib)
    <3> SUFFICES ASSUME m \notin Groups(lib)
                 PROVE  FALSE
      OBVIOUS
    <3>1. m # 0
      BY <1>1, <1>3
    <3>2. m - 1 \in Bounds /\ m - 1 < m
      BY <1>1, <3>1
    <3>3. <<m - 1, m>> \in Below
      BY <3>2
    <3> QED
      BY <2>3, <3>2, <3>3
  <2>5. \E id \in Groups(lib) : \A other \in Groups(lib) : id >= other
    BY <1>1, <2>4
  <2>6. Max(Groups(lib)) \in Groups(lib) /\ \A other \in Groups(lib) : Max(Groups(lib)) >= other
    BY <2>5 DEF Max
  <2>7. NextGroupId(lib) = Max(Groups(lib)) + 1
    BY <1>3 DEF NextGroupId
  <2>8. NextGroupId(lib) \in 1 .. MaxId /\ NextGroupId(lib) \notin Groups(lib)
    BY <1>1, <2>6, <2>7
  <2>9. NextGroupId(lib) \notin Projects
    BY <2>8 DEF LibraryAssumption
  <2> QED
    BY <2>8, <2>9 DEF GroupIds, Groups
<1> QED
  BY <1>2, <1>3

\* create_group: one entry more, under a number no other has.
LEMMA CreateGroupIs ==
  ASSUME NEW lib, SoundList(lib), LibraryAssumption, NextGroupId(lib) <= MaxId,
         NEW parent \in {Top} \cup GroupIds
  PROVE  /\ SoundList(CreateGroup(lib, parent))
         /\ Items(CreateGroup(lib, parent)) = Items(lib) \cup {NextGroupId(lib)}
<1> DEFINE e == [[item |-> NextGroupId(lib), into |-> parent, collapsed |-> FALSE]
                 EXCEPT !.into = parent]
<1>1. e \in Entry /\ e.item = NextGroupId(lib)
  BY GroupIsNew DEF Entry
<1>2. CreateGroup(lib, parent) = Append(lib, e)
  BY DEF CreateGroup, Attach
<1> HIDE DEF e
<1> QED
  BY <1>1, <1>2, GroupIsNew, AppendingOne

\* The entries ahead of another in the order in which the group's are lifted.
LEMMA AheadIs ==
  ASSUME NEW lib, SoundList(lib), NEW id \in Groups(lib),
         NEW k \in DOMAIN lib \ {At(lib, id)}
  PROVE  /\ IsFiniteSet(Ahead(lib, id, k))
         /\ Cardinality(Ahead(lib, id, k)) + 1 \in 1 .. Len(lib) - 1
         /\ \A j \in Ahead(lib, id, k) :
              Cardinality(Ahead(lib, id, j)) < Cardinality(Ahead(lib, id, k))
<1> DEFINE rest == DOMAIN lib \ {At(lib, id)}
<1>1. /\ DOMAIN lib = 1 .. Len(lib) /\ Len(lib) \in Nat /\ At(lib, id) \in 1 .. Len(lib)
  BY EntriesAre, AtIs DEF SoundList, Groups
<1>2. IsFiniteSet(DOMAIN lib) /\ Cardinality(DOMAIN lib) = Len(lib)
  <2>1. /\ IsFiniteSet(1 .. Len(lib))
        /\ Cardinality(1 .. Len(lib)) = IF 1 > Len(lib) THEN 0 ELSE Len(lib) - 1 + 1
    BY <1>1, FS_Interval
  <2> QED
    BY <1>1, <2>1
<1>3. IsFiniteSet(rest) /\ Cardinality(rest) = Len(lib) - 1
  BY <1>1, <1>2, FS_RemoveElement
<1>4. IsFiniteSet(rest \ {k}) /\ Cardinality(rest \ {k}) = Len(lib) - 2
  <2>1. /\ IsFiniteSet(rest \ {k})
        /\ Cardinality(rest \ {k}) = IF k \in rest THEN Cardinality(rest) - 1 ELSE Cardinality(rest)
    <3> HIDE DEF rest
    <3> QED
      BY <1>3, FS_RemoveElement
  <2> QED
    BY <1>1, <1>3, <2>1
<1>5. \A j \in rest : Place(lib, id, j) \in Nat
  BY <1>1 DEF Place
<1>6. Ahead(lib, id, k) \in SUBSET (rest \ {k})
  BY <1>1, <1>5 DEF Ahead
<1>7. /\ IsFiniteSet(Ahead(lib, id, k))
      /\ Cardinality(Ahead(lib, id, k)) <= Len(lib) - 2
      /\ Cardinality(Ahead(lib, id, k)) \in Nat
  BY <1>4, <1>6, FS_Subset, FS_CardinalityType
<1>8. ASSUME NEW j \in Ahead(lib, id, k)
      PROVE  Cardinality(Ahead(lib, id, j)) < Cardinality(Ahead(lib, id, k))
  <2>1. j \in rest /\ j \notin Ahead(lib, id, j)
    BY <1>1, <1>5, <1>6 DEF Ahead
  <2>2. Ahead(lib, id, j) \in SUBSET Ahead(lib, id, k)
    BY <1>1, <1>5, <1>8 DEF Ahead
  <2>3. /\ Cardinality(Ahead(lib, id, j)) <= Cardinality(Ahead(lib, id, k))
        /\ Cardinality(Ahead(lib, id, j)) \in Nat
        /\ Cardinality(Ahead(lib, id, j)) # Cardinality(Ahead(lib, id, k))
    BY <1>7, <2>1, <2>2, FS_Subset, FS_CardinalityType
  <2> QED
    BY <1>7, <2>3
<1> QED
  BY <1>1, <1>7, <1>8

\* So every place is taken by one entry.
LEMMA NthIs ==
  ASSUME NEW lib, SoundList(lib), NEW id \in Groups(lib), NEW n \in 1 .. Len(lib) - 1
  PROVE  /\ Nth(lib, id, n) \in DOMAIN lib \ {At(lib, id)}
         /\ Cardinality(Ahead(lib, id, Nth(lib, id, n))) = n - 1
<1> DEFINE rest == DOMAIN lib \ {At(lib, id)}
           rank == [k \in rest |-> Cardinality(Ahead(lib, id, k)) + 1]
<1>1. DOMAIN lib = 1 .. Len(lib) /\ Len(lib) \in Nat /\ At(lib, id) \in 1 .. Len(lib)
  BY EntriesAre, AtIs DEF SoundList, Groups
<1>2. IsFiniteSet(DOMAIN lib) /\ Cardinality(DOMAIN lib) = Len(lib)
  <2>1. /\ IsFiniteSet(1 .. Len(lib))
        /\ Cardinality(1 .. Len(lib)) = IF 1 > Len(lib) THEN 0 ELSE Len(lib) - 1 + 1
    BY <1>1, FS_Interval
  <2> QED
    BY <1>1, <2>1
<1>3. IsFiniteSet(rest) /\ Cardinality(rest) = Len(lib) - 1
  BY <1>1, <1>2, FS_RemoveElement
<1>4. \A k \in rest : Cardinality(Ahead(lib, id, k)) + 1 \in 1 .. Len(lib) - 1
  BY AheadIs
<1>5. \A j, k \in rest : j # k => j \in Ahead(lib, id, k) \/ k \in Ahead(lib, id, j)
  <2>1. \A j \in rest : Place(lib, id, j) \in Nat /\ j \in Nat
    BY <1>1 DEF Place
  <2> QED
    BY <2>1 DEF Ahead
<1>6. \A j, k \in rest : j # k => Cardinality(Ahead(lib, id, j)) # Cardinality(Ahead(lib, id, k))
  <2> SUFFICES ASSUME NEW j \in rest, NEW k \in rest, j # k
               PROVE  Cardinality(Ahead(lib, id, j)) # Cardinality(Ahead(lib, id, k))
    OBVIOUS
  <2>1. /\ Cardinality(Ahead(lib, id, j)) + 1 \in 1 .. Len(lib) - 1
        /\ Cardinality(Ahead(lib, id, k)) + 1 \in 1 .. Len(lib) - 1
    BY <1>4
  <2>1a. IsFiniteSet(Ahead(lib, id, j)) /\ IsFiniteSet(Ahead(lib, id, k))
    BY AheadIs
  <2>1b. Cardinality(Ahead(lib, id, j)) \in Nat /\ Cardinality(Ahead(lib, id, k)) \in Nat
    BY <2>1a, FS_CardinalityType
  <2>2. CASE j \in Ahead(lib, id, k)
    <3>1. Cardinality(Ahead(lib, id, j)) < Cardinality(Ahead(lib, id, k))
      BY <2>2, AheadIs
    <3> QED
      BY <2>1b, <3>1
  <2>3. CASE k \in Ahead(lib, id, j)
    <3>1. Cardinality(Ahead(lib, id, k)) < Cardinality(Ahead(lib, id, j))
      BY <2>3, AheadIs
    <3> QED
      BY <2>1b, <3>1
  <2> QED
    BY <1>5, <2>2, <2>3
<1>7. \A k \in rest : Cardinality(Ahead(lib, id, k)) \in Nat
  BY AheadIs, FS_CardinalityType
<1> HIDE DEF rest
<1>8. rank \in Injection(rest, 1 .. Len(lib) - 1)
  <2>1. rank \in [rest -> 1 .. Len(lib) - 1]
    BY <1>4
  <2>2. \A j, k \in rest : rank[j] = rank[k] => j = k
    BY <1>6, <1>7
  <2> QED
    BY <2>1, <2>2 DEF Injection, IsInjective
<1>9. IsFiniteSet(1 .. Len(lib) - 1) /\ Cardinality(1 .. Len(lib) - 1) = Len(lib) - 1
  BY <1>1, FS_Interval
<1>10. rank \in Surjection(rest, 1 .. Len(lib) - 1)
  <2> HIDE DEF rank
  <2> QED
    BY <1>3, <1>8, <1>9, FS_Injection
<1>11. PICK k \in rest : rank[k] = n
  BY <1>10 DEF Surjection
<1>12. Cardinality(Ahead(lib, id, k)) = n - 1
  BY <1>1, <1>7, <1>11
<1> QED
  BY <1>12 DEF Nth, rest

\* remove_group: nothing is listed twice, and nothing new.
LEMMA RemoveGroupIs ==
  ASSUME NEW lib, SoundList(lib), NEW id \in Groups(lib)
  PROVE  SoundList(RemoveGroup(lib, id)) /\ Items(RemoveGroup(lib, id)) \subseteq Items(lib)
<1> DEFINE left == RemoveGroup(lib, id)
<1>1. /\ lib \in Seq(Entry) /\ DOMAIN lib = 1 .. Len(lib) /\ Len(lib) \in Nat
      /\ At(lib, id) \in 1 .. Len(lib)
      /\ \A k \in DOMAIN lib : lib[k] \in Entry
  BY EntriesAre, AtIs DEF SoundList, Groups
<1>2. In(lib, id) \in {Top} \cup GroupIds
  BY <1>1 DEF In, Entry
<1>3. \A e \in Entry : Lifted(lib, id, e) \in Entry /\ Lifted(lib, id, e).item = e.item
  BY <1>2 DEF Lifted, Entry
<1>4. left = [n \in 1 .. Len(lib) - 1 |-> Lifted(lib, id, lib[Nth(lib, id, n)])]
  BY DEF RemoveGroup
<1>5. \A n \in 1 .. Len(lib) - 1 :
        /\ Nth(lib, id, n) \in DOMAIN lib
        /\ Cardinality(Ahead(lib, id, Nth(lib, id, n))) = n - 1
  BY NthIs
<1>6. \A n \in 1 .. Len(lib) - 1 :
        left[n] \in Entry /\ left[n].item = lib[Nth(lib, id, n)].item
  BY <1>1, <1>3, <1>4, <1>5
<1>7. left \in Seq(Entry) /\ DOMAIN left = 1 .. Len(lib) - 1
  <2>1. Len(lib) - 1 \in Nat
    BY <1>1
  <2>2. left \in [1 .. Len(lib) - 1 -> Entry]
    BY <1>4, <1>6
  <2> QED
    BY <2>1, <2>2
<1>8. OneEach(left)
  <2> SUFFICES ASSUME NEW m \in 1 .. Len(lib) - 1, NEW n \in 1 .. Len(lib) - 1,
                      left[m].item = left[n].item
               PROVE  m = n
    BY <1>7 DEF OneEach
  <2>1. Nth(lib, id, m) = Nth(lib, id, n)
    BY <1>5, <1>6 DEF SoundList, OneEach
  <2>2. m - 1 = n - 1
    BY <1>5, <2>1
  <2> QED
    BY <1>1, <2>2
<1>9. Items(left) \subseteq Items(lib)
  BY <1>1, <1>5, <1>6, <1>7 DEF Items
<1> QED
  BY <1>7, <1>8, <1>9 DEF SoundList

\* What remember may not touch: groups, and projects in one.
Placed(lib) == {e \in ToSet(lib) : e.item \notin Projects \/ e.into # Top}

NewProject(p) == [item |-> p, into |-> Top, collapsed |-> FALSE]

\* Projects of a list: finitely many, one entry for each.
LEMMA ListedIs ==
  ASSUME NEW lib, SoundList(lib)
  PROVE  /\ IsFiniteSet(Listed(lib)) /\ Cardinality(Listed(lib)) \in Nat
         /\ \A p : p \in Listed(lib) <=> p \in Projects /\ \E e \in ToSet(lib) : e.item = p
         /\ \A e, f \in ToSet(lib) : e.item = f.item => e = f
         /\ \A e \in ToSet(lib) : e.item \in Projects => e.item \in Listed(lib)
<1>1. /\ DOMAIN lib = 1 .. Len(lib) /\ Len(lib) \in Nat
      /\ ToSet(lib) = {lib[k] : k \in DOMAIN lib}
  BY EntriesAre DEF SoundList
<1>2. IsFiniteSet(Listed(lib)) /\ Cardinality(Listed(lib)) \in Nat
  <2>1. [k \in DOMAIN lib |-> lib[k].item] \in Surjection(DOMAIN lib, Items(lib))
    BY DEF Surjection, Items
  <2>2. IsFiniteSet(DOMAIN lib)
    BY <1>1, FS_Interval
  <2>3. IsFiniteSet(Items(lib))
    BY <2>1, <2>2, FS_Surjection
  <2> QED
    BY <2>3, FS_Subset, FS_CardinalityType, Listed(lib) \in SUBSET Items(lib) DEF Listed
<1>3. \A p : p \in Listed(lib) <=> p \in Projects /\ \E e \in ToSet(lib) : e.item = p
  BY <1>1 DEF Listed, Items
<1>4. \A e, f \in ToSet(lib) : e.item = f.item => e = f
  BY <1>1 DEF SoundList, OneEach
<1> QED
  BY <1>2, <1>3, <1>4

\* remember, case by case.
LEMMA RememberCases ==
  ASSUME NEW lib, SoundList(lib), NEW p \in Projects, LibraryAssumption
  PROVE  /\ p \in Listed(lib) => Remember(lib, p) = lib
         /\ p \notin Listed(lib) /\ Cardinality(Listed(lib)) < MaxProjects =>
              /\ ToSet(Remember(lib, p)) = ToSet(lib) \cup {NewProject(p)}
              /\ Listed(Remember(lib, p)) = Listed(lib) \cup {p}
         /\ p \notin Listed(lib) /\ Cardinality(Listed(lib)) >= MaxProjects
              /\ ToSet(lib) = Placed(lib) => Remember(lib, p) = lib
         /\ p \notin Listed(lib) /\ Cardinality(Listed(lib)) >= MaxProjects
              /\ ToSet(lib) # Placed(lib) =>
              /\ \E e \in ToSet(lib) :
                   /\ e.item \in Listed(lib) /\ e.into = Top
                   /\ ToSet(Remember(lib, p)) = (ToSet(lib) \ {e}) \cup {NewProject(p)}
                   /\ Listed(Remember(lib, p)) = (Listed(lib) \ {e.item}) \cup {p}
              /\ Cardinality(Listed(Remember(lib, p))) = Cardinality(Listed(lib))
         /\ SoundList(Remember(lib, p))
<1> DEFINE new == NewProject(p)
           full == Cardinality(Listed(lib)) >= MaxProjects
<1>1. new \in Entry /\ new.item = p
  BY DEF Entry, NewProject
<1>2. /\ lib \in Seq(Entry) /\ DOMAIN lib = 1 .. Len(lib) /\ Len(lib) \in Nat
      /\ \A k \in DOMAIN lib : lib[k] \in Entry
      /\ ToSet(lib) = {lib[k] : k \in DOMAIN lib}
  BY EntriesAre DEF SoundList
<1>3. Cardinality(Listed(lib)) \in Nat /\ MaxProjects \in Nat /\ IsFiniteSet(Listed(lib))
  BY ListedIs DEF LibraryAssumption
<1>3a. p \in Items(lib) <=> p \in Listed(lib)
  BY DEF Listed
<1>3b. Ungrouped(lib) = {} <=> ToSet(lib) = Placed(lib)
  BY <1>2 DEF Ungrouped, Placed
<1>3c. Remember(lib, p) =
         IF p \in Items(lib) THEN lib
         ELSE IF ~full THEN Append(lib, new)
         ELSE IF Ungrouped(lib) = {} THEN lib
         ELSE Append(RemoveAt(lib, Min(Ungrouped(lib))), new)
  BY DEF Remember, NewProject
<1> HIDE DEF new
<1>5. CASE p \in Items(lib) \/ (full /\ Ungrouped(lib) = {})
  BY <1>3, <1>3a, <1>3b, <1>3c, <1>5
<1>6. CASE p \notin Items(lib) /\ ~full
  <2>0. Remember(lib, p) = Append(lib, new)
    BY <1>3c, <1>6
  <2>1. /\ SoundList(Append(lib, new))
        /\ ToSet(Append(lib, new)) = ToSet(lib) \cup {new}
        /\ Items(Append(lib, new)) = Items(lib) \cup {p}
    BY <1>1, <1>6, AppendingOne
  <2>2. Listed(Append(lib, new)) = Listed(lib) \cup {p}
    BY <2>1 DEF Listed
  <2> QED
    BY <1>3, <1>3a, <1>6, <2>0, <2>1, <2>2 DEF new
<1>7. CASE p \notin Items(lib) /\ full /\ Ungrouped(lib) # {}
  <2> DEFINE m == Min(Ungrouped(lib))
             fewer == RemoveAt(lib, m)
             more == Append(fewer, new)
  <2>0. Remember(lib, p) = more
    BY <1>3c, <1>7
  <2>1. m \in Ungrouped(lib)
    <3>1. Ungrouped(lib) \subseteq Nat
      BY <1>2 DEF Ungrouped
    <3>2. \E x \in Ungrouped(lib) : \A y \in Ungrouped(lib) : x <= y
      <4> DEFINE Below == {pair \in Nat \X Nat : pair[1] < pair[2]}
      <4>1. IsWellFoundedOn(Below, Nat)
        <5>1. OpToRel(<, Nat) = Below
          BY DEF OpToRel
        <5> QED
          BY <5>1, NatLessThanWellFounded
      <4>2. PICK x \in Ungrouped(lib) : \A y \in Ungrouped(lib) : ~(<<y, x>> \in Below)
        <5> HIDE DEF Below
        <5> QED
          BY <1>7, <3>1, <4>1, WFMin
      <4>3. ASSUME NEW y \in Ungrouped(lib)
            PROVE  x <= y
        <5>1. x \in Nat /\ y \in Nat
          BY <3>1
        <5>2. ~(y < x)
          BY <4>2, <5>1
        <5> QED
          BY <5>1, <5>2
      <4> QED
        BY <4>3
    <3> QED
      BY <3>2 DEF Min
  <2>2. /\ m \in DOMAIN lib /\ lib[m] \in Entry /\ lib[m].item \in Projects /\ lib[m].into = Top
        /\ lib[m] \in ToSet(lib)
    BY <1>2, <2>1 DEF Ungrouped
  <2> HIDE DEF m
  <2>3. /\ SoundList(fewer) /\ ToSet(fewer) = ToSet(lib) \ {lib[m]}
        /\ Items(fewer) = Items(lib) \ {lib[m].item}
    BY <2>2, RemovingOne
  <2>3a. lib[m].item \in Items(lib)
    BY <2>2 DEF Items
  <2> HIDE DEF fewer
  <2>4. p \notin Items(fewer)
    BY <1>7, <2>3
  <2>5. /\ SoundList(more) /\ ToSet(more) = ToSet(fewer) \cup {new}
        /\ Items(more) = Items(fewer) \cup {p}
    BY <1>1, <2>3, <2>4, AppendingOne
  <2> HIDE DEF more
  <2>6. Listed(more) = (Listed(lib) \ {lib[m].item}) \cup {p}
    BY <2>3, <2>5 DEF Listed
  <2>7. lib[m].item \in Listed(lib) /\ p \notin Listed(lib) \ {lib[m].item} /\ lib[m].item # p
    BY <1>7, <2>2, <2>3a DEF Listed
  <2>8. /\ IsFiniteSet(Listed(lib) \ {lib[m].item})
        /\ Cardinality(Listed(lib) \ {lib[m].item}) = Cardinality(Listed(lib)) - 1
    BY <1>3, <2>7, FS_RemoveElement
  <2>9. Cardinality(Listed(more)) = Cardinality(Listed(lib) \ {lib[m].item}) + 1
    BY <2>6, <2>7, <2>8, FS_AddElement
  <2>10. ToSet(more) = (ToSet(lib) \ {lib[m]}) \cup {NewProject(p)}
    BY <2>3, <2>5 DEF new
  <2>11. ~full \/ Cardinality(Listed(lib)) >= MaxProjects
    OBVIOUS
  <2>12. Cardinality(Listed(more)) = Cardinality(Listed(lib))
    BY <1>3, <2>8, <2>9
  <2> QED
    BY <1>3, <1>3a, <1>3b, <1>7, <2>0, <2>2, <2>5, <2>6, <2>7, <2>10, <2>12
<1>8. \/ p \in Items(lib) \/ (full /\ Ungrouped(lib) = {})
      \/ p \notin Items(lib) /\ ~full
      \/ p \notin Items(lib) /\ full /\ Ungrouped(lib) # {}
  OBVIOUS
<1> HIDE DEF full
<1> QED
  BY <1>5, <1>6, <1>7, <1>8, Zenon

\* So a project is added, for which a full list may lose one of the top level,
\* and what else is listed stays as it is.
LEMMA RememberKeeps ==
  ASSUME NEW lib, SoundList(lib), NEW p \in Projects, LibraryAssumption
  PROVE  /\ Groups(Remember(lib, p)) = Groups(lib)
         /\ Placed(Remember(lib, p)) = Placed(lib)
         /\ \A e \in ToSet(lib) \ ToSet(Remember(lib, p)) :
              e.into = Top /\ e.item \in Projects \ Listed(Remember(lib, p))
         /\ Cardinality(Listed(Remember(lib, p))) >= Cardinality(Listed(lib))
         /\ Cardinality(Listed(lib)) <= MaxProjects =>
              Cardinality(Listed(Remember(lib, p))) <= MaxProjects
<1> DEFINE more == Remember(lib, p)
<1>1. /\ Cardinality(Listed(lib)) \in Nat /\ MaxProjects \in Nat /\ IsFiniteSet(Listed(lib))
      /\ \A e, f \in ToSet(lib) : e.item = f.item => e = f
  BY ListedIs DEF LibraryAssumption
<1>2. NewProject(p).item = p /\ NewProject(p).into = Top
  BY DEF NewProject
<1>3. \A some : SoundList(some) => Groups(some) = {e.item : e \in ToSet(some)} \ Projects
  BY EntriesAre DEF SoundList, Groups, Items
<1>4. SoundList(more)
  BY RememberCases
<1>5. CASE more = lib
  BY <1>1, <1>5
<1>6. CASE /\ ToSet(more) = ToSet(lib) \cup {NewProject(p)}
           /\ Listed(more) = Listed(lib) \cup {p} /\ p \notin Listed(lib)
           /\ Cardinality(Listed(lib)) < MaxProjects
  <2>1. Cardinality(Listed(more)) = Cardinality(Listed(lib)) + 1
    BY <1>1, <1>6, FS_AddElement
  <2>2. Placed(more) = Placed(lib)
    BY <1>2, <1>6 DEF Placed
  <2>3. Groups(more) = Groups(lib)
    BY <1>2, <1>3, <1>4, <1>6
  <2> QED
    BY <1>1, <1>6, <2>1, <2>2, <2>3
<1>7. ASSUME NEW e \in ToSet(lib), e.item \in Listed(lib), e.into = Top, p \notin Listed(lib),
             ToSet(more) = (ToSet(lib) \ {e}) \cup {NewProject(p)},
             Listed(more) = (Listed(lib) \ {e.item}) \cup {p},
             Cardinality(Listed(more)) = Cardinality(Listed(lib))
      PROVE  /\ Groups(more) = Groups(lib) /\ Placed(more) = Placed(lib)
             /\ \A f \in ToSet(lib) \ ToSet(more) :
                  f.into = Top /\ f.item \in Projects \ Listed(more)
  <2>1. e.item \in Projects /\ e.item # p
    BY <1>7 DEF Listed
  <2>2. Placed(more) = Placed(lib)
    BY <1>2, <1>7, <2>1 DEF Placed
  <2>3. Groups(more) = Groups(lib)
    <3>1. /\ Groups(more) = {f.item : f \in ToSet(more)} \ Projects
          /\ Groups(lib) = {f.item : f \in ToSet(lib)} \ Projects
      BY <1>3, <1>4
    <3> HIDE DEF more
    <3>2. \A f \in ToSet(more) : f.item \notin Projects => f \in ToSet(lib)
      BY <1>2, <1>7
    <3>3. \A f \in ToSet(lib) : f.item \notin Projects => f \in ToSet(more)
      BY <1>7, <2>1
    <3> QED
      BY <3>1, <3>2, <3>3
  <2>4. \A f \in ToSet(lib) \ ToSet(more) : f = e
    BY <1>7
  <2> QED
    BY <1>7, <2>1, <2>2, <2>3, <2>4
<1> HIDE DEF more
<1>8. \/ more = lib
      \/ /\ ToSet(more) = ToSet(lib) \cup {NewProject(p)}
         /\ Listed(more) = Listed(lib) \cup {p} /\ p \notin Listed(lib)
         /\ Cardinality(Listed(lib)) < MaxProjects
      \/ /\ \E e \in ToSet(lib) :
              /\ e.item \in Listed(lib) /\ e.into = Top /\ p \notin Listed(lib)
              /\ ToSet(more) = (ToSet(lib) \ {e}) \cup {NewProject(p)}
              /\ Listed(more) = (Listed(lib) \ {e.item}) \cup {p}
         /\ Cardinality(Listed(more)) = Cardinality(Listed(lib))
  BY <1>1, RememberCases DEF more
<1> QED
  BY <1>1, <1>5, <1>6, <1>7, <1>8 DEF more

\* The inductive invariant: what is typed, how the saves are numbered, that the
\* newest list is the one shown, and what the file holds beyond it.
GoodList(lib) == SoundList(lib) /\ Cardinality(Listed(lib)) <= MaxProjects

PaneStore ==
  {s \in [list : Seq(Entry), recents : Seq(Projects)] :
     GoodList(s.list) /\ Len(s.recents) <= MaxRecent}

GoodSave(j) ==
  /\ j \in Job /\ j.save \in 1 .. latest.save
  /\ j.kind = "list" => GoodList(j.list)
  /\ j.kind = "recent" => j.path \in Projects

PaneStateTyped ==
  /\ GoodList(listed) /\ saved \in PaneStore
  /\ latest \in [save : Nat, pane : Nat] /\ latest.pane <= latest.save
  /\ failed \in BOOLEAN /\ error \in {"none", "save", "refused"}
  /\ menu \in Projects \cup {NoMenu}
  /\ groupForm \in {"closed", "open", "pending"}
  /\ saves \in Seq(Job) /\ \A i \in 1 .. Len(saves) : GoodSave(saves[i])
  /\ IsFiniteSet(answers)
  /\ \A r \in answers :
       /\ r = [job |-> r.job, ok |-> r.ok, stored |-> r.stored]
       /\ r.ok \in BOOLEAN /\ r.stored \in PaneStore /\ GoodSave(r.job)

\* The writer answers in the order of the numbers, each of them once.
Numbered ==
  /\ \A i, k \in 1 .. Len(saves) : i < k => saves[i].save < saves[k].save
  /\ \A r \in answers, i \in 1 .. Len(saves) : r.job.save < saves[i].save
  /\ \A q, r \in answers : q.job.save = r.job.save => q = r
  /\ \A i \in 1 .. Len(saves) : saves[i].save <= latest.pane =>
       \E k \in 1 .. Len(saves) : saves[k].save = latest.pane

\* While the newest list is on its way to the store it is the one shown.
NewestIsShown ==
  /\ \A i \in 1 .. Len(saves) :
       /\ saves[i].kind = "list" => saves[i].save <= latest.pane
       /\ saves[i].save = latest.pane =>
            saves[i].kind = "list" /\ saves[i].list = listed /\ ~failed
       /\ saves[i].kind = "recent" /\ saves[i].save > latest.pane /\ saves[i].listed /\ ~failed =>
            saves[i].path \in Listed(listed)
  /\ \A r \in answers :
       /\ r.job.kind = "list" => r.job.save <= latest.pane
       /\ r.job.save = latest.pane =>
            /\ r.job.kind = "list" /\ ~failed
            /\ latest.save = latest.pane => r.job.list = listed
       /\ r.ok => IF r.job.kind = "list" THEN r.stored.list = r.job.list
                  ELSE r.stored.recents # <<>> /\ Head(r.stored.recents) = r.job.path

\* The newest list was stored, and projects opened since may have been added.
NewestIsStored ==
  /\ ~failed
  /\ \A i \in 1 .. Len(saves) : saves[i].save # latest.pane
  /\ \A r \in answers : r.job.save = latest.pane => r.ok

Opened(r) == r.ok /\ r.job.kind = "recent" /\ r.job.save > latest.pane

\* Projects that an answer is about to add to the list shown.
Coming ==
  {p \in Projects \ Listed(listed) :
     \E r \in answers : /\ Opened(r) /\ ~r.job.listed /\ r.job.path = p
                        /\ p \in Listed(r.stored.list)}

Covered ==
  NewestIsStored =>
    /\ Placed(saved.list) = Placed(listed)
    /\ \A r \in answers : Opened(r) => Placed(r.stored.list) = Placed(listed)
    /\ Cardinality(Listed(listed) \cup Coming) <= MaxProjects =>
         ToSet(saved.list) = ToSet(listed) \cup {NewProject(p) : p \in Coming}

PaneInv ==
  PaneStateTyped /\ Numbered /\ NewestIsShown /\ Covered

\* A list that gains no project stays within the limit.
LEMMA FewerIsGood ==
  ASSUME NEW lib, GoodList(lib), LibraryAssumption, NEW new, SoundList(new),
         Listed(new) \subseteq Listed(lib)
  PROVE  GoodList(new)
<1>1. Cardinality(Listed(new)) <= Cardinality(Listed(lib))
  BY ListedIs, FS_Subset DEF GoodList
<1>2. Cardinality(Listed(new)) \in Nat /\ Cardinality(Listed(lib)) \in Nat /\ MaxProjects \in Nat
  BY ListedIs DEF GoodList, LibraryAssumption
<1> QED
  BY <1>1, <1>2 DEF GoodList

\* Every edit leaves a list in order (forget_project, move_project,
\* set_collapsed, remove_group, create_group).
LEMMA EditsAreGood ==
  ASSUME GoodList(listed), LibraryAssumption
  PROVE  /\ \A p : GoodList(ForgetProject(listed, p))
         /\ \A p \in Listed(listed), g \in {Top} \cup GroupIds : GoodList(Move(listed, p, g))
         /\ \A g \in Groups(listed), c \in BOOLEAN : GoodList(SetCollapsed(listed, g, c))
         /\ \A g \in Groups(listed) : GoodList(RemoveGroup(listed, g))
         /\ NextGroupId(listed) <= MaxId => GoodList(CreateGroup(listed, Top))
<1>1. SoundList(listed)
  BY DEF GoodList
<1>2. \A p : GoodList(ForgetProject(listed, p))
  <2> SUFFICES ASSUME NEW p
               PROVE  GoodList(ForgetProject(listed, p))
    OBVIOUS
  <2>1. /\ SoundList(ForgetProject(listed, p))
        /\ Listed(ForgetProject(listed, p)) \subseteq Listed(listed)
    BY <1>1, DetachedIs DEF ForgetProject, Listed
  <2> QED
    BY <2>1, FewerIsGood
<1>3. ASSUME NEW p \in Listed(listed), NEW g \in {Top} \cup GroupIds
      PROVE  GoodList(Move(listed, p, g))
  <2>1. p \in Items(listed)
    BY DEF Listed
  <2>2. SoundList(Move(listed, p, g)) /\ Items(Move(listed, p, g)) = Items(listed)
    BY <1>1, <2>1, MoveIs
  <2> QED
    BY <2>2, FewerIsGood DEF Listed
<1>4. ASSUME NEW g \in Groups(listed), NEW c \in BOOLEAN
      PROVE  GoodList(SetCollapsed(listed, g, c))
  <2>1. g \in Items(listed)
    BY DEF Groups
  <2>2. SoundList(SetCollapsed(listed, g, c)) /\ Items(SetCollapsed(listed, g, c)) = Items(listed)
    BY <1>1, <2>1, SetCollapsedIs
  <2> QED
    BY <2>2, FewerIsGood DEF Listed
<1>5. ASSUME NEW g \in Groups(listed)
      PROVE  GoodList(RemoveGroup(listed, g))
  <2>1. SoundList(RemoveGroup(listed, g)) /\ Items(RemoveGroup(listed, g)) \subseteq Items(listed)
    BY <1>1, RemoveGroupIs
  <2> QED
    BY <2>1, FewerIsGood DEF Listed
<1>6. ASSUME NextGroupId(listed) <= MaxId
      PROVE  GoodList(CreateGroup(listed, Top))
  <2>1. /\ SoundList(CreateGroup(listed, Top))
        /\ Items(CreateGroup(listed, Top)) = Items(listed) \cup {NextGroupId(listed)}
    BY <1>1, <1>6, CreateGroupIs
  <2>2. NextGroupId(listed) \notin Projects
    BY <1>1, <1>6, GroupIsNew DEF LibraryAssumption, GroupIds
  <2> QED
    BY <2>1, <2>2, FewerIsGood DEF Listed
<1> QED
  BY <1>2, <1>3, <1>4, <1>5, <1>6

\* remember_at: the path comes first, and no more recents than the limit.
LEMMA RememberingIs ==
  ASSUME NEW store \in PaneStore, NEW p \in Projects, LibraryAssumption, PaneAssumption
  PROVE  /\ Remembering(store, p) \in PaneStore
         /\ Remembering(store, p).list = Remember(store.list, p)
         /\ Remembering(store, p).recents # <<>>
         /\ Head(Remembering(store, p).recents) = p
<1> DEFINE s == store.recents
           others == RemoveFirst(s, p)
           n == Min({Len(others), MaxRecent - 1})
           first == SubSeq(others, 1, n)
           recents == <<p>> \o first
           new == Remembering(store, p)
<1>1. /\ s \in Seq(Projects) /\ Len(s) \in Nat /\ GoodList(store.list)
      /\ store.list \in Seq(Entry)
  BY DEF PaneStore
<1>2. MaxRecent \in Nat /\ MaxRecent # 0
  BY DEF PaneAssumption
<1>3. others \in Seq(Projects)
  <2> DEFINE I == {i \in 1 .. Len(s) : s[i] = p}
  <2>1. CASE I = {}
    BY <1>1, <2>1 DEF RemoveFirst
  <2>2. CASE I # {}
    <3>1. SelectInSeq(s, LAMBDA v : v = p) \in 1 .. Len(s)
      <4>1. SelectInSeq(s, LAMBDA v : v = p) = Min(I)
        BY <2>2 DEF SelectInSeq
      <4>2. \E x \in I : \A y \in I : x <= y
        <5> DEFINE Below == {pair \in Nat \X Nat : pair[1] < pair[2]}
        <5>1. IsWellFoundedOn(Below, Nat)
          <6>1. OpToRel(<, Nat) = Below
            BY DEF OpToRel
          <6> QED
            BY <6>1, NatLessThanWellFounded
        <5>2. I \subseteq Nat
          OBVIOUS
        <5>3. PICK x \in I : \A y \in I : ~(<<y, x>> \in Below)
          <6> HIDE DEF Below, I
          <6> QED
            BY <2>2, <5>1, <5>2, WFMin
        <5>4. ASSUME NEW y \in I
              PROVE  x <= y
          <6>1. x \in Nat /\ y \in Nat
            BY <5>2
          <6>2. ~(y < x)
            BY <5>3, <6>1
          <6> QED
            BY <6>1, <6>2
        <5> QED
          BY <5>4
      <4>3. Min(I) \in I
        BY <4>2 DEF Min
      <4> QED
        BY <4>1, <4>3
    <3> DEFINE i == SelectInSeq(s, LAMBDA v : v = p)
    <3>2. others = SubSeq(s, 1, i - 1) \o SubSeq(s, i + 1, Len(s))
      BY <2>2 DEF RemoveFirst, RemoveAt
    <3>2a. i \in 1 .. Len(s)
      BY <3>1
    <3> HIDE DEF i
    <3>3. SubSeq(s, 1, i - 1) \in Seq(Projects) /\ SubSeq(s, i + 1, Len(s)) \in Seq(Projects)
      BY <1>1, <3>2a, SubSeqProperties
    <3> QED
      BY <3>2, <3>3, ConcatProperties
  <2> QED
    BY <2>1, <2>2
<1> HIDE DEF others
<1>4. n \in Nat /\ n <= Len(others) /\ n <= MaxRecent - 1
  <2>1. Len(others) \in Nat /\ MaxRecent - 1 \in Nat
    BY <1>2, <1>3
  <2>2. \E x \in {Len(others), MaxRecent - 1} : \A y \in {Len(others), MaxRecent - 1} : x <= y
    BY <2>1
  <2>3. n \in {Len(others), MaxRecent - 1} /\ \A y \in {Len(others), MaxRecent - 1} : n <= y
    BY <2>2 DEF Min
  <2> QED
    BY <2>1, <2>3
<1> HIDE DEF n
<1>5. first \in Seq(Projects) /\ Len(first) <= MaxRecent - 1 /\ Len(first) \in Nat
  <2>1. \A i \in 1 .. n : others[i] \in Projects
    BY <1>3, <1>4
  <2>2. first \in Seq(Projects) /\ Len(first) = IF 1 <= n THEN n - 1 + 1 ELSE 0
    BY <1>4, <2>1, SubSeqProperties
  <2> QED
    BY <1>2, <1>4, <2>2
<1> HIDE DEF first
<1>6. recents \in Seq(Projects) /\ Len(recents) <= MaxRecent /\ recents # <<>> /\ Head(recents) = p
  <2>1. <<p>> \in Seq(Projects) /\ Len(<<p>>) = 1
    OBVIOUS
  <2>2. /\ recents \in Seq(Projects) /\ Len(recents) = Len(<<p>>) + Len(first)
        /\ \A i \in 1 .. Len(<<p>>) + Len(first) :
             recents[i] = IF i <= Len(<<p>>) THEN <<p>>[i] ELSE first[i - Len(<<p>>)]
    BY <1>5, <2>1, ConcatProperties
  <2>3. recents[1] = p /\ Len(recents) = 1 + Len(first)
    BY <1>5, <2>1, <2>2
  <2> HIDE DEF recents
  <2>4. recents # <<>> /\ Head(recents) = recents[1]
    BY <1>5, <2>2, <2>3
  <2> QED
    BY <1>2, <1>5, <2>2, <2>3, <2>4
<1>7. new = [list |-> Remember(store.list, p), recents |-> recents]
  BY DEF Remembering, others, first, n
<1> HIDE DEF recents
<1>8. GoodList(Remember(store.list, p))
  <2>1. SoundList(store.list)
    BY <1>1 DEF GoodList
  <2> QED
    BY <1>1, <2>1, RememberCases, RememberKeeps DEF GoodList
<1> QED
  BY <1>6, <1>7, <1>8 DEF PaneStore, GoodList, SoundList

\* Dialogs and menus come and go without touching a save.
LEMMA OnlyDialogs ==
  ASSUME PaneInv, UNCHANGED <<listed, latest, failed, saves, answers, saved>>,
         error' \in {"none", "save", "refused"},
         menu' \in Projects \cup {NoMenu}, groupForm' \in {"closed", "open", "pending"}
  PROVE  PaneInv'
<1>1. PaneStateTyped'
  BY DEF PaneInv, PaneStateTyped, GoodSave
<1>2. Numbered' /\ NewestIsShown'
  BY DEF PaneInv, Numbered, NewestIsShown
<1>3. Covered'
  <2>1. Coming' = Coming /\ NewestIsStored' = NewestIsStored
    BY DEF Coming, Opened, NewestIsStored
  <2> QED
    BY <2>1 DEF PaneInv, Covered, Opened
<1> QED
  BY <1>1, <1>2, <1>3 DEF PaneInv

\* The queue with one save more, whose number is new.
LEMMA SavesGrow ==
  ASSUME PaneInv, NEW j \in Job, saves' = Append(saves, j), j.save = latest.save + 1,
         latest' \in [save : Nat, pane : Nat], latest'.save = latest.save + 1,
         latest'.pane <= latest'.save, answers' \subseteq answers, UNCHANGED saved,
         GoodList(listed'), failed' \in BOOLEAN,
         error' \in {"none", "save", "refused"},
         menu' \in Projects \cup {NoMenu}, groupForm' \in {"closed", "open", "pending"},
         j.kind = "list" => GoodList(j.list), j.kind = "recent" => j.path \in Projects,
         latest'.pane \in {latest.pane, latest.save + 1}
  PROVE  /\ PaneStateTyped' /\ Numbered'
         /\ Len(saves) \in Nat /\ Len(saves') = Len(saves) + 1
         /\ saves'[Len(saves) + 1] = j
         /\ \A i \in 1 .. Len(saves') : i \in 1 .. Len(saves) \/ i = Len(saves) + 1
         /\ \A i \in 1 .. Len(saves) : saves'[i] = saves[i]
         /\ \A i \in 1 .. Len(saves) : saves[i].save \in Nat /\ saves[i].save <= latest.save
         /\ \A r \in answers : r.job.save \in Nat /\ r.job.save <= latest.save
<1>1. saves \in Seq(Job) /\ Len(saves) \in Nat
  BY DEF PaneInv, PaneStateTyped
<1>2. /\ saves' \in Seq(Job) /\ Len(saves') = Len(saves) + 1
      /\ \A i \in 1 .. Len(saves) : saves'[i] = saves[i]
      /\ saves'[Len(saves) + 1] = j
  BY <1>1, AppendProperties
<1>3. \A i \in 1 .. Len(saves') : i \in 1 .. Len(saves) \/ i = Len(saves) + 1
  BY <1>1, <1>2
<1>4. /\ \A i \in 1 .. Len(saves) : saves[i].save \in Nat /\ saves[i].save <= latest.save
      /\ \A r \in answers : r.job.save \in Nat /\ r.job.save <= latest.save
      /\ latest.save \in Nat
  BY DEF PaneInv, PaneStateTyped, GoodSave
<1>5. ASSUME NEW i \in 1 .. Len(saves')
      PROVE  GoodSave(saves[i])'
  <2>1. CASE i \in 1 .. Len(saves)
    BY <1>2, <1>4, <2>1 DEF PaneInv, PaneStateTyped, GoodSave
  <2>2. CASE i = Len(saves) + 1
    <3>1. saves'[i] = j
      BY <1>2, <2>2
    <3>2. j.save \in 1 .. latest'.save
      BY <1>4
    <3> QED
      BY <3>1, <3>2 DEF GoodSave
  <2> QED
    BY <1>3, <2>1, <2>2
<1>6. \A r \in answers' : /\ r = [job |-> r.job, ok |-> r.ok, stored |-> r.stored]
                          /\ r.ok \in BOOLEAN /\ r.stored \in PaneStore /\ GoodSave(r.job)'
  BY <1>4 DEF PaneInv, PaneStateTyped, GoodSave
<1>7. PaneStateTyped'
  <2>1. IsFiniteSet(answers')
    BY FS_Subset DEF PaneInv, PaneStateTyped
  <2> QED
    BY <1>2, <1>5, <1>6, <2>1 DEF PaneInv, PaneStateTyped
<1>8. Numbered'
  <2>1. \A i, k \in 1 .. Len(saves') : i < k => saves'[i].save < saves'[k].save
    <3> SUFFICES ASSUME NEW i \in 1 .. Len(saves'), NEW k \in 1 .. Len(saves'), i < k
                 PROVE  saves'[i].save < saves'[k].save
      OBVIOUS
    <3>1. i \in 1 .. Len(saves)
      BY <1>1, <1>2
    <3>2. CASE k \in 1 .. Len(saves)
      BY <1>2, <3>1, <3>2 DEF PaneInv, Numbered
    <3>3. CASE k = Len(saves) + 1
      BY <1>2, <1>4, <3>1, <3>3
    <3> QED
      BY <1>3, <3>2, <3>3
  <2>2. \A r \in answers', i \in 1 .. Len(saves') : r.job.save < saves'[i].save
    <3> SUFFICES ASSUME NEW r \in answers', NEW i \in 1 .. Len(saves')
                 PROVE  r.job.save < saves'[i].save
      OBVIOUS
    <3>2. CASE i \in 1 .. Len(saves)
      BY <1>2, <3>2 DEF PaneInv, Numbered
    <3>3. CASE i = Len(saves) + 1
      BY <1>2, <1>4, <3>3
    <3> QED
      BY <1>3, <3>2, <3>3
  <2>3. ASSUME NEW i \in 1 .. Len(saves'), saves'[i].save <= latest'.pane
        PROVE  \E k \in 1 .. Len(saves') : saves'[k].save = latest'.pane
    <3>1. Len(saves) + 1 \in 1 .. Len(saves') /\ \A k \in 1 .. Len(saves) : k \in 1 .. Len(saves')
      BY <1>1, <1>2
    <3>2. CASE latest'.pane = latest.save + 1
      BY <1>2, <3>1, <3>2
    <3>3. CASE latest'.pane = latest.pane
      <4>1. latest.pane \in Nat /\ latest.pane <= latest.save
        BY DEF PaneInv, PaneStateTyped
      <4>2. i # Len(saves) + 1
        BY <1>2, <1>4, <2>3, <3>3, <4>1
      <4>3. PICK k \in 1 .. Len(saves) : saves[k].save = latest.pane
        BY <1>2, <1>3, <2>3, <3>3, <4>2 DEF PaneInv, Numbered
      <4> QED
        BY <1>2, <3>1, <3>3, <4>3
    <3> QED
      BY <3>2, <3>3
  <2> QED
    BY <2>1, <2>2, <2>3 DEF PaneInv, Numbered
<1> QED
  BY <1>1, <1>2, <1>3, <1>4, <1>7, <1>8

\* A list is saved as it is shown (submit_project_library_save).
LEMMA SubmitListStep ==
  ASSUME PaneInv, GoodList(listed'), NEW naming \in BOOLEAN, SubmitList(listed', naming),
         answers' \subseteq answers, UNCHANGED saved,
         error' \in {"none", "save", "refused"},
         menu' \in Projects \cup {NoMenu}, groupForm' \in {"closed", "open", "pending"}
  PROVE  PaneInv'
<1> DEFINE j == [save |-> latest.save + 1, kind |-> "list", list |-> listed',
                 path |-> NoMenu, listed |-> FALSE, form |-> naming]
<1>1. latest.save \in Nat /\ latest.pane \in Nat /\ latest.pane <= latest.save
  BY DEF PaneInv, PaneStateTyped
<1>2. /\ j \in Job /\ j.save = latest.save + 1 /\ j.kind = "list" /\ j.list = listed'
  BY <1>1 DEF Job, GoodList, SoundList
<1>3. /\ latest' \in [save : Nat, pane : Nat]
      /\ latest'.save = latest.save + 1 /\ latest'.pane = latest.save + 1 /\ failed' = FALSE
      /\ saves' = Append(saves, j)
  BY <1>1 DEF SubmitList
<1> HIDE DEF j
<1>4. /\ PaneStateTyped' /\ Numbered'
      /\ Len(saves) \in Nat /\ Len(saves') = Len(saves) + 1
      /\ saves'[Len(saves) + 1] = j
      /\ \A i \in 1 .. Len(saves') : i \in 1 .. Len(saves) \/ i = Len(saves) + 1
      /\ \A i \in 1 .. Len(saves) : saves'[i] = saves[i]
      /\ \A i \in 1 .. Len(saves) : saves[i].save \in Nat /\ saves[i].save <= latest.save
      /\ \A r \in answers : r.job.save \in Nat /\ r.job.save <= latest.save
  <2>1. latest'.pane <= latest'.save
    BY <1>1, <1>3
  <2> QED
    BY <1>2, <1>3, <2>1, SavesGrow
<1>5. \A i \in 1 .. Len(saves') :
        /\ saves'[i].kind = "list" => saves'[i].save <= latest'.pane
        /\ saves'[i].save = latest'.pane => saves'[i].kind = "list" /\ saves'[i].list = listed'
        /\ saves'[i].save <= latest'.pane
  <2> SUFFICES ASSUME NEW i \in 1 .. Len(saves')
               PROVE  /\ saves'[i].save <= latest'.pane
                      /\ saves'[i].save = latest'.pane =>
                           saves'[i].kind = "list" /\ saves'[i].list = listed'
    OBVIOUS
  <2>1. CASE i \in 1 .. Len(saves)
    BY <1>1, <1>3, <1>4, <2>1
  <2>2. CASE i = Len(saves) + 1
    BY <1>1, <1>2, <1>3, <1>4, <2>2
  <2> QED
    BY <1>4, <2>1, <2>2
<1>6. \A r \in answers : r.job.save <= latest'.pane /\ r.job.save # latest'.pane
  BY <1>1, <1>3, <1>4
<1>7. NewestIsShown'
  <2>1. \A i \in 1 .. Len(saves') : saves'[i].save \in Nat /\ latest'.pane \in Nat
    BY <1>4 DEF PaneStateTyped, GoodSave
  <2>2. \A i \in 1 .. Len(saves') : ~(saves'[i].save > latest'.pane)
    BY <1>5, <2>1
  <2> QED
    BY <1>3, <1>5, <1>6, <2>2 DEF PaneInv, NewestIsShown
<1>8. Covered'
  <2>1. Len(saves) + 1 \in 1 .. Len(saves') /\ saves'[Len(saves) + 1].save = latest'.pane
    BY <1>2, <1>3, <1>4
  <2> QED
    BY <2>1 DEF Covered, NewestIsStored
<1> QED
  BY <1>3, <1>4, <1>7, <1>8 DEF PaneInv

\* A repository that was opened is remembered (remember_repository).
LEMMA OpenRepositoryStep ==
  ASSUME PaneInv, NEW p \in Projects, OpenRepository(p)
  PROVE  PaneInv'
<1> DEFINE j == [save |-> latest.save + 1, kind |-> "recent", list |-> <<>>, path |-> p,
                 listed |-> p \in Listed(listed), form |-> FALSE]
<1>1. latest.save \in Nat /\ latest.pane \in Nat /\ latest.pane <= latest.save
  BY DEF PaneInv, PaneStateTyped
<1>2. /\ j \in Job /\ j.save = latest.save + 1 /\ j.kind = "recent" /\ j.path = p
      /\ j.listed = (p \in Listed(listed))
  BY <1>1 DEF Job
<1>3. /\ latest' \in [save : Nat, pane : Nat]
      /\ latest'.save = latest.save + 1 /\ latest'.pane = latest.pane
      /\ saves' = Append(saves, j)
      /\ UNCHANGED <<listed, failed, error, menu, groupForm, answers, saved>>
  BY <1>1, <1>2 DEF OpenRepository, PaneInv, PaneStateTyped
<1> HIDE DEF j
<1>4. /\ PaneStateTyped' /\ Numbered'
      /\ Len(saves) \in Nat /\ Len(saves') = Len(saves) + 1
      /\ saves'[Len(saves) + 1] = j
      /\ \A i \in 1 .. Len(saves') : i \in 1 .. Len(saves) \/ i = Len(saves) + 1
      /\ \A i \in 1 .. Len(saves) : saves'[i] = saves[i]
      /\ \A i \in 1 .. Len(saves) : saves[i].save \in Nat /\ saves[i].save <= latest.save
      /\ \A r \in answers : r.job.save \in Nat /\ r.job.save <= latest.save
  <2>1. latest'.pane <= latest'.save
    BY <1>1, <1>3
  <2>2. /\ GoodList(listed') /\ failed' \in BOOLEAN
        /\ error' \in {"none", "save", "refused"} /\ menu' \in Projects \cup {NoMenu}
        /\ groupForm' \in {"closed", "open", "pending"}
    BY <1>3 DEF PaneInv, PaneStateTyped
  <2> QED
    BY <1>2, <1>3, <2>1, <2>2, SavesGrow
<1>5. j.save \in Nat /\ j.save # latest.pane /\ j.save > latest.pane
  BY <1>1, <1>2
<1>6. NewestIsShown'
  <2>1. ASSUME NEW i \in 1 .. Len(saves')
        PROVE  /\ saves'[i].kind = "list" => saves'[i].save <= latest'.pane
               /\ saves'[i].save = latest'.pane =>
                    saves'[i].kind = "list" /\ saves'[i].list = listed' /\ ~failed'
               /\ saves'[i].kind = "recent" /\ saves'[i].save > latest'.pane
                    /\ saves'[i].listed /\ ~failed' => saves'[i].path \in Listed(listed')
    <3>1. CASE i \in 1 .. Len(saves)
      BY <1>3, <1>4, <3>1 DEF PaneInv, NewestIsShown
    <3>2. CASE i = Len(saves) + 1
      BY <1>2, <1>3, <1>4, <1>5, <3>2
    <3> QED
      BY <1>4, <3>1, <3>2
  <2>2. \A r \in answers :
          /\ r.job.kind = "list" => r.job.save <= latest'.pane
          /\ r.job.save = latest'.pane => r.job.kind = "list" /\ ~failed'
    BY <1>3 DEF PaneInv, NewestIsShown
  <2>3. latest'.save # latest'.pane
    BY <1>1, <1>3
  <2> QED
    BY <1>3, <2>1, <2>2, <2>3 DEF PaneInv, NewestIsShown
<1>7. Covered'
  <2>1. Coming' = Coming
    BY <1>3 DEF Coming, Opened
  <2>2. NewestIsStored' => NewestIsStored
    <3> SUFFICES ASSUME NewestIsStored'
                 PROVE  NewestIsStored
      OBVIOUS
    <3>1. \A i \in 1 .. Len(saves) : i \in 1 .. Len(saves') /\ saves'[i] = saves[i]
      BY <1>4
    <3> QED
      BY <1>3, <3>1 DEF NewestIsStored
  <2> QED
    BY <1>3, <2>1, <2>2 DEF PaneInv, Covered, Opened
<1> QED
  BY <1>3, <1>4, <1>6, <1>7 DEF PaneInv

\* Projects that are coming, and those listed, are finitely many.
LEMMA ComingIs ==
  ASSUME PaneInv
  PROVE  /\ IsFiniteSet(Coming) /\ IsFiniteSet(Listed(listed) \cup Coming)
         /\ Cardinality(Listed(listed) \cup Coming) \in Nat
<1> DEFINE some == {r \in answers : r.job.path \in Coming}
           pathOf == [r \in some |-> r.job.path]
<1>1. IsFiniteSet(some)
  BY FS_Subset DEF PaneInv, PaneStateTyped
<1>2. pathOf \in Surjection(some, Coming)
  <2>1. pathOf \in [some -> Coming]
    OBVIOUS
  <2>2. \A p \in Coming : \E r \in some : pathOf[r] = p
    BY DEF Coming
  <2> QED
    BY <2>1, <2>2 DEF Surjection
<1> HIDE DEF some, pathOf
<1>3. IsFiniteSet(Coming)
  BY <1>1, <1>2, FS_Surjection
<1>4. IsFiniteSet(Listed(listed))
  BY ListedIs DEF PaneInv, PaneStateTyped, GoodList
<1> QED
  BY <1>3, <1>4, FS_Union, FS_CardinalityType

\* The writer takes the first save and answers it.
LEMMA SaveTaken ==
  ASSUME PaneInv, saves # <<>>, saves' = Tail(saves), saved' \in PaneStore,
         NEW ok \in BOOLEAN,
         answers' = answers \cup {[job |-> Head(saves), ok |-> ok, stored |-> saved']},
         UNCHANGED paneShown
  PROVE  /\ PaneStateTyped' /\ Numbered'
         /\ Head(saves) = saves[1] /\ 1 \in 1 .. Len(saves)
         /\ \A i \in 1 .. Len(saves') : i + 1 \in 1 .. Len(saves) /\ saves'[i] = saves[i + 1]
         /\ \A i \in 1 .. Len(saves) : i # 1 =>
              i - 1 \in 1 .. Len(saves') /\ saves'[i - 1] = saves[i]
         /\ \A i \in 1 .. Len(saves') : Head(saves).save < saves'[i].save
         /\ GoodSave(Head(saves))
<1> DEFINE j == Head(saves)
<1>0. PICK a : a = [job |-> j, ok |-> ok, stored |-> saved']
  OBVIOUS
<1>0a. a.job = j /\ a.ok = ok /\ a.stored = saved' /\ answers' = answers \cup {a}
  BY <1>0
<1>1. /\ saves \in Seq(Job) /\ Len(saves) \in Nat /\ Len(saves) # 0
      /\ \A i \in 1 .. Len(saves) : GoodSave(saves[i])
  <2>1. saves \in Seq(Job) /\ \A i \in 1 .. Len(saves) : GoodSave(saves[i])
    BY DEF PaneInv, PaneStateTyped
  <2> QED
    BY <2>1, EmptySeq
<1>2. /\ saves' \in Seq(Job) /\ Len(saves') = Len(saves) - 1
      /\ \A i \in 1 .. Len(saves') : saves'[i] = saves[i + 1]
      /\ j = saves[1]
  BY <1>1, HeadTailProperties
<1>3. \A i \in 1 .. Len(saves') : i + 1 \in 1 .. Len(saves) /\ saves'[i] = saves[i + 1]
  BY <1>1, <1>2
<1>4. \A i \in 1 .. Len(saves) : i # 1 => i - 1 \in 1 .. Len(saves') /\ saves'[i - 1] = saves[i]
  <2> SUFFICES ASSUME NEW i \in 1 .. Len(saves), i # 1
               PROVE  i - 1 \in 1 .. Len(saves') /\ saves'[i - 1] = saves[i]
    OBVIOUS
  <2>1. i - 1 \in 1 .. Len(saves') /\ (i - 1) + 1 = i
    BY <1>1, <1>2
  <2> QED
    BY <1>2, <2>1
<1>5. 1 \in 1 .. Len(saves) /\ GoodSave(j)
  BY <1>1, <1>2
<1>6. \A i \in 1 .. Len(saves') : j.save < saves'[i].save
  BY <1>1, <1>2, <1>3, <1>5 DEF PaneInv, Numbered
<1> HIDE DEF j
<1>7. \A i \in 1 .. Len(saves') : GoodSave(saves[i])'
  <2> SUFFICES ASSUME NEW i \in 1 .. Len(saves')
               PROVE  GoodSave(saves[i])'
    OBVIOUS
  <2>1. GoodSave(saves[i + 1]) /\ saves'[i] = saves[i + 1]
    BY <1>1, <1>3
  <2> QED
    BY <2>1 DEF GoodSave, paneShown
<1>8. \A r \in answers' : /\ r = [job |-> r.job, ok |-> r.ok, stored |-> r.stored]
                          /\ r.ok \in BOOLEAN /\ r.stored \in PaneStore /\ GoodSave(r.job)'
  <2>1. \A r \in answers : /\ r = [job |-> r.job, ok |-> r.ok, stored |-> r.stored]
                           /\ r.ok \in BOOLEAN /\ r.stored \in PaneStore /\ GoodSave(r.job)'
    BY DEF PaneInv, PaneStateTyped, GoodSave, paneShown
  <2>2. GoodSave(a.job)'
    BY <1>0a, <1>5 DEF GoodSave, paneShown
  <2>3. a = [job |-> a.job, ok |-> a.ok, stored |-> a.stored] /\ a.ok \in BOOLEAN
        /\ a.stored \in PaneStore
    BY <1>0, <1>0a
  <2> QED
    BY <1>0a, <2>1, <2>2, <2>3
<1>9. PaneStateTyped'
  <2>1. IsFiniteSet(answers')
    BY FS_AddElement DEF PaneInv, PaneStateTyped
  <2> QED
    BY <1>2, <1>7, <1>8, <2>1 DEF PaneInv, PaneStateTyped, paneShown
<1>10. Numbered'
  <2>1. \A i, k \in 1 .. Len(saves') : i < k => saves'[i].save < saves'[k].save
    <3> SUFFICES ASSUME NEW i \in 1 .. Len(saves'), NEW k \in 1 .. Len(saves'), i < k
                 PROVE  saves'[i].save < saves'[k].save
      OBVIOUS
    <3>1. i + 1 \in 1 .. Len(saves) /\ k + 1 \in 1 .. Len(saves) /\ i + 1 < k + 1
      BY <1>3
    <3> QED
      BY <1>3, <3>1 DEF PaneInv, Numbered
  <2>2. \A r \in answers : r.job.save < j.save /\ r.job.save # j.save
    <3>1. \A r \in answers : r.job.save < j.save /\ r.job.save \in Nat /\ j.save \in Nat
      BY <1>2, <1>5 DEF PaneInv, Numbered, PaneStateTyped, GoodSave
    <3> QED
      BY <3>1
  <2>3. \A r \in answers' : r \in answers \/ r.job = j
    BY DEF j
  <2>4. \A r \in answers', i \in 1 .. Len(saves') : r.job.save < saves'[i].save
    BY <1>3, <1>6, <2>3 DEF PaneInv, Numbered
  <2>5. \A q, r \in answers' : q.job.save = r.job.save => q = r
    BY <2>2 DEF PaneInv, Numbered, j
  <2>6. ASSUME NEW i \in 1 .. Len(saves'), saves'[i].save <= latest'.pane
        PROVE  \E k \in 1 .. Len(saves') : saves'[k].save = latest'.pane
    <3>1. saves[i + 1].save <= latest.pane /\ i + 1 \in 1 .. Len(saves)
      BY <1>3, <2>6 DEF paneShown
    <3>2. PICK k \in 1 .. Len(saves) : saves[k].save = latest.pane
      BY <3>1 DEF PaneInv, Numbered
    <3>3. k # 1
      <4>1. j.save < saves[i + 1].save
        BY <1>3, <1>6
      <4>2. j.save \in Nat /\ latest.pane \in Nat /\ saves[i + 1].save \in Nat
        BY <1>1, <1>5, <3>1 DEF PaneInv, PaneStateTyped, GoodSave
      <4>3. j.save < latest.pane
        BY <3>1, <4>1, <4>2
      <4> QED
        BY <1>2, <3>2, <4>2, <4>3
    <3> QED
      BY <1>4, <3>2, <3>3 DEF paneShown
  <2> QED
    BY <2>1, <2>4, <2>5, <2>6 DEF Numbered
<1> QED
  BY <1>2, <1>3, <1>4, <1>5, <1>6, <1>9, <1>10 DEF j

\* What is said of the newest list is true of the save that is taken, too.
LEMMA NewestTaken ==
  ASSUME PaneInv, saves # <<>>, saves' = Tail(saves), saved' \in PaneStore,
         NEW ok \in BOOLEAN,
         answers' = answers \cup {[job |-> Head(saves), ok |-> ok, stored |-> saved']},
         UNCHANGED paneShown,
         ok => IF Head(saves).kind = "list" THEN saved'.list = Head(saves).list
               ELSE saved'.recents # <<>> /\ Head(saved'.recents) = Head(saves).path
  PROVE  NewestIsShown'
<1> DEFINE j == Head(saves)
<1>1. /\ j = saves[1] /\ 1 \in 1 .. Len(saves)
      /\ \A i \in 1 .. Len(saves') : i + 1 \in 1 .. Len(saves) /\ saves'[i] = saves[i + 1]
      /\ UNCHANGED <<listed, latest, failed>>
  BY SaveTaken DEF paneShown
<1> HIDE DEF j
<1>2. \A i \in 1 .. Len(saves') :
       /\ saves'[i].kind = "list" => saves'[i].save <= latest.pane
       /\ saves'[i].save = latest.pane =>
            saves'[i].kind = "list" /\ saves'[i].list = listed /\ ~failed
       /\ saves'[i].kind = "recent" /\ saves'[i].save > latest.pane /\ saves'[i].listed
            /\ ~failed => saves'[i].path \in Listed(listed)
  BY <1>1 DEF PaneInv, NewestIsShown
<1>3. /\ j.kind = "list" => j.save <= latest.pane
      /\ j.save = latest.pane => j.kind = "list" /\ j.list = listed /\ ~failed
  BY <1>1 DEF PaneInv, NewestIsShown
<1>4. \A r \in answers' : r \in answers \/ r = [job |-> j, ok |-> ok, stored |-> saved']
  BY DEF j
<1>5. \A r \in answers' :
       /\ r.job.kind = "list" => r.job.save <= latest.pane
       /\ r.job.save = latest.pane =>
            /\ r.job.kind = "list" /\ ~failed
            /\ latest.save = latest.pane => r.job.list = listed
       /\ r.ok => IF r.job.kind = "list" THEN r.stored.list = r.job.list
                  ELSE r.stored.recents # <<>> /\ Head(r.stored.recents) = r.job.path
  <2> SUFFICES ASSUME NEW r \in answers'
               PROVE  /\ r.job.kind = "list" => r.job.save <= latest.pane
                      /\ r.job.save = latest.pane =>
                           /\ r.job.kind = "list" /\ ~failed
                           /\ latest.save = latest.pane => r.job.list = listed
                      /\ r.ok => IF r.job.kind = "list" THEN r.stored.list = r.job.list
                                 ELSE /\ r.stored.recents # <<>>
                                      /\ Head(r.stored.recents) = r.job.path
    OBVIOUS
  <2>1. CASE r \in answers
    BY <2>1 DEF PaneInv, NewestIsShown
  <2>2. CASE r = [job |-> j, ok |-> ok, stored |-> saved']
    <3>1. r.job = j /\ r.ok = ok /\ r.stored = saved'
      BY <2>2
    <3> QED
      BY <1>3, <3>1 DEF j
  <2> QED
    BY <1>4, <2>1, <2>2
<1> QED
  BY <1>1, <1>2, <1>5 DEF NewestIsShown

\* A list that is written before the newest leaves the newest in the queue, and
\* the newest is what is shown.
LEMMA ListWritten ==
  ASSUME PaneInv, saves # <<>>, Head(saves).kind = "list", WriteList
  PROVE  Covered'
<1> DEFINE j == Head(saves)
<1>1. /\ saves' = Tail(saves) /\ UNCHANGED paneShown
      /\ saved' = [saved EXCEPT !.list = j.list]
      /\ answers' = answers \cup {[job |-> j, ok |-> TRUE, stored |-> saved']}
  BY DEF WriteList, Store
<1>2. j = saves[1] /\ 1 \in 1 .. Len(saves) /\ GoodSave(j)
  <2>1. saves \in Seq(Job) /\ \A i \in 1 .. Len(saves) : GoodSave(saves[i])
    BY DEF PaneInv, PaneStateTyped
  <2> QED
    BY <2>1, HeadTailProperties, EmptySeq
<1> HIDE DEF j
<1>3. saved' \in PaneStore /\ saved'.list = j.list
  BY <1>1, <1>2 DEF PaneInv, PaneStateTyped, PaneStore, GoodSave, GoodList, SoundList, j
<1>4. /\ \A i \in 1 .. Len(saves) : i # 1 =>
           i - 1 \in 1 .. Len(saves') /\ saves'[i - 1] = saves[i]
      /\ \A i \in 1 .. Len(saves') : i + 1 \in 1 .. Len(saves) /\ saves'[i] = saves[i + 1]
      /\ PaneStateTyped' /\ UNCHANGED <<listed, latest, failed>>
  BY <1>1, <1>3, SaveTaken DEF j, paneShown
<1>5. /\ j.save \in Nat /\ latest.pane \in Nat /\ j.save <= latest.pane
      /\ j.save = latest.pane => j.list = listed
  BY <1>2 DEF PaneInv, PaneStateTyped, NewestIsShown, GoodSave, j
<1>6. CASE j.save # latest.pane
  <2>1. PICK k \in 1 .. Len(saves) : saves[k].save = latest.pane
    BY <1>2, <1>5 DEF PaneInv, Numbered
  <2>2. k # 1
    BY <1>2, <1>6, <2>1
  <2> QED
    BY <1>4, <2>1, <2>2 DEF Covered, NewestIsStored
<1>7. CASE j.save = latest.pane
  <2>1. \A r \in answers' : r.job.save \in Nat /\ r.job.save <= latest.pane
    <3>1. \A r \in answers : r.job.save < saves[1].save
      BY <1>2 DEF PaneInv, Numbered
    <3>2. \A r \in answers' : r \in answers \/ r.job = j
      BY <1>1
    <3>3. \A r \in answers' : r.job.save \in Nat
      BY <1>4 DEF PaneStateTyped, GoodSave
    <3> QED
      BY <1>2, <1>5, <1>7, <3>1, <3>2, <3>3
  <2>2. \A r \in answers' : ~Opened(r)'
    BY <1>4, <1>5, <2>1 DEF Opened
  <2>3. Coming' = {}
    BY <2>2 DEF Coming
  <2>4. saved'.list = listed'
    BY <1>3, <1>4, <1>5, <1>7
  <2> QED
    BY <2>2, <2>3, <2>4 DEF Covered
<1> QED
  BY <1>6, <1>7

\* A project that was opened joins the stored list, and its answer is coming.
LEMMA RecentWritten ==
  ASSUME PaneInv, LibraryAssumption, PaneAssumption, saves # <<>>,
         Head(saves).kind = "recent", WriteList
  PROVE  Covered'
<1> DEFINE j == Head(saves)
           p == j.path
<1>0. PICK a : a = [job |-> j, ok |-> TRUE, stored |-> saved']
  OBVIOUS
<1>1. /\ saves' = Tail(saves) /\ UNCHANGED paneShown
      /\ saved' = Remembering(saved, p)
      /\ answers' = answers \cup {a}
  BY <1>0 DEF WriteList, Store
<1>2. j = saves[1] /\ 1 \in 1 .. Len(saves) /\ GoodSave(j)
  <2>1. saves \in Seq(Job) /\ \A i \in 1 .. Len(saves) : GoodSave(saves[i])
    BY DEF PaneInv, PaneStateTyped
  <2> QED
    BY <2>1, HeadTailProperties, EmptySeq
<1>2a. j.kind = "recent" /\ p \in Projects
  BY <1>2 DEF GoodSave
<1>3. saved' \in PaneStore /\ saved'.list = Remember(saved.list, p) /\ saved \in PaneStore
  <2>1. saved \in PaneStore
    BY DEF PaneInv, PaneStateTyped
  <2> QED
    BY <1>1, <1>2a, <2>1, RememberingIs
<1>3a. SoundList(saved.list) /\ SoundList(listed)
  BY <1>3 DEF PaneStore, GoodList, PaneInv, PaneStateTyped
<1>4. /\ \A i \in 1 .. Len(saves) : i # 1 =>
           i - 1 \in 1 .. Len(saves') /\ saves'[i - 1] = saves[i]
      /\ UNCHANGED <<listed, latest, failed>>
  BY <1>0, <1>1, <1>3, SaveTaken DEF j, paneShown
<1>5. j.save # latest.pane
  BY <1>2, <1>2a DEF PaneInv, NewestIsShown, j
<1> SUFFICES ASSUME NewestIsStored'
             PROVE  /\ Placed(saved'.list) = Placed(listed)
                    /\ \A r \in answers' : Opened(r)' => Placed(r.stored.list) = Placed(listed)
                    /\ Cardinality(Listed(listed) \cup Coming') <= MaxProjects =>
                         ToSet(saved'.list) = ToSet(listed) \cup {NewProject(q) : q \in Coming'}
  BY <1>4 DEF Covered
<1>6. NewestIsStored
  <2>1. ~failed
    BY <1>4 DEF NewestIsStored
  <2>2. \A i \in 1 .. Len(saves) : saves[i].save # latest.pane
    BY <1>2, <1>4, <1>5 DEF NewestIsStored
  <2>3. \A r \in answers : r.job.save = latest.pane => r.ok
    BY <1>1, <1>4 DEF NewestIsStored
  <2> QED
    BY <2>1, <2>2, <2>3 DEF NewestIsStored
<1>7. j.save > latest.pane
  <2>1. ~(saves[1].save <= latest.pane)
    BY <1>2, <1>6 DEF PaneInv, Numbered, NewestIsStored
  <2> QED
    BY <1>2, <2>1 DEF PaneInv, PaneStateTyped, GoodSave
<1>8. /\ Placed(saved.list) = Placed(listed)
      /\ \A r \in answers : Opened(r) => Placed(r.stored.list) = Placed(listed)
      /\ Cardinality(Listed(listed) \cup Coming) <= MaxProjects =>
           ToSet(saved.list) = ToSet(listed) \cup {NewProject(q) : q \in Coming}
  BY <1>6 DEF PaneInv, Covered
<1>9. Placed(saved'.list) = Placed(listed)
  BY <1>2a, <1>3, <1>3a, <1>8, RememberKeeps
<1>10. a.job = j /\ a.ok = TRUE /\ a.stored = saved'
  BY <1>0
<1>11. \A r \in answers : Opened(r)' = Opened(r)
  BY <1>4 DEF Opened
<1>12. Opened(a)'
  BY <1>2a, <1>4, <1>7, <1>10 DEF Opened
<1> HIDE DEF j, p
<1>13. \A r \in answers' : Opened(r)' => Placed(r.stored.list) = Placed(listed)
  BY <1>1, <1>8, <1>9, <1>10, <1>11
<1>14. Coming' = Coming \cup (IF ~j.listed /\ p \in Listed(saved'.list) /\ p \notin Listed(listed)
                              THEN {p} ELSE {})
  <2>1. \A q \in Projects \ Listed(listed) : q \in Coming' <=>
          \/ q \in Coming
          \/ ~j.listed /\ p = q /\ q \in Listed(saved'.list)
    <3> SUFFICES ASSUME NEW q \in Projects \ Listed(listed)
                 PROVE  q \in Coming' <=>
                          \/ q \in Coming
                          \/ ~j.listed /\ p = q /\ q \in Listed(saved'.list)
      OBVIOUS
    <3>1. q \in Coming' <=>
            \E r \in answers' : /\ Opened(r)' /\ ~r.job.listed /\ r.job.path = q
                                /\ q \in Listed(r.stored.list)
      BY <1>4 DEF Coming
    <3>2. q \in Coming <=>
            \E r \in answers : /\ Opened(r) /\ ~r.job.listed /\ r.job.path = q
                               /\ q \in Listed(r.stored.list)
      BY DEF Coming
    <3>3. a.job.listed = j.listed /\ a.job.path = p
      BY <1>10 DEF p
    <3>4. (\E r \in answers' : /\ Opened(r)' /\ ~r.job.listed /\ r.job.path = q
                               /\ q \in Listed(r.stored.list))
            <=> \/ \E r \in answers : /\ Opened(r)' /\ ~r.job.listed /\ r.job.path = q
                                      /\ q \in Listed(r.stored.list)
                \/ /\ Opened(a)' /\ ~a.job.listed /\ a.job.path = q
                   /\ q \in Listed(a.stored.list)
      BY <1>1
    <3>5. (\E r \in answers : /\ Opened(r)' /\ ~r.job.listed /\ r.job.path = q
                              /\ q \in Listed(r.stored.list))
            <=> q \in Coming
      BY <1>11, <3>2
    <3>6. (/\ Opened(a)' /\ ~a.job.listed /\ a.job.path = q /\ q \in Listed(a.stored.list))
            <=> ~j.listed /\ p = q /\ q \in Listed(saved'.list)
      BY <1>10, <1>12, <3>3
    <3> QED
      BY <3>1, <3>4, <3>5, <3>6
  <2>2. Coming' \subseteq Projects \ Listed(listed) /\ Coming \subseteq Projects \ Listed(listed)
    BY <1>4 DEF Coming
  <2> QED
    BY <1>2a, <2>1, <2>2
<1>15. ASSUME Cardinality(Listed(listed) \cup Coming') <= MaxProjects
       PROVE  ToSet(saved'.list) = ToSet(listed) \cup {NewProject(q) : q \in Coming'}
  <2> DEFINE U == Listed(listed) \cup Coming
  <2>1. IsFiniteSet(U) /\ Cardinality(U) \in Nat /\ MaxProjects \in Nat
    BY ComingIs DEF LibraryAssumption
  <2>2. /\ IsFiniteSet(U \cup {p})
        /\ Cardinality(U \cup {p}) = IF p \in U THEN Cardinality(U) ELSE Cardinality(U) + 1
    <3> HIDE DEF U
    <3> QED
      BY <2>1, FS_AddElement
  <2>3. Listed(listed) \cup Coming' = U \/ Listed(listed) \cup Coming' = U \cup {p}
    BY <1>14
  <2>4. Cardinality(U) <= MaxProjects
    <3> HIDE DEF U
    <3>1. Cardinality(U \cup {p}) <= MaxProjects => Cardinality(U) <= MaxProjects
      BY <2>1, <2>2
    <3> QED
      BY <1>15, <2>3, <3>1
  <2>5. ToSet(saved.list) = ToSet(listed) \cup {NewProject(q) : q \in Coming}
    BY <1>8, <2>4
  <2>6. Listed(saved.list) = U
    <3>1. \A q : q \in Listed(saved.list) <=> q \in Projects /\ \E e \in ToSet(saved.list) : e.item = q
      BY <1>3a, ListedIs
    <3>2. \A q : q \in Listed(listed) <=> q \in Projects /\ \E e \in ToSet(listed) : e.item = q
      BY <1>3a, ListedIs
    <3>3. \A q : NewProject(q).item = q
      BY DEF NewProject
    <3>4. Coming \subseteq Projects
      BY DEF Coming
    <3>5. ASSUME NEW q
          PROVE  q \in Listed(saved.list) <=> q \in U
      <4>1. (\E e \in ToSet(saved.list) : e.item = q) <=>
              (\E e \in ToSet(listed) : e.item = q) \/ q \in Coming
        BY <2>5, <3>3
      <4> QED
        BY <3>1, <3>2, <3>4, <4>1
    <3> QED
      BY <3>5
  <2> HIDE DEF U
  <2>7. CASE p \in U
    <3>1. Coming' = Coming
      BY <1>14, <2>7 DEF U
    <3>2. saved'.list = saved.list
      BY <1>2a, <1>3, <1>3a, <2>6, <2>7, RememberCases
    <3> QED
      BY <2>5, <3>1, <3>2
  <2>8. CASE p \notin U
    <3>1. p \notin Listed(listed) /\ p \notin Coming
      BY <2>8 DEF U
    <3>2. ~j.listed
      <4>1. j.listed \in BOOLEAN
        BY <1>2 DEF GoodSave, Job
      <4>2. j.listed => p \in Listed(listed)
        BY <1>2, <1>2a, <1>6, <1>7 DEF PaneInv, NewestIsShown, NewestIsStored, p
      <4> QED
        BY <3>1, <4>2
    <3>3. CASE p \in Listed(saved'.list)
      <4>1. Coming' = Coming \cup {p}
        BY <1>14, <3>1, <3>2, <3>3
      <4>2. Listed(listed) \cup Coming' = U \cup {p}
        BY <4>1 DEF U
      <4>3. Cardinality(Listed(saved.list)) < MaxProjects
        <5>1. Cardinality(U \cup {p}) = Cardinality(U) + 1
          BY <2>2, <2>8
        <5>2. Cardinality(U \cup {p}) <= MaxProjects
          BY <1>15, <4>2
        <5>3. Cardinality(U) < MaxProjects
          BY <2>1, <5>1, <5>2
        <5> QED
          BY <2>6, <5>3
      <4>4. ToSet(saved'.list) = ToSet(saved.list) \cup {NewProject(p)}
        BY <1>2a, <1>3, <1>3a, <2>6, <2>8, <4>3, RememberCases
      <4> QED
        BY <2>5, <4>1, <4>4
    <3>4. CASE p \notin Listed(saved'.list)
      <4>1. Coming' = Coming
        BY <1>14, <3>4
      <4>2. saved'.list = saved.list
        <5>1. p \notin Listed(saved.list)
          BY <2>6, <2>8
        <5>2. Cardinality(Listed(saved.list)) < MaxProjects => FALSE
          BY <1>2a, <1>3, <1>3a, <3>4, <5>1, RememberCases
        <5>3. Cardinality(Listed(saved.list)) >= MaxProjects
          BY <2>1, <2>6, <5>2
        <5>4. ToSet(saved.list) = Placed(saved.list)
          <6> SUFFICES ASSUME ToSet(saved.list) # Placed(saved.list)
                       PROVE  FALSE
            OBVIOUS
          <6>1. PICK e \in ToSet(saved.list) :
                  Listed(saved'.list) = (Listed(saved.list) \ {e.item}) \cup {p}
            BY <1>2a, <1>3, <1>3a, <5>1, <5>3, RememberCases
          <6> QED
            BY <3>4, <6>1
        <5> QED
          BY <1>2a, <1>3, <1>3a, <5>1, <5>3, <5>4, RememberCases
      <4> QED
        BY <2>5, <4>1, <4>2
    <3> QED
      BY <3>3, <3>4
  <2> QED
    BY <2>7, <2>8
<1> QED
  BY <1>9, <1>13, <1>15

\* The writer stores a save (save_project_library_at, remember_at).
LEMMA WriteListStep ==
  ASSUME PaneInv, LibraryAssumption, PaneAssumption, WriteList
  PROVE  PaneInv'
<1> DEFINE j == Head(saves)
<1>1. /\ saves # <<>> /\ saves' = Tail(saves) /\ UNCHANGED paneShown
      /\ answers' = answers \cup {[job |-> j, ok |-> TRUE, stored |-> saved']}
      /\ saved' = Store(j)
  BY DEF WriteList
<1>2. GoodSave(j)
  <2>1. saves \in Seq(Job) /\ \A i \in 1 .. Len(saves) : GoodSave(saves[i])
    BY DEF PaneInv, PaneStateTyped
  <2> QED
    BY <1>1, <2>1, HeadTailProperties, EmptySeq
<1>3. j.kind \in {"list", "recent"} /\ saved \in PaneStore
  BY <1>2 DEF GoodSave, Job, PaneInv, PaneStateTyped
<1> HIDE DEF j
<1>4. /\ saved' \in PaneStore
      /\ IF j.kind = "list" THEN saved'.list = j.list
         ELSE saved'.recents # <<>> /\ Head(saved'.recents) = j.path
  <2>1. CASE j.kind = "list"
    BY <1>1, <1>2, <1>3, <2>1 DEF Store, PaneStore, GoodSave, GoodList, SoundList
  <2>2. CASE j.kind = "recent"
    BY <1>1, <1>2, <1>3, <2>2, RememberingIs DEF Store, GoodSave
  <2> QED
    BY <1>3, <2>1, <2>2
<1>5. PaneStateTyped' /\ Numbered' /\ NewestIsShown'
  BY <1>1, <1>4, SaveTaken, NewestTaken DEF j
<1>6. Covered'
  BY <1>1, <1>3, ListWritten, RecentWritten DEF j
<1> QED
  BY <1>5, <1>6 DEF PaneInv

\* A write that fails stores nothing, and its answer says so.
LEMMA WriteListFailsStep ==
  ASSUME PaneInv, WriteListFails
  PROVE  PaneInv'
<1> DEFINE j == Head(saves)
           a == [job |-> j, ok |-> FALSE, stored |-> saved]
<1>1. /\ saves # <<>> /\ saves' = Tail(saves) /\ UNCHANGED <<paneShown, saved>>
      /\ answers' = answers \cup {a}
  BY DEF WriteListFails
<1>2. saved' \in PaneStore
  BY <1>1 DEF PaneInv, PaneStateTyped
<1>3. /\ PaneStateTyped' /\ Numbered' /\ NewestIsShown'
      /\ j = saves[1] /\ 1 \in 1 .. Len(saves)
      /\ \A i \in 1 .. Len(saves) : i # 1 =>
           i - 1 \in 1 .. Len(saves') /\ saves'[i - 1] = saves[i]
  BY <1>1, <1>2, SaveTaken, NewestTaken
<1>4. UNCHANGED <<listed, latest, failed, error>>
  BY <1>1 DEF paneShown
<1>5. a.job = j /\ a.ok = FALSE /\ a \in answers'
  BY <1>1
<1> HIDE DEF j, a
<1>6. NewestIsStored' => NewestIsStored
  BY <1>1, <1>3, <1>4, <1>5 DEF NewestIsStored
<1>7. \A r \in answers' : Opened(r)' => r \in answers /\ Opened(r)
  BY <1>1, <1>4, <1>5 DEF Opened
<1>8. \A r \in answers : r \in answers' /\ Opened(r) => Opened(r)'
  BY <1>1, <1>4 DEF Opened
<1>9. Coming' = Coming
  BY <1>1, <1>4, <1>7, <1>8 DEF Coming
<1>10. Covered'
  BY <1>1, <1>4, <1>6, <1>7, <1>9 DEF PaneInv, Covered
<1> QED
  BY <1>3, <1>4, <1>10 DEF PaneInv

\* An answer that saves nothing leaves the others numbered as they were.
LEMMA AnswerTaken ==
  ASSUME PaneInv, NEW r \in answers, answers' = answers \ {r},
         UNCHANGED <<latest, saves, saved>>, GoodList(listed'), failed' \in BOOLEAN,
         error' \in {"none", "save", "refused"},
         menu' \in Projects \cup {NoMenu}, groupForm' \in {"closed", "open", "pending"}
  PROVE  PaneStateTyped' /\ Numbered'
<1>1. IsFiniteSet(answers')
  BY FS_Subset DEF PaneInv, PaneStateTyped
<1>2. PaneStateTyped'
  BY <1>1 DEF PaneInv, PaneStateTyped, GoodSave
<1>3. Numbered'
  BY DEF PaneInv, Numbered
<1> QED
  BY <1>2, <1>3

\* An answer that changes nothing of the list shown, and that no project
\* depends on.
LEMMA AnswerDropped ==
  ASSUME PaneInv, NEW r \in answers, answers' = answers \ {r},
         UNCHANGED <<listed, latest, saves, saved>>,
         failed' = IF r.job.save = latest.pane THEN ~r.ok ELSE failed,
         error' \in {"none", "save", "refused"},
         UNCHANGED menu, groupForm' \in {"closed", "open", "pending"},
         NewestIsStored => Coming' = Coming
  PROVE  PaneInv'
<1>1. failed' \in BOOLEAN
  BY DEF PaneInv, PaneStateTyped
<1>2. PaneStateTyped' /\ Numbered'
  <2>1. GoodList(listed') /\ menu' \in Projects \cup {NoMenu}
    BY DEF PaneInv, PaneStateTyped
  <2> QED
    BY <1>1, <2>1, AnswerTaken
<1>3. failed => failed'
  BY DEF PaneInv, NewestIsShown
<1>4. \A q \in answers' : q \in answers /\ q.job.save # r.job.save
  BY DEF PaneInv, Numbered
<1>5. r.job.save = latest.pane => \A i \in 1 .. Len(saves) : saves[i].save # latest.pane
  <2>1. /\ \A i \in 1 .. Len(saves) : r.job.save < saves[i].save /\ saves[i].save \in Nat
        /\ r.job.save \in Nat
    BY DEF PaneInv, Numbered, PaneStateTyped, GoodSave
  <2> QED
    BY <2>1
<1>6. NewestIsShown'
  <2>1. \A i \in 1 .. Len(saves) : saves[i].save = latest.pane => failed' = failed
    BY <1>5
  <2>2. \A q \in answers' : q.job.save = latest.pane => failed' = failed
    BY <1>4
  <2> QED
    BY <1>3, <1>4, <2>1, <2>2 DEF PaneInv, NewestIsShown
<1>7. NewestIsStored' => NewestIsStored
  <2> SUFFICES ASSUME NewestIsStored'
               PROVE  NewestIsStored
    OBVIOUS
  <2>1. ~failed /\ (r.job.save = latest.pane => r.ok)
    BY <1>3 DEF NewestIsStored
  <2>2. \A q \in answers : q = r \/ q \in answers'
    OBVIOUS
  <2>3. \A q \in answers : q.job.save = latest.pane => q.ok
    BY <2>1, <2>2 DEF NewestIsStored
  <2>4. \A i \in 1 .. Len(saves) : saves[i].save # latest.pane
    BY DEF NewestIsStored
  <2> QED
    BY <2>1, <2>3, <2>4 DEF NewestIsStored
<1>8. Covered'
  <2>1. \A q \in answers' : q \in answers /\ Opened(q)' = Opened(q)
    BY DEF Opened
  <2> QED
    BY <1>7, <2>1 DEF PaneInv, Covered
<1> QED
  BY <1>2, <1>6, <1>8 DEF PaneInv

\* The other answers bring what they brought before.
LEMMA OthersComing ==
  ASSUME NEW r \in answers, answers' = answers \ {r}, UNCHANGED <<listed, latest>>
  PROVE  /\ ~Opened(r) => Coming' = Coming
         /\ Coming' \subseteq Coming
         /\ \A q \in Coming \ Coming' :
              Opened(r) /\ ~r.job.listed /\ r.job.path = q /\ q \in Listed(r.stored.list)
BY DEF Coming, Opened

\* The answer to a list: finish_project_library_save.
LEMMA FinishListStep ==
  ASSUME PaneInv, NEW r \in answers, r.job.kind = "list", Handle(r)
  PROVE  PaneInv' /\ UNCHANGED listed
<1>1. /\ answers' = answers \ {r} /\ FinishList(r) /\ FinishGroupForm(r)
      /\ UNCHANGED <<menu, saved, failures>>
  BY DEF Handle
<1>2. /\ r.job.save <= latest.pane /\ latest.pane <= latest.save
      /\ r.job.save \in Nat /\ latest.pane \in Nat /\ latest.save \in Nat
      /\ r.ok \in BOOLEAN /\ error \in {"none", "save", "refused"}
      /\ groupForm \in {"closed", "open", "pending"}
  BY DEF PaneInv, NewestIsShown, PaneStateTyped, GoodSave
<1>3. UNCHANGED listed
  <2>1. CASE r.job.save = latest.save /\ r.ok
    <3>1. r.job.save = latest.pane /\ latest.save = latest.pane
      BY <1>2, <2>1
    <3>2. r.stored.list = r.job.list /\ r.job.list = listed
      BY <2>1, <3>1 DEF PaneInv, NewestIsShown
    <3> QED
      BY <1>1, <3>2 DEF FinishList
  <2>2. CASE ~(r.job.save = latest.save /\ r.ok)
    BY <1>1, <2>2 DEF FinishList
  <2> QED
    BY <2>1, <2>2
<1>4. Coming' = Coming
  <2>1. ~Opened(r)
    BY DEF Opened
  <2>2. UNCHANGED latest
    BY <1>1 DEF FinishList
  <2> QED
    BY <1>1, <1>3, <2>1, <2>2, OthersComing
<1>5. /\ failed' = IF r.job.save = latest.pane THEN ~r.ok ELSE failed
      /\ error' = IF r.job.save = latest.pane THEN IF r.ok THEN "none" ELSE "save" ELSE error
      /\ UNCHANGED <<latest, saves>>
  BY <1>1 DEF FinishList
<1>6. groupForm' \in {"closed", "open", "pending"}
  BY <1>1, <1>2 DEF FinishGroupForm
<1>7. error' \in {"none", "save", "refused"}
  BY <1>2, <1>5 DEF PaneInv
<1> QED
  BY <1>1, <1>3, <1>4, <1>5, <1>6, <1>7, AnswerDropped

\* What is known of the answer to a repository that was opened.
LEMMA RecentIs ==
  ASSUME PaneInv, NEW r \in answers, r.job.kind = "recent"
  PROVE  /\ r.job.save # latest.pane /\ r.job.save \in Nat /\ latest.pane \in Nat
         /\ latest.save \in Nat /\ r.job.save <= latest.save
         /\ r.job.path \in Projects /\ r.ok \in BOOLEAN
         /\ GoodList(r.stored.list) /\ GoodList(listed)
         /\ r.ok => Head(r.stored.recents) = r.job.path
<1>1. GoodSave(r.job) /\ r.stored \in PaneStore /\ r.ok \in BOOLEAN
  BY DEF PaneInv, PaneStateTyped
<1>2. r.job.save # latest.pane /\ (r.ok => Head(r.stored.recents) = r.job.path)
  BY DEF PaneInv, NewestIsShown
<1>3. latest.pane \in Nat /\ latest.save \in Nat /\ GoodList(listed)
  BY DEF PaneInv, PaneStateTyped
<1> QED
  BY <1>1, <1>2, <1>3 DEF GoodSave, PaneStore

\* A project the answer stored is shown already, or there is no place for it.
LEMMA NothingAbsorbed ==
  ASSUME PaneInv, LibraryAssumption, NEW r \in answers, r.job.kind = "recent", r.ok,
         ~Absorbs(r), NewestIsStored, answers' = answers \ {r}, UNCHANGED <<listed, latest>>
  PROVE  Coming' = Coming
<1> DEFINE p == r.job.path
           stored == r.stored.list
<1>1. Coming' \subseteq Coming
  BY OthersComing
<1> SUFFICES ASSUME NEW q \in Coming \ Coming'
             PROVE  FALSE
  BY <1>1
<1>2. Opened(r) /\ ~r.job.listed /\ p = q /\ q \in Listed(stored)
  BY OthersComing
<1>3. p \in Projects /\ p \notin Listed(listed)
  BY <1>2 DEF Coming
<1>4. Remember(listed, p) = listed
  BY <1>2, RecentIs DEF Absorbs
<1>5. SoundList(listed) /\ SoundList(stored) /\ GoodList(stored)
  BY RecentIs DEF GoodList
<1>6. Cardinality(Listed(listed)) \in Nat /\ MaxProjects \in Nat /\ IsFiniteSet(Listed(listed))
  BY <1>5, ListedIs DEF LibraryAssumption
<1>7. Cardinality(Listed(listed)) >= MaxProjects /\ ToSet(listed) = Placed(listed)
  <2>1. ~(Cardinality(Listed(listed)) < MaxProjects)
    BY <1>3, <1>4, <1>5, RememberCases
  <2>2. Cardinality(Listed(listed)) >= MaxProjects
    BY <1>6, <2>1
  <2>3. ASSUME ToSet(listed) # Placed(listed)
        PROVE  FALSE
    <3>1. PICK e \in ToSet(listed) : Listed(Remember(listed, p)) = (Listed(listed) \ {e.item}) \cup {p}
      BY <1>3, <1>5, <2>2, <2>3, RememberCases
    <3> QED
      BY <1>3, <1>4, <3>1
  <2> QED
    BY <2>2, <2>3
<1>8. Placed(stored) = Placed(listed)
  BY <1>2 DEF PaneInv, Covered
<1>9. Listed(listed) \subseteq Listed(stored)
  <2>1. ToSet(listed) \subseteq ToSet(stored)
    BY <1>7, <1>8 DEF Placed
  <2> QED
    BY <1>5, <2>1, ListedIs
<1>10. Listed(listed) \cup {p} \subseteq Listed(stored)
  BY <1>2, <1>9
<1>11. Cardinality(Listed(listed) \cup {p}) = Cardinality(Listed(listed)) + 1
  BY <1>3, <1>6, FS_AddElement
<1>12. /\ Cardinality(Listed(listed) \cup {p}) <= Cardinality(Listed(stored))
       /\ Cardinality(Listed(stored)) <= MaxProjects /\ Cardinality(Listed(stored)) \in Nat
  BY <1>5, <1>10, ListedIs, FS_Subset DEF GoodList
<1> HIDE DEF p, stored
<1> QED
  BY <1>6, <1>7, <1>11, <1>12

\* The answer adds its project, and the list that results is not saved again:
\* nothing newer was stored without the project.
LEMMA Absorbed ==
  ASSUME PaneInv, LibraryAssumption, NEW r \in answers, r.job.kind = "recent", r.ok,
         Absorbs(r), listed' = Remember(listed, r.job.path),
         ~Resave(r, Remember(listed, r.job.path)),
         answers' = answers \ {r}, UNCHANGED <<latest, failed, error, saves, menu, saved>>,
         groupForm' \in {"closed", "open", "pending"}
  PROVE  PaneInv'
<1> DEFINE p == r.job.path
<1>1. /\ r.job.save # latest.pane /\ r.job.save \in Nat /\ latest.pane \in Nat
      /\ latest.save \in Nat /\ r.job.save <= latest.save
      /\ p \in Projects /\ GoodList(r.stored.list) /\ GoodList(listed)
      /\ Head(r.stored.recents) = p
  BY RecentIs
<1>2. SoundList(listed) /\ SoundList(listed') /\ GoodList(listed')
  BY <1>1, RememberCases, RememberKeeps DEF GoodList
<1>3. ~r.job.listed /\ p \in Listed(r.stored.list) /\ listed' # listed
  BY <1>1 DEF Absorbs
<1>4. p \notin Listed(listed)
  BY <1>1, <1>2, <1>3, RememberCases
<1>5. /\ Cardinality(Listed(listed)) \in Nat /\ MaxProjects \in Nat
  BY <1>2, ListedIs DEF LibraryAssumption
<1>6. ~failed =>
        /\ latest.pane < r.job.save
        /\ ToSet(listed') = ToSet(listed) \cup {NewProject(p)}
        /\ Listed(listed') = Listed(listed) \cup {p}
  <2> SUFFICES ASSUME ~failed
               PROVE  /\ latest.pane < r.job.save
                      /\ ToSet(listed') = ToSet(listed) \cup {NewProject(p)}
                      /\ Listed(listed') = Listed(listed) \cup {p}
    OBVIOUS
  <2>1. /\ Cardinality(Listed(listed')) # Cardinality(Listed(listed))
        /\ ~(latest.pane > r.job.save)
    BY DEF Resave
  <2>2. latest.pane < r.job.save
    BY <1>1, <2>1
  <2>3. Cardinality(Listed(listed)) < MaxProjects
    <3> SUFFICES ASSUME Cardinality(Listed(listed)) >= MaxProjects
                 PROVE  FALSE
      BY <1>5
    <3>1. CASE ToSet(listed) = Placed(listed)
      BY <1>1, <1>2, <1>3, <1>4, <3>1, RememberCases
    <3>2. CASE ToSet(listed) # Placed(listed)
      BY <1>1, <1>2, <1>4, <2>1, <3>2, RememberCases
    <3> QED
      BY <3>1, <3>2
  <2> QED
    BY <1>1, <1>2, <1>4, <2>2, <2>3, RememberCases
<1> HIDE DEF p
<1>7. PaneStateTyped' /\ Numbered'
  <2>1. /\ failed' \in BOOLEAN /\ error' \in {"none", "save", "refused"}
        /\ menu' \in Projects \cup {NoMenu}
    BY DEF PaneInv, PaneStateTyped
  <2> QED
    BY <1>2, <2>1, AnswerTaken
<1>8. /\ \A i \in 1 .. Len(saves) : r.job.save < saves[i].save /\ saves[i].save \in Nat
      /\ \A q \in answers : q.job.save \in Nat
  BY DEF PaneInv, Numbered, PaneStateTyped, GoodSave
<1>9. NewestIsShown'
  <2>1. ASSUME NEW i \in 1 .. Len(saves)
        PROVE  /\ saves[i].kind = "list" => saves[i].save <= latest.pane
               /\ saves[i].save # latest.pane \/ failed
               /\ saves[i].save = latest.pane => ~failed
               /\ saves[i].kind = "recent" /\ saves[i].save > latest.pane /\ saves[i].listed
                    /\ ~failed => saves[i].path \in Listed(listed')
    <3>1. saves[i].save # latest.pane \/ failed
      BY <1>1, <1>6, <1>8
    <3>2. ~failed => Listed(listed) \subseteq Listed(listed')
      BY <1>6
    <3> QED
      BY <3>1, <3>2 DEF PaneInv, NewestIsShown
  <2>2. ~failed => latest.save # latest.pane
    BY <1>1, <1>6
  <2>3. \A q \in answers' :
          /\ q.job.kind = "list" => q.job.save <= latest.pane
          /\ q.job.save = latest.pane =>
               /\ q.job.kind = "list" /\ ~failed
               /\ latest.save # latest.pane
          /\ q.ok => IF q.job.kind = "list" THEN q.stored.list = q.job.list
                     ELSE q.stored.recents # <<>> /\ Head(q.stored.recents) = q.job.path
    BY <2>2 DEF PaneInv, NewestIsShown
  <2> QED
    BY <2>1, <2>3 DEF NewestIsShown
<1>10. Covered'
  <2> SUFFICES ASSUME NewestIsStored'
               PROVE  /\ Placed(saved.list) = Placed(listed')
                      /\ \A q \in answers' : Opened(q)' => Placed(q.stored.list) = Placed(listed')
                      /\ Cardinality(Listed(listed') \cup Coming') <= MaxProjects =>
                           ToSet(saved.list) = ToSet(listed') \cup {NewProject(q) : q \in Coming'}
    BY DEF Covered
  <2>1. ~failed
    BY DEF NewestIsStored
  <2>2. NewestIsStored
    BY <1>1 DEF NewestIsStored
  <2>3. /\ Placed(saved.list) = Placed(listed)
        /\ \A q \in answers : Opened(q) => Placed(q.stored.list) = Placed(listed)
        /\ Cardinality(Listed(listed) \cup Coming) <= MaxProjects =>
             ToSet(saved.list) = ToSet(listed) \cup {NewProject(q) : q \in Coming}
    BY <2>2 DEF PaneInv, Covered
  <2>4. Placed(listed') = Placed(listed)
    BY <1>1, <1>2, RememberKeeps DEF p
  <2>5. /\ Listed(listed') = Listed(listed) \cup {p}
        /\ ToSet(listed') = ToSet(listed) \cup {NewProject(p)}
        /\ latest.pane < r.job.save
    BY <1>6, <2>1
  <2>6. Opened(r)
    BY <1>1, <2>5 DEF Opened
  <2>7. p \in Coming
    BY <1>1, <1>3, <1>4, <2>6 DEF Coming, p
  <2>8. Coming' = Coming \ {p}
    <3>1. \A q \in answers : Opened(q)' = Opened(q)
      BY DEF Opened
    <3>2. ASSUME NEW q \in Projects \ (Listed(listed) \cup {p})
          PROVE  q \in Coming' <=> q \in Coming
      <4>1. q \in Coming' <=>
              \E s \in answers' : /\ Opened(s)' /\ ~s.job.listed /\ s.job.path = q
                                  /\ q \in Listed(s.stored.list)
        BY <2>5 DEF Coming
      <4>2. q \in Coming <=>
              \E s \in answers : /\ Opened(s) /\ ~s.job.listed /\ s.job.path = q
                                 /\ q \in Listed(s.stored.list)
        BY DEF Coming
      <4>3. r.job.path # q
        BY DEF p
      <4> QED
        BY <3>1, <4>1, <4>2, <4>3
    <3>3. /\ Coming' \subseteq Projects \ (Listed(listed) \cup {p})
          /\ Coming \subseteq Projects \ Listed(listed)
      BY <2>5 DEF Coming
    <3> QED
      BY <3>2, <3>3
  <2>9. Listed(listed') \cup Coming' = Listed(listed) \cup Coming
    BY <2>5, <2>7, <2>8
  <2>10. ToSet(listed') \cup {NewProject(q) : q \in Coming'}
           = ToSet(listed) \cup {NewProject(q) : q \in Coming}
    BY <2>5, <2>7, <2>8
  <2>11. \A q \in answers' : Opened(q)' => Placed(q.stored.list) = Placed(listed')
    BY <2>3, <2>4 DEF Opened
  <2> QED
    BY <2>3, <2>4, <2>9, <2>10, <2>11
<1> QED
  BY <1>7, <1>9, <1>10 DEF PaneInv

\* The answer to a repository that was opened: finish_remembered_repository,
\* with absorb_remembered_project.
LEMMA FinishRecentStep ==
  ASSUME PaneInv, LibraryAssumption, NEW r \in answers, r.job.kind = "recent", Handle(r)
  PROVE  /\ PaneInv'
         /\ \/ UNCHANGED listed
            \/ \E p \in Projects : listed' = Remember(listed, p)
<1> DEFINE p == r.job.path
           list == Remember(listed, p)
<1>1. /\ answers' = answers \ {r} /\ FinishGroupForm(r) /\ UNCHANGED <<menu, saved, failures>>
  BY DEF Handle
<1>2. /\ r.job.save # latest.pane /\ r.job.save \in Nat /\ latest.pane \in Nat
      /\ p \in Projects /\ r.ok \in BOOLEAN /\ GoodList(listed)
      /\ r.ok => Head(r.stored.recents) = p
  BY RecentIs
<1>3. /\ error \in {"none", "save", "refused"}
      /\ menu \in Projects \cup {NoMenu} /\ groupForm \in {"closed", "open", "pending"}
  BY DEF PaneInv, PaneStateTyped
<1>4. groupForm' \in {"closed", "open", "pending"}
  BY <1>1, <1>3 DEF FinishGroupForm
<1>5. CASE ~r.ok
  <2>1. UNCHANGED <<listed, latest, failed, error, saves>>
    BY <1>5 DEF Handle
  <2>2. Coming' = Coming
    BY <1>1, <1>5, <2>1, OthersComing DEF Opened
  <2> QED
    BY <1>1, <1>2, <1>3, <1>4, <2>1, <2>2, AnswerDropped
<1>6. CASE r.ok
  <2>1. /\ error' = error
        /\ listed' = (IF Absorbs(r) THEN list ELSE listed)
        /\ IF Absorbs(r) /\ Resave(r, list) THEN SubmitList(list, FALSE)
           ELSE UNCHANGED <<latest, failed, saves>>
    BY <1>2, <1>6 DEF Handle, FinishRecent
  <2>2. CASE Absorbs(r) /\ Resave(r, list)
    <3>1. listed' = list /\ SubmitList(listed', FALSE)
      BY <2>1, <2>2
    <3>2. GoodList(listed')
      <4>1. SoundList(listed)
        BY <1>2 DEF GoodList
      <4> QED
        BY <1>2, <3>1, <4>1, RememberCases, RememberKeeps DEF GoodList
    <3>3. answers' \subseteq answers
      BY <1>1
    <3> HIDE DEF list
    <3>4. PaneInv'
      BY <1>1, <1>3, <1>4, <2>1, <3>1, <3>2, <3>3, SubmitListStep
    <3> QED
      BY <1>2, <3>1, <3>4 DEF list
  <2>3. CASE Absorbs(r) /\ ~Resave(r, list)
    <3>1. listed' = list /\ UNCHANGED <<latest, failed, saves>>
      BY <2>1, <2>3
    <3>2. PaneInv'
      BY <1>1, <1>4, <1>6, <2>1, <2>3, <3>1, Absorbed
    <3> QED
      BY <1>2, <3>1, <3>2
  <2>4. CASE ~Absorbs(r)
    <3>1. UNCHANGED <<listed, latest, failed, saves>>
      BY <2>1, <2>4
    <3>2. NewestIsStored => Coming' = Coming
      BY <1>1, <1>6, <2>4, <3>1, NothingAbsorbed
    <3> QED
      BY <1>1, <1>2, <1>3, <1>4, <2>1, <3>1, <3>2, AnswerDropped
  <2> QED
    BY <2>2, <2>3, <2>4
<1> QED
  BY <1>2, <1>5, <1>6

\* An answer that is handled leaves the list as it was, or adds a project to it.
LEMMA HandledStep ==
  ASSUME PaneInv, LibraryAssumption, Handled
  PROVE  /\ PaneInv'
         /\ \/ UNCHANGED listed
            \/ \E p \in Projects : listed' = Remember(listed, p)
<1>1. PICK r \in answers : Handle(r)
  BY DEF Handled
<1>2. r.job.kind \in {"list", "recent"}
  BY DEF PaneInv, PaneStateTyped, GoodSave, Job
<1> QED
  BY <1>1, <1>2, FinishListStep, FinishRecentStep

\* The list loaded at launch is in order, and the one shown.
LEMMA PaneInitGood ==
  ASSUME LibraryAssumption, PaneAssumption, PaneInit
  PROVE  PaneInv
<1>1. GoodList(Initial)
  <2> DEFINE item == [i \in DOMAIN Initial |-> Initial[i].item]
  <2>1. /\ Initial \in Seq(Entry) /\ Cardinality(Items(Initial)) = Len(Initial)
        /\ Cardinality(Listed(Initial)) <= MaxProjects
    BY DEF PaneAssumption, Validate
  <2>2. DOMAIN Initial = 1 .. Len(Initial) /\ Len(Initial) \in Nat
    BY <2>1
  <2>3. IsFiniteSet(DOMAIN Initial) /\ Cardinality(DOMAIN Initial) = Len(Initial)
    <3> DEFINE n == Len(Initial)
    <3>1. n \in Nat /\ DOMAIN Initial = 1 .. n
      BY <2>2
    <3> HIDE DEF n
    <3>2. IsFiniteSet(1 .. n) /\ Cardinality(1 .. n) = IF 1 > n THEN 0 ELSE n - 1 + 1
      BY <3>1, FS_Interval
    <3>3. Cardinality(1 .. n) = n
      BY <3>1, <3>2
    <3> QED
      BY <3>1, <3>2, <3>3 DEF n
  <2>4. item \in Surjection(DOMAIN Initial, Items(Initial))
    BY DEF Surjection, Items
  <2>5. item \in Injection(DOMAIN Initial, Items(Initial))
    <3> HIDE DEF item
    <3> QED
      BY <2>1, <2>3, <2>4, FS_Surjection
  <2>6. OneEach(Initial)
    BY <2>5 DEF Injection, IsInjective, OneEach
  <2> QED
    BY <2>1, <2>6 DEF GoodList, SoundList
<1>2. [list |-> Initial, recents |-> <<>>] \in PaneStore
  BY <1>1 DEF PaneStore, GoodList, SoundList, PaneAssumption
<1>3. saves = <<>> /\ Len(saves) = 0 /\ 1 .. Len(saves) = {} /\ answers = {}
  BY DEF PaneInit
<1>4. PaneStateTyped
  <2>1. saves \in Seq(Job) /\ IsFiniteSet(answers)
    BY <1>3, FS_EmptySet
  <2>2. latest \in [save : Nat, pane : Nat] /\ latest.pane <= latest.save
    BY DEF PaneInit
  <2>3. \A i \in 1 .. Len(saves) : GoodSave(saves[i])
    BY <1>3
  <2> QED
    BY <1>1, <1>2, <1>3, <2>1, <2>2, <2>3 DEF PaneInit, PaneStateTyped
<1>5. Numbered /\ NewestIsShown
  BY <1>3 DEF Numbered, NewestIsShown
<1>6. Covered
  <2>1. Coming = {}
    BY <1>3 DEF Coming
  <2> QED
    BY <1>3, <2>1 DEF PaneInit, Covered
<1> QED
  BY <1>4, <1>5, <1>6 DEF PaneInv, PaneInit

\* An edit of the list is saved as it is shown.
LEMMA EditStep ==
  ASSUME PaneInv, NEW list, GoodList(list), EditList(list), UNCHANGED <<answers, saved>>,
         menu' \in Projects \cup {NoMenu}, groupForm' \in {"closed", "open", "pending"}
  PROVE  PaneInv'
<1>1. /\ GoodList(listed') /\ SubmitList(listed', FALSE) /\ UNCHANGED error
      /\ error' \in {"none", "save", "refused"}
  BY DEF EditList, PaneInv, PaneStateTyped
<1> QED
  BY <1>1, SubmitListStep

\* What the user does in the pane, its menus and its dialog.
LEMMA ByUserStep ==
  ASSUME PaneInv, LibraryAssumption, ByUser
  PROVE  PaneInv'
<1>1. /\ GoodList(listed)
      /\ error \in {"none", "save", "refused"}
      /\ menu \in Projects \cup {NoMenu} /\ groupForm \in {"closed", "open", "pending"}
      /\ NoMenu \in Projects \cup {NoMenu}
  BY DEF PaneInv, PaneStateTyped
<1>2. /\ \A p : GoodList(ForgetProject(listed, p))
      /\ \A p \in Listed(listed), g \in {Top} \cup GroupIds : GoodList(Move(listed, p, g))
      /\ \A g \in Groups(listed), c \in BOOLEAN : GoodList(SetCollapsed(listed, g, c))
      /\ \A g \in Groups(listed) : GoodList(RemoveGroup(listed, g))
      /\ NextGroupId(listed) <= MaxId => GoodList(CreateGroup(listed, Top))
  BY <1>1, EditsAreGood
<1>3. ASSUME NEW p \in Projects, OpenRepository(p)
      PROVE  PaneInv'
  BY <1>3, OpenRepositoryStep
<1>4. ASSUME NEW p \in Projects, OpenMenu(p)
      PROVE  PaneInv'
  BY <1>1, <1>4, OnlyDialogs DEF OpenMenu
<1>5. CASE CloseMenu
  BY <1>1, <1>5, OnlyDialogs DEF CloseMenu
<1>6. CASE ForgetItem
  BY <1>1, <1>2, <1>6, EditStep DEF ForgetItem
<1>7. CASE RefuseMove
  BY <1>1, <1>7, OnlyDialogs DEF RefuseMove
<1>8. CASE Retry
  <2>1. SubmitList(listed', FALSE) /\ GoodList(listed') /\ error' = "none"
    BY <1>1, <1>8 DEF Retry
  <2> QED
    BY <1>1, <1>8, <2>1, SubmitListStep DEF Retry
<1>9. ASSUME NEW g \in {Top} \cup GroupIds, MoveProjectTo(g)
      PROVE  PaneInv'
  <2>1. menu \in Listed(listed)
    BY <1>9 DEF MoveProjectTo, CanMoveProject
  <2> QED
    BY <1>1, <1>2, <1>9, <2>1, EditStep DEF MoveProjectTo
<1>10. ASSUME NEW g \in GroupIds, ToggleGroup(g)
       PROVE  PaneInv'
  BY <1>1, <1>2, <1>10, EditStep DEF ToggleGroup
<1>11. ASSUME NEW g \in GroupIds, Ungroup(g)
       PROVE  PaneInv'
  BY <1>1, <1>2, <1>11, EditStep DEF Ungroup
<1>12. CASE OpenGroupForm
  BY <1>1, <1>12, OnlyDialogs DEF OpenGroupForm
<1>13. CASE SubmitGroupName
  <2>1. GoodList(listed') /\ SubmitList(listed', TRUE)
    BY <1>2, <1>13 DEF SubmitGroupName, CanCreate
  <2> QED
    BY <1>1, <1>13, <2>1, SubmitListStep DEF SubmitGroupName
<1>14. CASE CancelGroupForm
  BY <1>1, <1>14, OnlyDialogs DEF CancelGroupForm
<1>15. CASE DismissError
  BY <1>1, <1>15, OnlyDialogs DEF DismissError
<1> QED
  BY <1>3, <1>4, <1>5, <1>6, <1>7, <1>8, <1>9, <1>10, <1>11, <1>12, <1>13, <1>14, <1>15
     DEF ByUser

\* Every step of the pane and of the writer keeps the invariant.
LEMMA PaneStep ==
  ASSUME PaneInv, LibraryAssumption, PaneAssumption, [PaneNext]_paneVars
  PROVE  PaneInv'
<1>1. CASE ByUser
  BY <1>1, ByUserStep
<1>2. CASE WriteList
  BY <1>2, WriteListStep
<1>3. CASE WriteListFails
  BY <1>3, WriteListFailsStep
<1>4. CASE Handled
  BY <1>4, HandledStep
<1>5. CASE UNCHANGED paneVars
  <2>1. /\ UNCHANGED <<listed, latest, failed, saves, answers, saved, error, menu, groupForm>>
    BY <1>5 DEF paneVars, paneShown
  <2>2. /\ error \in {"none", "save", "refused"}
        /\ menu \in Projects \cup {NoMenu} /\ groupForm \in {"closed", "open", "pending"}
    BY DEF PaneInv, PaneStateTyped
  <2> QED
    BY <2>1, <2>2, OnlyDialogs
<1> QED
  BY <1>1, <1>2, <1>3, <1>4, <1>5 DEF PaneNext

\* Only the answer to the newest list makes the pane say that a save failed,
\* and it says so in the strip; only DismissError takes the strip away meanwhile.
LEMMA FailureTold ==
  ASSUME [PaneNext]_paneVars
  PROVE  FailureIsTold
<1> SUFFICES ASSUME failed', error' = "none"
             PROVE  failed /\ (error = "none" \/ DismissError)
  BY DEF FailureIsTold
<1> DEFINE Still == UNCHANGED <<failed, error>>
<1>1. ASSUME NEW list, NEW naming, SubmitList(list, naming)
      PROVE  FALSE
  BY <1>1 DEF SubmitList
<1>2. CASE ByUser
  <2>1. ASSUME NEW p \in Projects, OpenRepository(p) \/ OpenMenu(p)
        PROVE  Still
    BY <2>1 DEF OpenRepository, OpenMenu
  <2>2. CASE CloseMenu \/ OpenGroupForm \/ CancelGroupForm
    BY <2>2 DEF CloseMenu, OpenGroupForm, CancelGroupForm
  <2>3. CASE RefuseMove
    BY <2>3 DEF RefuseMove
  <2>4. CASE ForgetItem \/ Retry \/ SubmitGroupName
    BY <1>1, <2>4 DEF ForgetItem, Retry, SubmitGroupName, EditList
  <2>5. ASSUME NEW g, MoveProjectTo(g) \/ ToggleGroup(g) \/ Ungroup(g)
        PROVE  FALSE
    BY <1>1, <2>5 DEF MoveProjectTo, ToggleGroup, Ungroup, EditList
  <2>6. CASE DismissError
    BY <2>6 DEF DismissError
  <2> QED
    BY <1>2, <2>1, <2>2, <2>3, <2>4, <2>5, <2>6 DEF ByUser
<1>3. CASE WriteList \/ WriteListFails
  BY <1>3 DEF WriteList, WriteListFails, paneShown
<1>4. ASSUME NEW r, Handle(r)
      PROVE  Still
  <2>1. CASE r.job.kind = "list" /\ FinishList(r)
    BY <2>1 DEF FinishList
  <2>2. CASE r.job.kind = "recent" /\ r.ok /\ FinishRecent(r)
    BY <1>1, <2>2 DEF FinishRecent
  <2> QED
    BY <1>4, <2>1, <2>2 DEF Handle
<1>5. CASE UNCHANGED paneVars
  BY <1>5 DEF paneVars, paneShown
<1> QED
  BY <1>2, <1>3, <1>4, <1>5 DEF PaneNext, Handled

(***************************************************************************)
(* No reply undoes an edit, and none leaves the pane and the settings file *)
(* apart except where the newest list could not be saved, which the user   *)
(* was told: whatever edits, openings and failed writes overlapped, and in *)
(* whatever order the answers were handled (remember_repository,           *)
(* absorb_remembered_project, finish_project_library_save).                *)
(***************************************************************************)
THEOREM PaneKeepsEdits ==
  ASSUME LibraryAssumption, PaneAssumption
  PROVE  PaneSpec => [](PaneTypeOK /\ QuietAgrees) /\ EditsAreKept
<1>1. PaneInit => PaneInv
  BY PaneInitGood
<1>2. PaneInv /\ [PaneNext]_paneVars => PaneInv'
  BY PaneStep
<1>3. PaneInv => PaneTypeOK
  <2> SUFFICES ASSUME PaneInv
               PROVE  PaneTypeOK
    OBVIOUS
  <2>1. PaneStateTyped
    BY DEF PaneInv
  <2>2. \A i \in DOMAIN saves : saves[i] \in Job
    BY <2>1 DEF PaneStateTyped
  <2>3. /\ listed \in Seq(Entry) /\ saved.list \in Seq(Entry) /\ Len(saved.recents) <= MaxRecent
    BY <2>1 DEF PaneStateTyped, PaneStore, GoodList, SoundList
  <2> QED
    BY <2>1, <2>2, <2>3 DEF PaneStateTyped, PaneTypeOK
<1>4. PaneInv => QuietAgrees
  <2> SUFFICES ASSUME PaneInv, saves = <<>>, answers = {}, ~failed
               PROVE  Same(listed, saved.list)
    BY DEF QuietAgrees, Quiet, PaneInv, PaneStateTyped
  <2>1. NewestIsStored
    <3>1. Len(saves) = 0 /\ 1 .. Len(saves) = {}
      OBVIOUS
    <3> QED
      BY <3>1 DEF NewestIsStored
  <2>2. Coming = {}
    BY DEF Coming
  <2>3. Cardinality(Listed(listed) \cup Coming) <= MaxProjects
    BY <2>2 DEF PaneInv, PaneStateTyped, GoodList
  <2>4. ToSet(saved.list) = ToSet(listed) \cup {NewProject(p) : p \in Coming}
    BY <2>1, <2>3 DEF PaneInv, Covered
  <2> QED
    BY <2>2, <2>4 DEF Same
<1>5. PaneInv /\ [PaneNext]_paneVars
        => [ReplyKeepsEdits /\ FailureIsTold /\ (PaneTypeOK /\ QuietAgrees)']_paneVars
  <2> SUFFICES ASSUME PaneInv, [PaneNext]_paneVars
               PROVE  ReplyKeepsEdits /\ FailureIsTold /\ (PaneTypeOK /\ QuietAgrees)'
    OBVIOUS
  <2>1. (PaneTypeOK /\ QuietAgrees)'
    BY <1>2, <1>3, <1>4, PTL
  <2>2. SoundList(listed)
    BY DEF PaneInv, PaneStateTyped, GoodList
  <2>3. ASSUME UNCHANGED listed
        PROVE  ReplyKeepsEdits
    BY <2>2, <2>3, ListedIs DEF ReplyKeepsEdits
  <2>4. ASSUME NEW p \in Projects, listed' = Remember(listed, p)
        PROVE  ReplyKeepsEdits
    BY <2>2, <2>4, RememberKeeps DEF ReplyKeepsEdits
  <2>5. ReplyKeepsEdits
    BY <2>3, <2>4, HandledStep DEF ReplyKeepsEdits
  <2> QED
    BY <2>1, <2>5, FailureTold
<1> QED
  BY <1>1, <1>2, <1>3, <1>4, <1>5, PTL DEF PaneSpec, EditsAreKept

=============================================================================
