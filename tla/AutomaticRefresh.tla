-------------------------- MODULE AutomaticRefresh --------------------------
(***************************************************************************)
(* crates/app/src/automatic_refresh.rs and the handlers of the workspace    *)
(* that share its state: how the window keeps the shown repository up to    *)
(* date without disturbing explicit work.  Changes seen by the file watcher *)
(* are queued; one quiet read at a time takes the queue when nothing else   *)
(* is going on; every explicit read or write cancels it and requeues what   *)
(* it was reading.                                                          *)
(*                                                                          *)
(* The user interface is one thread, so a handler is one step.  Reads run   *)
(* elsewhere: quiet and foreground ones on the read worker (of which only   *)
(* the newest request is sure to be answered), status reads on the          *)
(* operation executor.  A read sees the disk when it is answered, and is    *)
(* applied later; `missed` is what changed in between.  The aspects of a    *)
(* repository are its worktree and its history; an aspect is stale when it  *)
(* has changed since the state on screen was read.  Panes are the           *)
(* inspections on top of the workspace, the newest one last; the working    *)
(* copy and history modes are left to choice where a handler depends on     *)
(* them.                                                                    *)
(***************************************************************************)
EXTENDS Naturals, Sequences

CONSTANTS
    Aspects,    \* what is read of a repository: "worktree" and "history"
    Panes,      \* the kinds of inspections: "blame", "fileHistory", "revision"
    MaxPanes    \* bound on the inspections opened on top of each other

AspectsAssumption == "worktree" \in Aspects /\ Aspects \subseteq {"worktree", "history"}
PanesAssumption ==
    /\ Panes \subseteq {"blame", "fileHistory", "revision"}
    /\ MaxPanes \in Nat \ {0}

VARIABLES
    view,      \* the page on screen
    panes,     \* the inspections open in the repository page
    busy,      \* operation_busy: no operation, one of this tab, one of another tab
    status,    \* status_task, the read of the working copy
    fg,        \* task, the foreground read
    loading,   \* is the foreground read announced on screen?
    auto,      \* automatic.task and automatic.inflight, the quiet read
    newest,    \* whose request is the newest of the read worker
    pending,   \* automatic.pending, the aspects queued for a quiet read
    frame,     \* is a try deferred to the next frame?
    watch,     \* is a watcher installed?
    setup,     \* automatic.watch_task: is one being registered?
    events,    \* aspects whose change the watcher saw but did not deliver
    stale,     \* aspects that changed since they were read
    failed,    \* aspects whose last quiet read failed, which is reported
    idle       \* has the user gone?

uiVars == <<view, panes, busy, frame>>
readVars == <<status, fg, loading, auto, newest, pending>>
watchVars == <<watch, setup, events>>
diskVars == <<stale, failed>>
vars == <<uiVars, readVars, watchVars, diskVars, idle>>

ReadStates == {"none", "waiting", "value", "failed", "dropped"}

NoStatus == [read |-> "none", missed |-> {}]
NoForeground == [read |-> "none", kind |-> "preview", missed |-> {}]
NoQuiet == [read |-> "none", change |-> {}, missed |-> {}, late |-> FALSE]

TypeOK ==
    /\ view \in {"repository", "elsewhere"}
    /\ panes \in Seq(Panes) /\ Len(panes) <= MaxPanes
    /\ busy \in {"no", "here", "elsewhere"}
    /\ status \in [read : ReadStates, missed : SUBSET Aspects]
    /\ fg \in [read : ReadStates, kind : {"open", "changes", "preview"}, missed : SUBSET Aspects]
    /\ auto \in [read : ReadStates, change : SUBSET Aspects, missed : SUBSET Aspects,
                 late : BOOLEAN]
    /\ newest \in {"none", "fg", "auto", "pane"}
    /\ pending \subseteq Aspects /\ events \subseteq Aspects
    /\ stale \subseteq Aspects /\ failed \subseteq Aspects
    /\ {loading, frame, watch, setup, idle} \subseteq BOOLEAN
    /\ auto.read = "none" <=> auto.change = {}

\* A repository just became the active tab: its watcher is being registered
\* and a rescan is in flight.
Init ==
    /\ view = "repository" /\ panes = <<>> /\ busy = "no" /\ frame = FALSE
    /\ status = NoStatus /\ fg = NoForeground /\ loading = FALSE
    /\ auto = [NoQuiet EXCEPT !.read = "waiting", !.change = Aspects]
    /\ newest = "auto" /\ pending = {}
    /\ watch = FALSE /\ setup = TRUE /\ events = {}
    /\ stale \in SUBSET Aspects /\ failed = {}
    /\ idle = FALSE

-----------------------------------------------------------------------------
(* Parts of the handlers *)

\* can_start, but for the queue and the quiet read themselves.
Blocked ==
    \/ view # "repository"
    \/ busy # "no"
    \/ loading
    \/ panes # <<>>
    \/ status.read # "none"

CanStart == ~Blocked /\ auto.read = "none" /\ pending # {}

\* Mutant: a quiet read is started for an empty queue.
TryAnyway(p, a, n) ==
    \/ /\ ~Blocked' /\ a.read = "none"
       /\ auto' = [NoQuiet EXCEPT !.read = "waiting", !.change = p]
       /\ pending' = {}
       /\ newest' = "auto"
    \/ /\ Blocked' \/ a.read # "none"
       /\ auto' = a
       /\ pending' = p
       /\ newest' = n

\* try_automatic_refresh at the end of a handler that leaves the queue p, the
\* quiet read a and the newest request n; the rest of the state is primed.
Try(p, a, n) ==
    \/ /\ p # {} /\ ~Blocked' /\ a.read = "none"
       /\ auto' = [NoQuiet EXCEPT !.read = "waiting", !.change = p]
       /\ pending' = {}
       /\ newest' = "auto"
    \/ /\ p = {} \/ Blocked' \/ a.read # "none"
       /\ auto' = a
       /\ pending' = p
       /\ newest' = n

\* cancel_automatic_read: what a quiet read in flight was reading is requeued.
Requeued == pending \cup auto.change
AfterCancel == IF auto.change = {} THEN newest ELSE "none"

CancelQuiet ==
    /\ pending' = Requeued
    /\ auto' = NoQuiet

\* invalidate_read.
DropForeground ==
    /\ fg' = NoForeground
    /\ loading' = FALSE

InvalidateRead ==
    /\ CancelQuiet
    /\ DropForeground
    /\ newest' = "none"

\* Mutant: a foreground read supersedes the quiet one without requeueing it.
RequestOverQuiet(kind) ==
    /\ fg' = [NoForeground EXCEPT !.read = "waiting", !.kind = kind]
    /\ loading' = TRUE
    /\ newest' = "fg"
    /\ UNCHANGED <<pending, auto>>

\* request: a foreground read replaces the one before it.
Request(kind) ==
    /\ CancelQuiet
    /\ fg' = [NoForeground EXCEPT !.read = "waiting", !.kind = kind]
    /\ loading' = TRUE
    /\ newest' = "fg"

InvalidateOr(kind) == InvalidateRead \/ Request(kind)

\* ensure_local_watcher(force).
EnsureWatcher == setup' = TRUE

\* Mutant: a status read leaves the quiet read alone.
RefreshBesideQuiet ==
    /\ EnsureWatcher
    /\ status' = [NoStatus EXCEPT !.read = "waiting"]
    /\ UNCHANGED <<pending, auto, newest, fg, loading>>

\* refresh_worktree; the working-copy mode invalidates the foreground read.
RefreshWorktree ==
    /\ EnsureWatcher
    /\ status' = [NoStatus EXCEPT !.read = "waiting"]
    /\ \/ InvalidateRead
       \/ CancelQuiet /\ newest' = AfterCancel /\ UNCHANGED <<fg, loading>>

\* The panes that resume the queue in the next frame when they are closed.
Deferring == {"fileHistory", "revision"}
DefersIn(stack) == \E i \in DOMAIN stack : stack[i] \in Deferring

TopPane == IF panes = <<>> THEN "none" ELSE panes[Len(panes)]

\* close_inspections.
CloseAll ==
    /\ panes' = <<>>
    /\ frame' = (frame \/ DefersIn(panes))

\* What is on screen after a read of some aspects that missed others.
Shown(aspects, missed) == (stale \ aspects) \cup (missed \cap aspects)

-----------------------------------------------------------------------------
(* The user *)

\* Selecting a commit or a file; some selections leave the panes.
Select ==
    /\ ~idle /\ view = "repository"
    /\ \E kind \in {"changes", "preview"} : Request(kind)
    /\ \/ CloseAll
       \/ UNCHANGED <<panes, frame>>
    /\ UNCHANGED <<view, busy, status, watchVars, diskVars, idle>>

\* open, for the repository already on screen: an explicit Refresh.
Reopen ==
    /\ ~idle /\ view = "repository"
    /\ CloseAll
    /\ Request("open")
    /\ UNCHANGED <<view, busy, status, watchVars, diskVars, idle>>

\* show_working, and the working copy's own Refresh.
ShowWorking ==
    /\ ~idle /\ view = "repository" /\ busy = "no"
    /\ CloseAll
    /\ RefreshWorktree
    /\ UNCHANGED <<view, busy, watch, events, diskVars, idle>>

\* open_blame, open_file_history_at or an inspection of revisions.
OpenPane(p) ==
    /\ ~idle /\ view = "repository" /\ busy = "no"
    /\ Len(panes) < MaxPanes
    /\ <<p, TopPane>> # <<"blame", "blame">>
    /\ panes' = Append(panes, p)
    /\ CancelQuiet
    /\ DropForeground
    /\ newest' = "pane"
    /\ UNCHANGED <<view, busy, frame, status, watchVars, diskVars, idle>>

\* Back closes the newest pane; it may reload the file below.  Closing a file
\* history or a revision inspection tries again in the next frame.
ClosePane ==
    /\ ~idle /\ view = "repository"
    /\ panes # <<>>
    /\ panes' = SubSeq(panes, 1, Len(panes) - 1)
    /\ frame' = (frame \/ TopPane \in Deferring)
    /\ InvalidateOr("preview")
    /\ UNCHANGED <<view, busy, status, watchVars, diskVars, idle>>

\* back_to_history without panes: the working copy, if it was on screen, is left.
BackToHistory ==
    /\ ~idle /\ view = "repository" /\ panes = <<>>
    /\ UNCHANGED <<uiVars, status>>
    /\ \/ Request("changes")
       \/ DropForeground /\ Try(Requeued, NoQuiet, "none")
       \/ UNCHANGED <<fg, loading>> /\ Try(pending, auto, newest)
    /\ UNCHANGED <<watchVars, diskVars, idle>>

LeavePage ==
    /\ ~idle /\ view = "repository"
    /\ view' = "elsewhere"
    /\ UNCHANGED <<panes, busy, frame, readVars, watchVars, diskVars, idle>>

\* return_from_page.
ReturnToPage ==
    /\ ~idle /\ view = "elsewhere"
    /\ view' = "repository"
    /\ UNCHANGED <<panes, busy, frame, status, fg, loading>>
    /\ Try(pending, auto, newest)
    /\ UNCHANGED <<watchVars, diskVars, idle>>

\* The window becomes active, or the user asks to retry after a watch failure.
Focus ==
    /\ ~idle
    /\ EnsureWatcher
    /\ UNCHANGED <<uiVars, status, fg, loading>>
    /\ Try(Aspects, auto, newest)
    /\ UNCHANGED <<watch, events, diskVars, idle>>

\* An explicit write starts: replies to earlier quiet reads are late, and a
\* status read in flight is dropped.
StartOperation ==
    /\ ~idle /\ view = "repository" /\ busy = "no"
    /\ busy' = "here"
    /\ status' = NoStatus
    /\ \/ InvalidateRead
       \/ /\ auto' = [auto EXCEPT !.late = (auto.read # "none")]
          /\ UNCHANGED <<pending, fg, loading, newest>>
    /\ UNCHANGED <<view, panes, frame, watchVars, diskVars, idle>>

\* switch_repository_tab to a tab that is retained: the state of the other one
\* comes back as old as it is, and is rescanned.  An operation goes on.
SwitchTab ==
    /\ ~idle /\ view = "repository"
    /\ panes' \in {<<>>} \cup {<<p>> : p \in Panes}
    /\ busy' = [no |-> "no", here |-> "elsewhere", elsewhere |-> "here"][busy]
    /\ UNCHANGED <<view, frame>>
    /\ status' = NoStatus
    /\ DropForeground
    /\ Try(Aspects, NoQuiet, "none")
    /\ watch' = FALSE /\ events' = {}
    /\ EnsureWatcher
    /\ stale' \in SUBSET Aspects
    /\ failed' = {}
    /\ UNCHANGED idle

\* From here on the user does nothing.
Leave ==
    /\ ~idle
    /\ idle' = TRUE
    /\ UNCHANGED <<uiVars, readVars, watchVars, diskVars>>

-----------------------------------------------------------------------------
(* The handlers of answers and events *)

\* on_next_frame.
NextFrame ==
    /\ frame
    /\ frame' = FALSE
    /\ UNCHANGED <<view, panes, busy, status, fg, loading>>
    /\ Try(pending, auto, newest)
    /\ UNCHANGED <<watchVars, diskVars, idle>>

\* Mutant: the end of a foreground read does not try a quiet one.
ForegroundReplyOnly ==
    /\ fg.read \in {"value", "failed", "dropped"}
    /\ <<fg.read, fg.kind>> # <<"value", "open">>
    /\ fg' = NoForeground
    /\ loading' = (fg.read = "dropped")
    /\ UNCHANGED <<uiVars, status, auto, pending, newest, watchVars, diskVars, idle>>

\* The continuation of request: the announcement ends with the read, unless
\* its reply was dropped, which is taken to mean that another read replaced it.
ForegroundReply ==
    /\ fg.read \in {"value", "failed", "dropped"}
    /\ <<fg.read, fg.kind>> # <<"value", "open">>
    /\ fg' = NoForeground
    /\ loading' = (fg.read = "dropped")
    /\ UNCHANGED <<uiVars, status>>
    /\ Try(pending, auto, newest)
    /\ UNCHANGED <<watchVars, diskVars, idle>>

\* The files of a commit lead to the preview of one of them.
ForegroundContinues ==
    /\ fg.read = "value" /\ fg.kind = "changes"
    /\ Request("preview")
    /\ UNCHANGED <<uiVars, status, watchVars, diskVars, idle>>

\* A snapshot holds the history; other foreground reads are of fixed objects.
OpenCovers(read) == IF read.kind = "open" THEN {"history"} \cap Aspects ELSE {}

\* An opened snapshot starts a read of the working copy and selects a commit.
SnapshotReply ==
    /\ fg.read = "value" /\ fg.kind = "open"
    /\ EnsureWatcher
    /\ status' = [NoStatus EXCEPT !.read = "waiting"]
    /\ InvalidateOr("changes")
    /\ stale' = Shown(OpenCovers(fg), fg.missed)
    /\ UNCHANGED <<uiVars, watch, events, failed, idle>>

\* The continuation of refresh_worktree.
StatusReply ==
    /\ status.read \in {"value", "failed"}
    /\ status' = NoStatus
    /\ stale' = IF status.read = "value" THEN Shown({"worktree"}, status.missed) ELSE stale
    /\ UNCHANGED uiVars
    /\ \/ Request("preview")
       \/ DropForeground /\ Try(Requeued, NoQuiet, "none")
       \/ UNCHANGED <<fg, loading>> /\ Try(pending, auto, newest)
    /\ UNCHANGED <<watchVars, failed, idle>>

\* What a quiet read of a change covers: the working copy always.
Covers(change) == {"worktree"} \cup change

\* reply_is_current, and no operation is running.
QuietIsCurrent == auto.read = "value" /\ ~auto.late /\ busy = "no"

\* A quiet read is applied.
ApplyQuiet ==
    /\ QuietIsCurrent
    /\ stale' = Shown(Covers(auto.change), auto.missed)
    /\ failed' = failed \ Covers(auto.change)
    /\ setup' = (setup \/ "history" \in auto.change)
    /\ UNCHANGED <<uiVars, status, fg, loading>>
    /\ Try(pending, NoQuiet, newest)
    /\ UNCHANGED <<watch, events, idle>>

\* It failed: the error is reported and the change is not read again.
QuietFailed ==
    /\ auto.read = "failed" /\ ~auto.late /\ busy = "no"
    /\ failed' = failed \cup Covers(auto.change)
    /\ UNCHANGED <<uiVars, status, fg, loading>>
    /\ Try(pending, NoQuiet, newest)
    /\ UNCHANGED <<watchVars, stale, idle>>

QuietIsLate ==
    /\ auto.read \in {"value", "failed", "dropped"}
    /\ ~(auto.read # "dropped" /\ ~auto.late /\ busy = "no")

\* Mutant: a late reply is dropped together with the change it was to read.
QuietLateDropped ==
    /\ QuietIsLate
    /\ UNCHANGED <<uiVars, status, fg, loading>>
    /\ Try(pending, NoQuiet, newest)
    /\ UNCHANGED <<watchVars, diskVars, idle>>

\* It comes late or was dropped by the worker: the change is requeued.
QuietLate ==
    /\ QuietIsLate
    /\ UNCHANGED <<uiVars, status, fg, loading>>
    /\ Try(Requeued, NoQuiet, newest)
    /\ UNCHANGED <<watchVars, diskVars, idle>>

\* An operation of the tab on screen ends: writes that move the history queue
\* a quiet read, a download of LFS content reloads at most the selection, the
\* others read the working copy.
FinishOperation ==
    /\ busy = "here"
    /\ busy' = "no"
    /\ UNCHANGED <<view, panes, frame>>
    /\ \/ UNCHANGED <<status, fg, loading, setup>> /\ Try(Aspects, auto, newest)
       \/ UNCHANGED <<status, setup>> /\ InvalidateOr("preview")
       \/ UNCHANGED <<readVars, setup>>
       \/ RefreshWorktree
    /\ UNCHANGED <<watch, events, diskVars, idle>>

FinishOperationElsewhere ==
    /\ busy = "elsewhere"
    /\ busy' = "no"
    /\ UNCHANGED <<view, panes, frame, readVars, watchVars, diskVars, idle>>

\* listen_for_local_changes: the watcher tells of some changes, or of a rescan.
Deliver ==
    /\ watch /\ events # {}
    /\ UNCHANGED <<uiVars, status, fg, loading>>
    /\ \E notice \in SUBSET Aspects \ {{}} :
          /\ notice \subseteq events \/ notice = Aspects
          /\ events' = events \ notice
          /\ Try(pending \cup notice, auto, newest)
    /\ UNCHANGED <<watch, setup, diskVars, idle>>

\* A new watcher, which may already have seen changes, is installed.
WatcherInstalled ==
    /\ setup
    /\ setup' = FALSE
    /\ watch' = TRUE
    /\ events' \in SUBSET Aspects
    /\ UNCHANGED <<uiVars, status, fg, loading>>
    /\ Try(Aspects, auto, newest)
    /\ UNCHANGED <<diskVars, idle>>

\* The roots have not changed, or the registration failed.
WatcherKept ==
    /\ setup
    /\ setup' = FALSE
    /\ UNCHANGED <<uiVars, readVars, watch, events, diskVars, idle>>

-----------------------------------------------------------------------------
(* The readers and the disk *)

AnswerStatus ==
    /\ status.read = "waiting"
    /\ \E a \in {"value", "failed"} : status' = [status EXCEPT !.read = a]
    /\ UNCHANGED <<uiVars, fg, loading, auto, newest, pending, watchVars, diskVars, idle>>

\* The read worker answers its newest request; it may turn away any other.
WorkerAnswers(who) == {"value", "failed"} \cup (IF newest = who THEN {} ELSE {"dropped"})

AnswerForeground ==
    /\ fg.read = "waiting"
    /\ \E a \in WorkerAnswers("fg") : fg' = [fg EXCEPT !.read = a]
    /\ UNCHANGED <<uiVars, status, loading, auto, newest, pending, watchVars, diskVars, idle>>

AnswerQuiet ==
    /\ auto.read = "waiting"
    /\ \E a \in WorkerAnswers("auto") : auto' = [auto EXCEPT !.read = a]
    /\ UNCHANGED <<uiVars, status, fg, loading, newest, pending, watchVars, diskVars, idle>>

\* An answered read misses the change of an aspect that it covers.
Missed(read, aspects, a) ==
    IF read.read \in {"none", "waiting"} \/ a \notin aspects THEN read
    ELSE [read EXCEPT !.missed = @ \cup {a}]

\* The user's editor, Git, or the operation in progress changes the repository.
DiskChange(a) ==
    /\ stale' = stale \cup {a}
    /\ events' = IF watch THEN events \cup {a} ELSE events
    /\ status' = Missed(status, {"worktree"}, a)
    /\ fg' = Missed(fg, OpenCovers(fg), a)
    /\ auto' = Missed(auto, Covers(auto.change), a)
    /\ UNCHANGED <<uiVars, loading, newest, pending, watch, setup, failed, idle>>

User ==
    \/ Select \/ Reopen \/ ShowWorking \/ ClosePane
    \/ \E p \in Panes : OpenPane(p)
    \/ BackToHistory \/ LeavePage \/ ReturnToPage \/ Focus \/ StartOperation \/ SwitchTab \/ Leave

Foreground ==
    ForegroundReply \/ ForegroundContinues \/ SnapshotReply

Quiet == ApplyQuiet \/ QuietFailed \/ QuietLate

Watcher == WatcherInstalled \/ WatcherKept

Next ==
    \/ User
    \/ NextFrame
    \/ Foreground \/ StatusReply \/ Quiet
    \/ FinishOperation \/ FinishOperationElsewhere
    \/ Deliver \/ Watcher
    \/ AnswerStatus \/ AnswerForeground \/ AnswerQuiet
    \/ \E a \in Aspects : DiskChange(a)

Spec == Init /\ [][Next]_vars

\* The runtime runs every handler that is due; reads and operations end: Git has
\* deadlines, and the user interface polls each of its tasks.
FairSpec ==
    /\ Spec
    /\ WF_vars(NextFrame) /\ \A a \in Aspects : WF_vars(Deliver /\ a \notin events')
    /\ WF_vars(Foreground) /\ WF_vars(StatusReply) /\ WF_vars(Quiet)
    /\ WF_vars(AnswerStatus) /\ WF_vars(AnswerForeground) /\ WF_vars(AnswerQuiet)

-----------------------------------------------------------------------------

(***************************************************************************)
(* Nobody supersedes a read behind the back of the state that announces it: *)
(* a foreground or quiet read that waits is the newest request of the read  *)
(* worker, which answers that one for certain.  Otherwise its reply could   *)
(* be dropped, and the worker's refusal be reported as a failed refresh     *)
(* and the change forgotten.  And what is announced as loading, which holds *)
(* back every automatic refresh, is being read.                             *)
(***************************************************************************)
ReadsAreNewest ==
    /\ fg.read = "waiting" => newest = "fg"
    /\ auto.read = "waiting" => newest = "auto"
    /\ loading => fg.read # "none"

(***************************************************************************)
(* No change is forgotten: while a watcher is installed, an aspect that is  *)
(* stale on screen has an undelivered event, is queued or is being read,    *)
(* whatever explicit reads, writes, panes and tabs interfered.  Only a      *)
(* failed read, which is reported, leaves a change unread.                  *)
(***************************************************************************)
NothingForgotten == watch => stale \subseteq events \cup pending \cup auto.change \cup failed

StaysFresh == \A a \in stale' \ stale : DiskChange(a) \/ SwitchTab

(***************************************************************************)
(* The screen never goes back: only a change on disk or a switch to another *)
(* tab makes a fresh aspect stale.  In particular no late reply, of a read  *)
(* that missed a change already on screen, is applied.                      *)
(***************************************************************************)
NeverGoesBack == [][StaysFresh]_vars

\* The user has gone, and left the repository page without panes or operation.
Undisturbed == idle /\ watch /\ view = "repository" /\ panes = <<>> /\ busy = "no"

(***************************************************************************)
(* A change the watcher sees while nothing else goes on is eventually read, *)
(* whatever reads are in flight at that time: each of them tries again when *)
(* it ends.                                                                 *)
(***************************************************************************)
EventsAreRead ==
    \A a \in Aspects : (Undisturbed /\ a \in events) ~> (a \in auto.change)

(***************************************************************************)
(* docs/architecture.md, Quiet local refresh: "Returning from the last      *)
(* inspection resumes queued refreshes."  Closing the last pane leaves      *)
(* nothing in the queue that could be read, unless a try is due.            *)
(***************************************************************************)
ReturningResumes ==
    [][panes # <<>> /\ panes' = <<>> => frame' \/ ~CanStart']_vars
=============================================================================
