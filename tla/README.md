# GitTurtle in TLA+

GitTurtle is a desktop Git client: one GPUI view (`GitTurtle`, `crates/app/src/main.rs`) on the
user-interface thread, a read worker thread, an operation executor thread, a preferences executor
thread, a rendering lane, a file-watcher actor, and `git-core`, which runs Git processes and parses
what they print. This directory holds TLA+ models of the program's own logic (its concurrency, its
stores, its reviewed operations on a repository), the configurations that model-check them on small
instances, and proofs of the properties that matter most for instances of any size.

Paths below are relative to `crates/app/src/` unless they start with another directory.

## 1. Inventory

| Component | State it keeps | Operations | Talks to | Modules |
|---|---|---|---|---|
| Serial executor (`operations.rs`) | a bounded channel of jobs, one thread | submit, receive, run or skip | every write, status reads, stores | `SerialExecutor` |
| Draft saving (`commit_drafts.rs`) | pending map, `scheduled`, last completion | queue, save, quit observer | executor, `preferences.rs` | `DraftSaving`, `DraftStore` |
| Read worker (`worker.rs`) | one active token, one replaceable pending request, sequence number | submit, cancel, release, drop | the view, `git-core` | `ReadWorker`, `LatestRequest` |
| Automatic refresh (`automatic_refresh.rs`, handlers in `workspace.rs`, `main.rs`, `blame.rs`, `file_history.rs`, `page_navigation.rs`) | queued change, quiet read, watcher; foreground and status reads | try, queue, cancel, install a watcher | read worker, executor, watcher | `AutomaticRefresh` |
| Change delivery (`local_refresh.rs`) | event channel, overflow flag, burst, notice, wake token | callback, actor, event task, drop | native watcher, automatic refresh | `WatchDelivery` |
| Repository tabs (`repository_tabs.rs`, `main.rs`) | tabs, active index, warm state, bookmarks, saved session | open, switch, refresh, close, move, groups, save | read worker, session store | `RepositoryTabs` |
| History (`worker.rs`, `history_paging.rs`, `history_updates.rs`) | cursor over `git log`, window of rows, announcement | page, select, scroll, refresh, restore | read worker | `HistoryBrowsing`, `CommitGraph` |
| History search (`history_search.rs`, `path_filter.rs`) | query, pinned scope, results, ordinary window kept aside | type, debounce, continue, clear | read worker, automatic refresh | `HistorySearch`, `CommitGraph` |
| Preview cache (`worker.rs`) | weighted LRU | get, insert | read worker | `PreviewCache` |
| PDF pages (`pdf_view.rs`) | page, request and cache of each side | turn, link, hide, retry | rendering lane | `PdfPages` |
| 3D models (`model_view.rs`, `model_view/playback.rs`) | cameras, frames, requests, clock | drag, link, play, scrub | replaceable lane | `ModelFrames` |
| Project list and pane (`project_library.rs`, `project_pane.rs`) | forest of groups and projects, saves and replies | every edit, open, retry | preferences executor | `ProjectLibrary`, `ProjectEdits`, `ProjectPane` |
| Themes (`theme_editor.rs`, `settings.rs`, `appearance/custom.rs`) | saved themes, selection, draft, palette worn | edit, save, delete, import, choose | preferences executor, desktop theme | `ThemeEditor` |
| Desktop theme (`appearance/omarchy.rs`) | reread loop, watch of `current/`, waiting choices | follow, reread, watch, lose | file system | `DesktopTheme` |
| Operation slot (`workspace.rs` and nine dialogs) | `operation_busy`, reviews, task, commit message | prepare, confirm, run, leave | executor, tabs | `OperationSlot` |
| Files of the program (`preferences.rs`) | temporaries, files, what a disk keeps | `atomic_write` | every store | `AtomicFile` |
| Preferences (`preferences.rs`) | one file of sections | load, refuse, put a section | executor, `AtomicFile` | `PreferencesStore` |
| Profiles (`profiles.rs`, `profiles/store.rs`, `git-core/src/work/profiles.rs`) | `profiles.json`, its lock, the configuration's lock | save, delete, review, apply | other running programs | `Profiles` |
| Activity log (`activity.rs`) | entries of operations | begin, cancel, finish, write, load | executors | `ActivityLog` |
| Partial staging (`git-core/src/work.rs`) | alignment, hunks, the index and its locks | select, review, apply | other Git processes, editors | `PartialDiff`, `PartialStaging` |
| Changes list (`git-core/src/work.rs`, `work/discard.rs`) | rows of the last status | stage, unstage, commit, discard | Git, editors | `WorkingCopy`, `WorkingChanges` |
| Recovery (`git-core/src/work/recovery.rs`) | a plan and what it pins | amend, undo, revert, cherry-pick, stash | Git, editors, other worktrees | `WorkingCopy`, `Recovery` |
| Integration (`git-core/src/work/integration.rs`) | a confirmed command, the stopped operation | merge, rebase, resolve, continue, abort | Git, editors | `WorkingCopy`, `Integration` |
| Explicit Git operations, interactive rebase, GitHub, authentication, blame and file history's own paging, branch and tag dialogs, views, preview decoding | see section 6 | | | not modelled |

### How they interact

The view is single-threaded: each handler runs to its end, and what it starts comes back later as
a task's continuation. It holds a *foreground* read (`task`), a *quiet* read (`automatic.task`)
and an operation or status read on the executor (`operation_task`, `status_task`). Foreground and
quiet reads share the read worker, of which only the newest request is sure to be answered.
Generations, epochs and paths are compared when a reply arrives. Stores are written through serial
executors, which the process need not wait for when it ends, except for the quit observers. A
reviewed operation reads a plan, shows it, reads it again when it is confirmed, compares, and then
starts one Git command; other processes act between any two of these steps.

### What is hard, and the property that answers it

- *Receivers dropped at any time.* A write must run regardless, a discarded reply must not leave a
  state that waits for it (`AcceptedWorkEnds`, `RequestsSettle`).
- *Full channels.* A refused save must not leave the saver waiting for it (`ScheduledHasJob`); a
  full event channel must still lead to a rescan (`NothingIsLost`); a full rendering lane must not
  leave a side without its page (`SidesSettle`).
- *Coalescing and supersession.* The newest draft survives a failed batch (`NewestRetained`,
  `StoreSpec`); a newer request stops and replaces an older one, and a current one is never turned
  away (`SupersededIsStopped`, `RequestSpec`, `ReadsAreNewest`).
- *Late replies.* What arrives late neither replaces newer state (`NeverGoesBack`,
  `EditsAreKept`, `WindowWearsTheTheme`, `ReviewedIsShown`) nor mixes two traversals
  (`WindowIsOneTraversal`, `SearchIsExact`).
- *Interrupted refreshes.* What a cancelled read was reading is read later (`NothingForgotten`,
  `EventsAreRead`).
- *Files that others write too.* Saves are whole (`SavesAreWhole`), keep what they do not own
  (`OthersSurvive`, `NoUpdateIsLost`), and locks exclude (`LocksExclude`, `PublishedAsReviewed`).
- *Reviews that grow stale.* What Git then does is what was reviewed, and no file that Git does not
  hold is overwritten (`NothingLocalIsLost`, `OnlyReviewedIsDiscarded`, `ContinuesAsReviewed`).
- *Shutdown and crashes.* Threads and quits end, and nothing is claimed that was not done
  (`StoreSpec`, `LogIsTrue`, `DeliveryEnds`).

`PROJECT.json` lists every hazard at its line with the properties that answer it.

## 2. Modules

### SerialExecutor, DraftSaving, DraftStore

`SerialExecutor` is the executor: `Submit`, `Accept` and `Refuse` are `submit_impl`, `Receive` with
`Start` or `Skip` is the thread's loop and the test of the receiver, `Finish` is `catch_unwind`
around the job. Jobs are numbered in submission order; `stage` is where each is and `heard`
whether somebody holds its receiver.

`DraftSaving` composes it with the saver of commit drafts. `pending`, `scheduled` and `completion`
are the fields of `Pending`; `typed` counts the edits of each worktree's draft, so a draft's value
*is* its edit number. `EditCoalesced`, `EditScheduling` and `EditRefused` are the three outcomes of
`queue_with`; `TakeBatch`, `FindEmpty`, `WriteBatch`, `FailBatch` and `PanicBatch` are the
critical sections of `Scheduled::save` and its `Drop`; `RequestQuit` and `Exit` are the quit
observer; `Crash` may come anywhere. Because the thread takes the lock once to look at the map and
reset the flag, an edit can only come before or after that step. Other writes and reads
(`SubmitOther`) compete for the channel. `DraftStore` is what the saver promises; `Ended` maps the
life of the process, and `durable` the file, to it.

### ReadWorker, LatestRequest

`Submit`, `SubmitRefused`, `Cancel`, `DropWorker` are the methods of `Worker`, each one critical
section of its queue; `Sleep`, `Leave`, `Take`, `Discard`, `Begin`, `Checkpoint`, `Return`, `Send`
are the thread of `with_executor`. The condition variable is explicit: the thread is `asleep` or
`awake`, and only a notification wakes it. `Checkpoint` is `Cancellation::check`, which a read may
reach any number of times. `Abandon` is the view dropping a reply. `LatestRequest` is the register
the view relies on: requests are settled in order, a current one is answered.

### AutomaticRefresh

One step per handler. `view`, `panes`, `busy`, `status`, `fg`, `loading`, `auto`, `pending`,
`frame`, `watch` and `setup` are fields of the view; `newest` is what the read worker guarantees,
taken from `LatestRequest` (the newest request is answered, others may be dropped); `events`,
`stale` and the `missed` part of each read are the disk's side. A read sees the disk when it is
answered and is applied in a later step, so a change between the two is *missed* by it, and an
applied read leaves exactly the aspects it missed stale. `Try` is `try_automatic_refresh`,
`CancelQuiet` is `cancel_automatic_read`, `RefreshWorktree` and `InvalidateRead` are the helpers of
`workspace.rs`; every handler of the user is built from them in the code's order. Panes are opened
on top of each other; blame and file history stand for the two ways in which a pane is closed
(without and with a try on the next frame).

### WatchDelivery

`CallbackSend`, `CallbackOverflow`, `CallbackWake` are the notify callback, whose full-channel path
takes two steps because the flag and the wake are two accesses. `Loop`, `Receive`, `Timeout`,
`Collect`, `Push`, `PushNothing`, `ReceiveStop` are `run_actor`. `Wake` and `TakeNotice` are the
two halves of `LocalChanges::poll_next`. `modified` stands for the fingerprint: an event whose path
has not changed since its last fingerprint is ignored. Time is counted in ticks.

### RepositoryTabs

`app` is the part of the view that the handlers write: `tabs` (path, warm repository, bookmark,
error), `active`, `repository`, `path`, the foreground `read`, `restoring` and `saveDue`.
`OpenPath`, `OpenGroup`, `SwitchTab`, `CloseTab`, `MoveTab`, `Refresh`, `Select` are the user's
operations; `OpenReply`, `ListReply`, `ReadFails` are the ends of a read; `BeginWrite` to
`CreateRegisters` are operations that hold back a switch or end by opening a repository;
`SaveSession` is a save that is due. `Retained`, `Restored`, `Reopened`, `Switched`, `Redirected`,
`Installed` are the helpers with the corresponding names in `repository_tabs.rs`. The paths of
`Aliases` are those whose discovery yields a repository of another name.

### HistoryBrowsing, HistorySearch, CommitGraph

`CommitGraph` says what `git log` may list of captured tips: every reachable commit once, before its
parents. `HistoryBrowsing` keeps the worker's `cursor`, the window (`rows`, `paging`, `retained`,
`selected`) and the announcement (`updates`). A request replaces the one before it, which may still
run to its end unanswered and move the cursor (`Run`, `Replace`); the reply is computed in one step
and applied in a later one. `RequestPage`, `Older`, `Previous`, `Latest`, `Refresh`, `StartQuiet`
and the `Receive...` actions are the handlers of `history_paging.rs` and `history_updates.rs`;
the helpers `Observe`, `Classify` and `ChainUpdate` decide what is announced. In
`HistorySearch` a query takes the place of that window, which is kept aside (`Kept`, `BeginSearch`,
`EndSearch`), and reads pages of matches in the scope that the first page pinned.

### PreviewCache, PdfPages, ModelFrames

`PreviewCache` has one action for each end of a preview job (`Hit`, `Store`, `Deliver`, `Supersede`,
`Panic`), and the recency that the LRU must follow in `used`. `PdfPages` and `ModelFrames` are the
two comparisons of the preview pane: what a side shows and asks for, and the rendering lane, a
queue of limited length for pages and one replaceable job for frames. Paints are actions of the
runtime, so that a request is made when a side is painted and not when its state changes.

### ProjectLibrary, ProjectEdits, ProjectPane

`ProjectLibrary` translates the methods of the project list as operators on a sequence of entries.
`ProjectEdits` applies them in every order; `ProjectPane` composes them with the pane, the
preferences writer and its replies, each of which is handled by a task of its own and thus in any
order. `FinishList`, `FinishRecent` and `FinishGroupForm` are the three kinds of replies.
`DismissError` closes the error strip, which leaves the mark of a failed save.

### ThemeEditor, DesktopTheme, OperationSlot

`ThemeEditor` follows one window: the saved themes and the selection are two writes on one
executor, the editor previews its draft in the whole window, and `palette` is what the window
wears. `DesktopTheme` is the reread loop of `omarchy.rs` with its watch made on another thread;
epochs tell a watcher that comes too late. `OperationSlot` is `operation_busy` with its nine kinds
of preparation, what each dropped task frees (`Freed`, `Dropped`, `Cancel`), confirmations, and the
tabs and pages that change meanwhile.

### AtomicFile, PreferencesStore, Profiles, ActivityLog

`AtomicFile` takes `atomic_write` apart: reserve a temporary, write, sync, rename, sync the folder,
with a failure, a kill or a loss of power between any two steps. `file` is what a reader finds,
`survives` what a loss of power may leave of it. The other stores take their writes as one step,
which is what `AtomicFile` shows. `PreferencesStore` has one writer per section (`Put`), the
versions a file may have and the refusals of `Parse`. In `Profiles` two programs share
`profiles.json` under its lock, and applying a profile writes the repository's configuration under
Git's own lock first. The steps of `execute_profile` that others see are actions: `ApplyCheck`,
`ApplyLock`, `ApplyVerify`, `ApplyWrite`, `ApplyCompare`, `ApplyPublish` (the rename) and
`ApplyEnd`, which reads the identity back, with success or not, and drops `ConfigLock`. The drop
removes `config.lock` by its name, also after the rename; `configLock.by` says whose lock that is,
and `robbed` that one was taken from another. `ActivityLog` orders the begin, the end and the two
saves of an entry against the run of the operation and the stop of the program. `Run` draws from
`Endings` what became of Git and the words of the message, and `Words` are those each of the two
handlers looks for: what its handler cannot tell from a failure ends "unspoken".

### PartialDiff, PartialStaging

`PartialDiff` computes hunks and the contents a selection makes from *any* alignment of two sides,
because the alignment is a library's choice. `PartialStaging` is `apply_partial`, one action per
step that another process can see: `LookForNested`, `CreateLock`, `Validate`, `Prepare`,
`StartUpdate`, `Update`, `Sync`, `Publish`, and `Fail` and `Kill` anywhere. `lock` and `nested` are
`index.lock` and the lock Git takes beside the copy that is edited.

### WorkingCopy, Recovery, WorkingChanges, Integration

`WorkingCopy` holds what the three share: trees of paths (a path is a sequence of names, so that a
file may stand where a directory is wanted), the rows of `git status`, the guard that keeps local
files out of an operation's way (`Protected`), and Git's writes taken at their worst. Each of the
others reviews a plan (`ReviewRecovery`, `ReviewDiscard`, `Confirm`), makes it again
(`CheckRecovery`, `Check`, `CheckIntegration`) and runs Git (`RunRecovery`, `RunDiscard`,
`RunIntegration`), while editors and other Git commands (`Meanwhile`, `Outside`, `Between`) act
between any two steps. A conflict takes up to three: `CompareManual` and `WriteManual` are the two
halves of `write_conflict_file`, `WriteResolution` the other choices, and `StageResolution` is `git
add --all` of the path. `overtaken`, `raced` and `disturbed` tell whether something changed after
the last comparison, which is the one gap the code accepts.
Recovery's trees are `indexTree` and `workTree`, those of the changes list `head`, `entries` and
`files`, those of an integration `branch`, `tracked` and `checkout`.

## 3. Runs

Ten runs must pass; two must find a counterexample. The larger ones check several small instances
of one or more modules: `part` tells which, and a behaviour is one of a single part. A run whose
property is also proved extends the module that the proof is about, so that both speak of the same
definition; `MCReadWorker`, `MCRepositoryTabs` and `MCAutomaticRefresh` need no module of their own.

| Run | Parts and instances | Distinct states | Shows |
|---|---|---|---|
| `MCDraftSaving` | 3 jobs, channel of 2, drafts edited 2 and 1 times | 225,160 | the executor and the saver, safety and liveness, and that they refine `DraftStore` |
| `MCReadWorker` | 3 requests, sequence number to 5 | 149,482 | the worker stops, settles and ends, and refines `LatestRequest` |
| `MCWatchDelivery` | *delivery*: one kind of change, queue of 1, quiet period 1, delay 2; *reading*: the worktree, a stack of two file histories | 156,394 | nothing is lost, the actor ends, events are read |
| `MCRepositoryTabs` | two repositories, one alias, two tabs, groups of two | 86,191 | tabs stay unique, labelled and explained, closed tabs stay closed |
| `MCAutomaticRefresh` | both aspects, both kinds of panes, one open at a time | 1,048,016 | waiting reads are the newest, nothing stale is forgotten, nothing goes back |
| `MCHistory` | *pages* (4 commits, pages of 2, window of 3), *updates* (3 commits, tips moved twice), *restored* (a tab left and opened again), *search* (two commits, a tip that moves once, to three or to one, pages of one commit, at most 2 matches; one query matches the two oldest commits, the other the second alone) | 985,512 | the window is one traversal, a search is exact, the reader is not disturbed |
| `MCPreviews` | *cache* (5 bytes, 3 entries, 6 keys), *pages* and *visits* (3 and 2 pages, 2 cached, a lane of one), *still*, *changed*, *dragged*, *moving* (two models) | 434,924 | the cache keeps the most recent, sides are asked for and settle |
| `MCWindow` | *nested* and *library* (every list of 3 groups or of 2 groups and 2 projects), *pane* and *settling* (3 and 2 saves), *theme*, *worn*, *stopped* (2 saved themes), *desktop* and *answering* (2 and 1 changes of the theme), *slot* and *freeing* (3 tabs) | 882,341 | menus agree with edits, the quiet pane with the disk, the window with its theme, reviews with what is shown |
| `MCStores` | *files* (2 threads, 2 files, 1 stop), *preferences* (3 projects, 2 saves), *defining*, *applying*, *assigning* (2 programs), *lines* (2 lines of 2 texts), *hunks* (5 lines), *log* (3 operations, the first of which may be a clone, room for 2, two lists to write) | 586,781 | saves are whole and keep the rest, selections are exact, the log is true |
| `MCWorkingCopy` | *staging* (2 instances, 2 files), *recovery* (2 histories, a file changed at most, 2 reviews, 2 outside steps), *changes* (every index and working copy of 3 paths, 2 steps), *integration* (5 situations, 3 commands, 2 outside steps) | 677,608 | locks exclude, what is published was reviewed, nothing local is lost, only what was reviewed is discarded, operations continue as reviewed |
| `MCRefreshResumes` | both aspects, two panes of both kinds | counterexample | closing a blame pane leaves queued refreshes unread |
| `MCDiscardReplaces` | the part *changes* | counterexample | discarding a removed `a/b` takes a staged `a` out of the index |

**Properties of the larger runs** are conjunctions of the modules' own, each of which is commented
where it is defined:

| Property | Conjoins |
|---|---|
| `AcceptedWorkEnds` | accepted writes run, and a quit ends |
| `RequestsSettle` | every request is answered or told that it was replaced, and the thread ends with the worker |
| `NothingIsLost` | a change is on its way to the window, an overflow has a reader, a notice has a wake token |
| `DeliveryEnds` | changes are told after a bounded delay, and the actor ends when the watcher is dropped |
| `TabsAgree` | no duplicate tabs, the live repository is the active tab's, a blank tab is explained |
| `WindowIsOneTraversal` | rows, continuation, bounds, exact counts and announcements |
| `SearchIsExact` | results, files of a match, the query in the box, queued refreshes |
| `PagesAreRequested` | a page that is awaited has one request in the lane, errors are of the page shown, linked sides agree, the kept pages are bounded |
| `FramesAreRequested` | a frame that is awaited has one request in the lane, linked cameras agree, one clock, nothing runs hidden |
| `SidesSettle` | both kinds of sides come to rest |
| `MenusAgree` | the list's menus with its edits, and every edited list with what load accepts |
| `EditsAreKept` | a reply takes no edit back; a failed save is told until the user dismisses it; with every save answered the pane shows what is stored, unless the last save failed |
| `RepliesSettle` | the pane's replies, the desktop theme's choices and the operation slot come to rest |
| `WindowWearsTheTheme` | the list in memory is the stored one between saves; until the program stops, the selection is listed and its palette, or the draft's, is worn |
| `WatchIsReal` | watched exactly while something needs it; the one watcher that is held sees the folder in place, or its loss is being told |
| `ReviewedIsShown` | the slot's label is that of the one task alive, and tasks take turns; what is confirmed, run and cleared is what is shown |
| `KeepsMostRecent` | the exact count of bytes, both limits, the keys used last in their order, whole previews |
| `SavesAreWhole` | files are whole, temporaries are the writer's own, none is left without a stop |
| `SelectionIsExact` | the lines a selection makes, and the hunks that offer it |
| `OthersSurvive` | a save changes its own section, the next load finds it, a file that is refused is kept |
| `NoUpdateIsLost` | the other program's profiles, locks, their holders and who takes them away, replies, assignments |
| `LocksExclude`, `PublishedAsReviewed` | one writer, locks released; the published index is the one it replaces but for the reviewed entry |
| `LogIsTrue` | increasing numbers, entries in progress, no false success, no failure of what succeeded or is told to be in doubt, a log that was refused is kept |
| `NothingLocalIsLost`, `OnlyReviewedIsDiscarded`, `ContinuesAsReviewed` | the guard, the comparison and Git's step of each reviewed command |

**Bounds.** Every unbounded counter of the code has a named bound (`Max...`). Three jobs on a
channel of two let the channel be full while a job runs; two edits of one draft and one of another
let an edit be newer than a batch that fails, and a batch hold one draft and not the other. Three
requests are an active, a pending and a replacing one. Searching two commits in pages of one,
with room for two matches, makes a result span two pages, the second at an offset above zero, and
lets pages be read that match nothing. A queue of one event overflows at the
second, and a delay longer than the quiet period separates the two deadlines. Two tabs and three
paths fill the tab strip and still leave a path to open. A window of three rows over pages of two
both appends and trims. A cache, a lane, a list of themes and the log are all filled and asked for
one more. Two writers, programs or instances are what it takes to interfere; a third adds none of
the pairs. Two outside steps are one before and one after a comparison, or two that undo each
other. What is the same with two names swapped is started once: the identities of the profiles, the
contents of a partly staged file; what edits reach, such as two changed files in recovery, is not
started at all. Hunks of five lines with a context of one are either joined or apart. Larger instances were
tried and agree: three tabs (1,055,203 states), two kinds of changes (3,416,818 states), three
outside steps of an integration (1,088,539 states of that part; only then may staging a file take
out the entry of one below it that is gone), two profiles applied beside an edit (1,166,650 states
of that part).

**Deadlock** is checked in the run of the tabs. The others stop when their bound is used up or
when the process, the worker or the watcher has ended, so their configurations switch it off;
`AutomaticRefresh` does not stop by itself, but its disk may be quiet for ever.

**Fairness.** Liveness is checked under weak fairness of the threads, which run as long as they can
(`ExecutorThread`, `ReaderThread`, `Actor`, the writer and the rendering lane), of the event loop
of the runtime, which runs each continuation that is due and paints what changed, of time, of the
watcher's backend and of the reread loop. That reads and operations return is an assumption:
`git-core` gives each Git process a deadline. Nothing is assumed of the user, of other programs, or
of which of the possible results a job has. Each liveness property has a part of its own with
smaller bounds.

## 4. Proofs

The modules below are checked by TLAPS for every value of the constants that satisfies the named
assumptions of the module they prove about: any number of jobs, drafts, requests, revocations,
writers, files, instances, paths, aspects, panes, repositories, tabs, previews, projects, themes,
entries, capacities, sizes and delays. The assumptions are the ones that TLC evaluates for the
instances of the runs; they say that bounds are natural numbers, that sets are not empty where the
code has at least one, that a path is a sequence of names, and that values which
stand for "none" are none of the others.

**DraftSavingProofs.** `ExecutorIsSerial` states that whatever is built on the executor's
actions runs one job at a time, in submission order. `SerialInOrder` alone is not inductive:
receiving a job would break it were the channel not exactly the queued jobs
(`ChannelHoldsQueued`), oldest first (`ChannelInOrder`), at most one of them running (`OneRuns`),
and the fresh ones the last (`FreshAfterSubmitted`). `ExecutorInv` is their conjunction and has
one lemma per action.

`NextIsExecutorStep` then shows that each step of the saver is one of the
executor's or leaves it alone, so that `ExecutorInv` carries over. `SaverInv` adds what the two
properties need: `ScheduledHasJob` is only preserved when no second save can be responsible
(`OneResponsible`) and the phase of the save agrees with the running job (`PhaseIsRunningSave`);
`NewestRetained` needs that a batch exists only between taking and writing it
(`BatchOnlyWhileWriting`) and that the disk is behind what is to be written (`DiskIsBehind`).
From `Invariance` follow `TypeCorrect`, `JobsAreSerial`, `EditsAreRetained` and `FlagIsNeverStuck`.

`SaverImplementsStore` is the refinement `Spec => StoreSpec`. An exit that maps
to the store's orderly end must find every draft on disk. `CompletionInv` adds what links the three
fields of `Pending`: while a save is scheduled the completion is that of the responsible save, and a
completion answered with success without a scheduled save leaves nothing pending. Each step of the
saver then maps to a step of the store or to a stutter, one lemma per group of actions.

**ReadWorkerProofs.** `SupersededIsStopped` alone is not inductive: a submission cancels the
*active* token, and only `TokenIsKept` says that it is the token of the read in progress or that
this one is cancelled already. `Numbered` keeps sequence numbers increasing in the order of the
requests, so that at most one request is current, and `CancelledIsOld` that it is not cancelled.
With `OpenRequests` (unanswered are exactly the running and the pending request) this gives
`WorkerImplementsRegister`, the refinement `Spec => RequestSpec`.

The same module proves the worker's cache (`CacheKeepsMostRecent`). `CacheInv` says that the LRU
list *is the end* of the keys in the order of their last use, that neither list repeats a key, and
that the count of bytes is the sum of the sizes of what the LRU list holds (`CacheSound`). That
`NewestAreCached` speaks of the keys used last and not of the LRU list is what makes it worth
proving: evicting from the front keeps an end an end (`WithoutTail`), and moving a key that was hit
to the back takes it out of both lists at the same distance from their ends (`RemovesTheFirst`).
The sums need an induction over the length of a list. The library's induction theorems take the
statement as a parameter; `FromEachToNext` takes instead the *set* of numbers for which it holds,
which follows from the least element of its complement, and `SumConcat` and `WeightConcat` use it.

The pages of a PDF comparison (`PagesArePrepared`) need to know that a request that lives in the
lane belongs to this or an earlier visit of its document, so that the visit that begins is asked for
by nobody; that a page that is waited for is not among the kept ones, so that keeping it repeats
none; and that the bytes are the number of kept pages times what a page keeps, so that evicting from
the front always ends with room for the new one. `LinkedAgree` is preserved because a linked page
only moves with its partner, each to the same target.

The frames of two models (`FramesComeOnce`) rest on `FramesInv`. `FramesArePending` says that an
awaited frame is on its way, not that it comes from one job: were it in two, the first answer would
end the waiting and leave the second. `ComesOnce` excludes that, and finitely many live requests
make `FreshGeneration` a number that none of them has, so that what was asked for before a change
stays of the past. Seeking keeps `ClockIsShared` because both poses are cut from one time, each at
the end of its own clip.

**WatchDeliveryProofs.** `DeliveryLosesNothing` follows a change from hand to hand, one step per
action. It needs that receiving a message overwrites nothing the actor still has
(`ChangeIsHandled`), for the overflow the stronger `OverflowHasReader`, which does not count on a
burst that a delivery may take away, and for the notice that a woken task holds the only token
(`TaskInv`). The types need that a burst is never younger than its quiet time (`BurstClock`).

**AutomaticRefreshProofs.** `NothingForgotten` is lost by an answer that is applied although it
missed a change, unless the change is still to be delivered or queued (`MissedIsDue`), and
`ScreenNeverGoesBack` by the same answer unless what it missed is stale already (`MissedIsStale`).
Both rest on the order of reads: a quiet read runs only while no explicit read does
(`QuietIsAlone`), an explicit read is announced exactly while it is in flight (`AnnouncedReads`),
and only an answered read can have missed something (`UnansweredMissNothing`). Nearly every handler
ends by a try, a cancellation or a restart on the state it has just assigned, so the proof states
the invariant of that state once for given values of the queue, the quiet read and the newest
request (`Typed`, `Ordered`, `Kept`) and has one lemma per helper (`TryKeeps` and its like); a
handler's step then only shows what its own assignments leave. `RefreshInv` gives `TypeCorrect`,
`WaitingReadsAreNewest`, `ChangesAreNotForgotten` and the action property `ScreenNeverGoesBack`.

**StoresProofs.** `FilesAreReplacedWhole` needs that no other writer holds the temporary of a
call. The names of calls in flight are below the counter (`NamesAreUsed`), so that the next one
reserved is new and names differ (`NamesDiffer`); that also holds after a stop, because a name
whose temporary exists is not reserved. What is renamed has been synced (`CallsAreSane`), so that a
loss of power leaves a whole save. One lemma describes the replacement of one call by another
(`CallStep`), and each action uses it. `FilesChangeBySaves` adds that a reader's file changes by a
rename of that very file, or by a loss of power to something it held before.

`LogTellsTheTruth` is about three kinds of lists at once: the one shown, the one in the file and
those handed to the executor, any of which may be the next to be read back. `LogInvariant` asks the
same of all of them (`ListIsSound`): ids increase, none is ahead of the newest entry that is shown,
a claimed success is one, and what is called a failure neither succeeded nor had words of doubt. A
restart makes the list of the file the one shown, and the next id is then still new only because no
list was ahead. An operation that ends rewrites its own entry and no other, because ids increase and
the one entry in progress is the newest, that of the operation in flight (`NewestRuns`), of which
nothing is known until Git ends (`TruthFollows`). A failure whose message has none of the words its
handler looks for may have done anything ("unspoken"): of it nothing more is claimed, because the
code claims it (section 5). The model has one operation at a time, which is what `OneTaskAtATime`
proves of the slot.

`SectionsSurvive` compares sections as a program that loads the file sees them, so that a step must
show that what it writes is a file that is accepted (`NextIsAccepted`), although recents are cut
off, a name may be one too many, and an earlier version of the file is brought up to date. The save
in progress replaces what it read (`ReplacesWhatItRead`), which is what holding the writers' lock
is for, and a list of themes was checked before it was queued (`ThemesWereChecked`).

`UpdatesAreKept` rests on two locks. Whoever has read the profiles holds the store's lock, so that
what it made of them is still what the mutation makes of the file when it is written
(`LoadedIsCurrent`); whoever has compared the configuration under Git's lock may count on it while
he has the lock, and on what he wrote into it until one is taken from another (`VerifiedIsCurrent`).
The first one that is taken from another is taken by a publisher, whose `ConfigLock` removes the
name a second time (`OnlyPublishersRob`); from then on a lock may be renamed or removed by who did
not make it, and `PublishesReviewed` claims only what still holds: who has the lock publishes over
what was reviewed. That a published profile which was read back is recorded is a matter of the
window: while one is applied no save runs and no dialog can start one (`AppliesAlone`), so the save
that `save_profile_mutation` drops is never the assignment. It assumes of the constants that the
markers of "nobody", of Git and of a lock left behind are no programs, profiles or identities.

**WindowProofs.** `OneTaskAtATime` is inductive with the types: whoever takes the slot found it
free, and a free slot has no task. Every dialog that drops its task frees the slot only under its
own label (`DroppedIsSound`), which is where a missing comparison would free another's.
`OperationsAreReviewed` follows for every step: a confirmation runs in the tab it was shown in, and
only what was committed clears its message.

`TheWatchIsReal` needs more than the watcher that is held: a watcher that was made but whose reply
has not been taken must see the folder too, or its loss must be on its way (`MadeSees`), because
the reply installs it unseen; what was not made sees nothing (`OnlyMadeSee`); and a watch that is on
is of the newest epoch, whose reply was taken (`OnIsHeld`). The losses that are due are those told
in the queue and those the loop has collected, and the lemmas on the queue (`AppendTells`,
`HeadTells`, `SetToSeqIsOnto`) say that none is dropped between the two.

`ThemeIsWorn` states `WindowWearsTheTheme`. That the list in memory is the stored one between two
saves says nothing of the save in flight, so `SaveInFlight` follows it: at most one list of themes
is queued, it is the list in memory, or the one before it with the outcome still to be handled, and
every reply finds the editor, the deletion or the import that asked for it. `OneDialog` and
`OneDocument` say that a deletion being confirmed, an import or an export excludes the others, which
is what keeps a second list out of the queue. `Wears` is about what is on screen: a draft is worn at
once or is waiting for the next frame, and whatever else changes the palette (the desktop, the
appearance, a choice) resolves the draft first while an editor is open, and the selection otherwise.
A selection stays listed because the reply to a deletion takes the theme off the list in memory and
chooses the fallback in one step; the stored selection is written after the stored list. When the
program stops between these two writes a later import may take the number of the deleted theme, and
of the selection nothing is claimed from then on; the list is still the stored one.

`PaneKeepsEdits` states `EditsAreKept`. The pane and the file are two copies of one list that change
in different orders: an edit goes to the screen first, an opened project to the file first. What
links them is the numbering. The writer answers each save once, in the order of the numbers
(`Numbered`), so while the newest list is queued or answered it is the one on screen
(`NewestIsShown`), and a reply that carries the newest number brings nothing new. A save that failed
is known until the list is saved again, and told until then or until `DismissError`
(`FailureIsTold`); after that the pane may differ from the file and say nothing, and the property
does not claim otherwise. Once the newest list was stored (`NewestIsStored`) the file is what is
shown and the projects whose replies are still *coming* (`Covered`), as long as there is room for
all of them. A full list makes that hard: the file and the screen may drop different projects. It is
why `Covered` claims equality only while the list shown and the coming projects fit, and otherwise
only that groups and the projects in them are the same (`Placed`), which `remember` never touches.
The replies of `FinishRecentStep` then have three cases. A reply that evicts or that a newer list
overtook saves the list again, and there is a new newest list. One that only adds its project takes
it from the coming ones to those shown (`Absorbed`). One that adds nothing was about a project that
is shown, or found the list full of grouped projects; the file, having the same ones, could not have
stored the project either (`NothingAbsorbed`). `RememberCases` and `RememberKeeps` say what
`remember` does to a list in each case. `EditsAreGood` carries the invariant over every edit;
`RemoveGroupIs`, by counting the entries ahead of each, says that no two of the lifted entries come
to lie in one place. The assumption that no path is a number separates projects from groups.

**WorkingCopyProofs.** Of partial staging, `LockExcludes` is inductive once the creator of a lock
left by a stop is known to be an instance (`OrphanIsOurs`). `PublishedIsReviewed` needs what the
phases have established: from the validation on the index records what was reviewed
(`IndexIsReviewed`), which nobody can change while the lock is held, and from the preparation on the
copy is the index, with the new entry once `update-index` has run (`DraftIsCopy`). The one lemma
`Entering` says what a change of phase keeps. `OnlyOwnLockIsRemoved` follows from `LocksExclude`:
whoever removes the lock holds it.

`DiscardsLoseNothing` states `OnlyReviewedIsDiscarded` of the changes list, for any set of paths
(sequences of names), contents, ignored files and first trees. Two facts about data carry it. Trees
stay trees, no file below another, whatever Git stages, restores or writes, because it removes what
stands in the way (`OverlayIsTree`, which `TakenIsTree` and `WrittenIsTree` instantiate). And no
path has two tracked rows, since Git pairs the sides of a rename at most once (`RowIs`,
`RowsAreDisjoint`). The invariant adds `PlanHolds`: from the comparison until something else changes
the trees, the files of the plan are as it recorded them, nothing lies above or below them, the
index has what the row showed, and the paths given to Git match no others (`MatchesReviewed`). That
is what `Plans` makes sure of when it is computed again (`PlansHold`), and the only thing the run of
Git rests on. Without the second half of `SingleFile` the paths would match entries below them,
files that the discard would create again, as the mutant of the run shows. The claim is about every
path, whether a file is there or not, and about every entry but those above the row's path, which
Git replaces (`OtherRowsStay`, refuted by `MCDiscardReplaces`). That run is violated with and
without the check at `discard.rs:284` and says nothing of it; the mutant does. Nothing is claimed of
a discard that was raced, which the code accepts.

`RecoveryLosesNothing` states `NothingLocalIsLost` of amend, undo, cherry-pick, revert and the
stash, for any paths, contents, ignored files, histories and bounds. What protects files that `git
status` does not list is the walk along each path that Git will write. `WalkEnds` says that it ends
at the first name that is no directory, or at the path itself, and that what is found there is
tracked. So no file with content of its own is, lies above or lies below an affected path
(`LocalIsApart`): at or above it, the walk would end on that file, which is not tracked unless `git
status` lists it; below it, the walk would end on the path, a directory where a tracked file is
missing, which `git status` lists. Writing affected paths then leaves every such file alone
(`ProtectedKeeps`). The invariant `RecoveryInvariant` says of the repository what the operators need
(`RepositoryInv`: older parents, trees with no file below another, entries of the stash numbered
downwards), and of a compared plan that it fits (`ProposalHolds`: the tip and the index are those
that were reviewed, the affected paths are protected or, for a stash, the files are the recorded
ones, the tip is unpublished before an undo, the log is the one listed), until somebody else changes
something. Keeping the first half is most of the work: a commit adds no younger parent
(`NewCommitIs`), a published commit stays one (`Grows`), what a stash or a merge leaves is a tree
(`AppliedIndexIsTree`, `WrittenIsMarked`). `CommandSpares` has one case per command. The mutant of
the run, which asks `git status` alone, fails exactly on an ignored file in the way.

**RepositoryTabsProofs.** The methods of the tabs assign the view as a whole, and several of them
run within one handler, so the lemmas are about views: what each method makes of a view that is in
order. `TabsTellTheTruth` needs that an active tab holds no retained state and that without one
nothing is read (`Settled`); retaining the live repository finds its own tab only because paths are
different (`Distinct`). A redirect removes the tab under another name before it switches, and then
no tab is active, which is why `BlankTabIsExplained` survives a dialog that refuses the switch.
`SessionForgetsTabs` is not inductive: after such a redirect nothing is due to be saved although a
tab is gone. `Covers` allows the session one tab more than the view has while none is active;
whatever makes one active again is saved, or is a new tab that takes the place of the one that
went. The lemmas on sequences (`Finding`, `Removing`, `RemovingKeeps`, `Grouping`) say where a path
is found and which tabs a removal, an exchange or a group leaves.

**Only model-checked.** Liveness (`AcceptedWorkEnds`, `RequestsSettle`, `DeliveryEnds`,
`EventsAreRead`, `SidesSettle`, `RepliesSettle`) is beyond TLAPS. What a recursive function or a
fold computes for every input would need an induction of its own for each, as the cache's sums have
one: `SelectionIsExact`, `MenusAgree`, `WindowIsOneTraversal` and `SearchIsExact` rest on the
paths of an alignment, on the depths of a forest and on the ancestors of a commit, and stay with
TLC. Two other properties are checked and have no theorem: of the history `ReaderUndisturbed`, and
of the working copy `ContinuesAsReviewed`, where a rebase replays a sequence by a recursive function
over whatever its situations hold. The latter's part on conflicts says that a resolution which
nothing disturbs after its last comparison stages what was decided and touches no other file, and no
other entry but those above or below the path whose files are gone, which the index cannot hold
beside it (`ResolvesDecided`, `ResolutionKeepsOthers`), and that no edit made before that
comparison is overwritten (`SavesOverReviewed`). It claims nothing of an edit made between the
comparison and the write in place (`integration.rs:1158`, `:1160`), which is lost, and it excepts
the files below a conflict's path that has become a directory: the review shows such a directory as
a submodule without content, and a choice then stages or removes what lies below unseen
(`integration.rs:1079`, `:994`).

## 5. Where the documentation and the code differ

Two sentences are refuted by runs:

- `docs/architecture.md:114`, "Returning from the last inspection resumes queued refreshes".
  `close_blame` does not try the queue (`MCRefreshResumes`).
- `git-core/src/work/discard.rs:252`, "Refuse file/tree transitions whose restore would also change
  rows outside the reviewed file". `ensure_single_file_restore` looks below the reviewed paths,
  never above them (`MCDiscardReplaces`).

Others were met while modelling. The models contain the behaviour, and the properties above do not
claim what the sentences say:

- `docs/architecture.md:100`, an outcome that is not known is reported as uncertain. Which it is the
  handlers tell by words in the message: neither has those of a caught panic (`operations.rs:136`),
  and that of a clone or an initialisation does not know "exceeded", the word of a time limit
  (`workspace.rs:209`, `:783`). `NoFalseOutcome` allows a failure to be one nobody can vouch for.
- `git-core/src/work/profiles.rs:1`, repository-local writes use Git's lock: `ConfigLock` removes
  `config.lock` again after the rename, which may be the lock that another process made since
  (`:256`). `OnlyPublishersRob` says that nothing else takes a lock away.
- `docs/architecture.md:50`, "a late result cannot change the current selection": when a warm tab
  is selected while another path is being opened, `retain_active_tab` returns early, nothing revokes
  the read, and its reply is applied to the tab that is now active (`repository_tabs.rs:796`).
- `docs/repository-tabs.md:5`, opening an alias "selects its existing tab": not when a dialog came
  in front while the path was discovered (`repository_tabs.rs:1118`).
- `docs/repository-tabs.md:23`, a restart restores the pinned offset: a cold tab selected while an
  operation runs is never asked for its page (`history_paging.rs:70`).
- `docs/user-guide.md:92`, one captured traversal: a restored scope may be put over the rows of a
  newer one (`repository_tabs.rs:1437`).
- `docs/architecture.md:68`, no stale results beneath another heading: files of a match may be
  listed under the ordinary selection after the query is cleared (`history_search.rs:215`).
- `docs/architecture.md:74` and `:114`: a query whose debounce ends during an operation is not
  submitted afterwards, and refreshes queued behind a query of more than 4 KiB or a download wait
  for another event (`history_search.rs:196`, `:245`, `workspace.rs:822`).
- `docs/interactive-3d.md:153`, frames settle at 720 pixels: not after a drag whose release was not
  delivered (`model_view.rs:1087`).
- `project_pane.rs:200`, `:217`, `:1414`: a removal between two replies of one project is undone,
  the hub keeps the older of two replies, and a form confirmed again after a failed save creates a
  second group (`project_pane.rs:306`, `workspace.rs:278`, `project_pane.rs:738`).
- `theme_editor.rs:1384`, `:1399`: a colour picked while a save is pending is dropped by its reply,
  and an import after a stop between the two writes of a deletion reuses the identifier that is
  still selected (`theme_editor.rs:1964`, `appearance/custom.rs:884`).
- `appearance/omarchy.rs:490`: a theme changed between the read and the installation of the watcher
  is not picked up (`omarchy.rs:544`).
- `docs/architecture.md:174`, each accepted write is recorded: the entry is saved on another
  executor than the write (`workspace.rs:763`).
- `docs/repository-tabs.md:35`: switching tabs while branches are compared drops the task that frees
  the window's operation slot (`repository_tabs.rs:825`); the part *freeing* of `MCWindow` leaves
  that comparison out.
- `docs/architecture.md:94`, a drop validates the captured identity: an entry saved after the
  validation shifts the selector (`recovery.rs:339`).
- `docs/architecture.md:92`, abort preserves independent work: an ignored file written meanwhile is
  not listed (`integration.rs:624`).
- `git-core/src/work/integration.rs:705`, a rebase is kept off ignored files, of which those are
  looked for that stand where the destination or a commit *adds* one (`:725`, `--diff-filter=AT`). A
  commit that only *changes* a file which the destination and a later commit remove stops the rebase
  with that file in place, over an ignored one. One of the five situations has it, and
  `StartLosesNothing` excepts what such a conflict leaves (`LeftOfConflicts`); without the exception
  the run finds it, and Git 2.39 does overwrite the file.
- `git-core/src/work.rs:62` and `working_selection.rs:436`: staging a renamed row that was edited
  since fails, and the path of a removed file also stages what lies below a directory of its name.

## 6. What is left out

- `WatchDelivery`: the registration of roots and its retries, the ignore policy, the lists of more
  than sixteen paths that become a rescan. One path stands for all of a kind.
- `AutomaticRefresh`: what a read contains beyond the aspects it covers. The pause of refreshes by a
  search is in `HistorySearch`.
- `RepositoryTabs`: names and pins of the library and the limit of retained bytes. The window that
  a bookmark restores is in `HistoryBrowsing`.
- `HistoryBrowsing`, `HistorySearch`: the layout of the graph, byte estimates, the scroll anchor,
  the filter of the changed files' paths.
- `ReadWorker`: the sequence number's wrapping (2^64 requests).
- Stores: texts, redaction, signing values and byte limits. `PartialStaging`: conversion attributes
  and refusals by file type. `WorkingChanges`: modes, submodules, the identity of directories, and
  the branch without a commit (`discard.rs:102`, `work.rs:658`), where unstaging and discarding take
  other commands.
- `Integration`: a stopped cherry-pick or revert, which is continued, aborted and ended by the same
  comparisons as a merge, and the refusal to continue a rebase that has a message to edit
  (`integration.rs:614`).
- Branches, tags, worktrees, fetch, pull and push build one Git command line each; their exclusion
  and confirmation are in `OperationSlot`. The sequence file of an interactive rebase, the dialog of
  a conflict, rewritten series, GitHub's review drafts and the authentication exchange have no
  module: they are requests to processes and services that share no state with the modelled parts.
- Views, text layout, settings widgets, preview decoding, `vendor/`, `website/` and `scripts/`: no
  protocol of their own.

## 7. What could be proved next

1. `AtomicFile` under the stores: that a writer which replaces a file in one step is implemented by
   `AtomicFile`'s call, so that `PreferencesStore` and `ActivityLog` rest on a theorem.
2. `StaysValid` of the project list but for depths: `WindowProofs` has that no entry is listed twice
   and that projects keep to their limit (`GoodList`); that every edit leaves a forest is open.
3. `ReaderUndisturbed` of the history, which compares windows of rows before and after a refresh.
