-------------------------- MODULE HistoryBrowsing --------------------------
(***************************************************************************)
(* The ordinary history of the open repository: the worker's session keeps *)
(* one traversal (a cursor over the ancestry of captured tips), the window *)
(* shows a bounded run of its rows plus at most one retained selection     *)
(* outside of it, and quiet reads announce, or follow, what the refs moved *)
(* to since.                                                               *)
(*                                                                         *)
(* The interface is one thread and the worker another.  A request replaces *)
(* the one before it, which may still run to its end, unanswered, and move *)
(* or lose the cursor.  The reply is computed at one time and applied at a *)
(* later one.  A commit is a number greater than its parents', a scope is  *)
(* the set of captured tips, and a traversal lists the commits reachable   *)
(* from a scope, the greatest first.                                       *)
(***************************************************************************)
EXTENDS Naturals, Sequences, FiniteSets, SequencesExt

CONSTANTS
    Commits,          \* positive numbers
    Parents,          \* Parents[c], the parents of a commit, smaller than c
    Tips,             \* the sets of tips that the refs may have
    PageSize,         \* PAGE_SIZE
    MaxRows,          \* MAX_WINDOW_ROWS
    MaxMoves,         \* bound on the moves of the refs
    Histories,        \* Histories[scope], what git lists of a scope (CommitGraph)
    MaxReopens,       \* bound on the tabs reopened from their bookmark
    Operations        \* may explicit operations run?

VARIABLES
    tips,       \* the tips of the refs on disk
    moves,      \* how often they moved
    cursor,     \* session.history: the traversal's scope and offset
    job,        \* the newest request
    answer,     \* its reply, not yet applied
    rows,       \* commits: the window's rows, and the retained one at the end
    paging,     \* history_paging
    selected,   \* selected_commit: an index of rows, or 0
    retained,   \* automatic.retained_commit: an index of rows, or 0
    restoring,  \* repository_tabs.restoring: the bookmark being restored
    reopens,    \* how often a tab was reopened
    atTop,      \* is History shown from its first row?
    busy,       \* operation_busy
    committed,  \* history_updates.committed: a commit created here, or 0
    updates,    \* history_updates: observed, complete, pending, followed
    base        \* ghost: the scope observed before the update announced

diskVars == <<tips, moves>>
workVars == <<cursor, job, answer>>
windowVars == <<rows, paging, selected, retained>>
tabVars == <<restoring, reopens>>
noticeVars == <<updates, base>>
uiVars == <<atTop, busy, committed>>
vars == <<diskVars, workVars, windowVars, tabVars, noticeVars, uiVars>>

-----------------------------------------------------------------------------
(* Traversals *)

Scopes == DOMAIN Histories

Reach(scope) == ToSet(Histories[scope])

NoScope == {0}    \* None, where a scope is optional
End == Cardinality(Commits) + 1    \* None, as a next_offset

NoCursor == [scope |-> NoScope, offset |-> 0]

\* What one next_page of `limit` rows may return at `offset`: all it was asked
\* for, what is left before the end, or less at the byte limit.
Pages(scope, offset, limit) ==
    LET left == Len(Histories[scope]) - offset
        Rows(n) == SubSeq(Histories[scope], offset + 1, offset + n)
        Page(n, next) == [scope |-> scope, offset |-> offset, rows |-> Rows(n), next |-> next]
    IN  {IF left >= limit THEN Page(limit, offset + limit) ELSE Page(left, End)}
          \cup {Page(n, offset + n) : n \in {k \in 1 .. limit - 1 : k < left}}

-----------------------------------------------------------------------------
(* Requests and the worker's session *)

NoJob == [kind |-> "none", scope |-> NoScope, offset |-> 0]
Job(kind) == [NoJob EXCEPT !.kind = kind]
PageJob(scope, offset) == [kind |-> "page", scope |-> scope, offset |-> offset]
CreatedJob(c) == [kind |-> "created", scope |-> {c}, offset |-> 0]

NoPage == [scope |-> NoScope, offset |-> 0, rows |-> <<>>, next |-> End]
NoAnswer == [result |-> "none", page |-> NoPage]
Failure == [result |-> "failed", page |-> NoPage]
Success(p) == [result |-> "ok", page |-> p]

\* A snapshot of the repository was shown.
Opened == updates.observed # NoScope

Loading == job.kind \notin {"none", "quiet"}

Limit(j) == IF j.kind = "created" THEN 1 ELSE PageSize

\* The traversal a page is read with: the session's, when it has the scope and
\* has not passed the page, or a new one.
Continued(j) ==
    IF cursor.scope = j.scope /\ cursor.offset <= j.offset THEN cursor
    ELSE [scope |-> j.scope, offset |-> 0]

\* history_page: rows before the page are read again and dropped.
ReadFrom(traversal, j) ==
    {<<[scope |-> p.scope, offset |-> p.offset + Len(p.rows)], Success(p)>> :
        p \in Pages(traversal.scope,
                    IF traversal.offset < j.offset THEN j.offset ELSE traversal.offset,
                    Limit(j))}

\* What running j leaves: the session's cursor and the reply.  A snapshot
\* captures the tips and starts a new traversal; the read of a commit's files
\* leaves the cursor alone; an error or a cancellation of a traversal, even
\* after it returned its rows, loses it.
Outcomes(j) ==
    CASE j.kind \in {"open", "latest", "quiet"} ->
            ReadFrom([scope |-> tips, offset |-> 0], [j EXCEPT !.scope = tips])
              \cup {<<NoCursor, Failure>>}
      [] j.kind \in {"page", "created"} ->
            {<<NoCursor, Failure>>} \cup
            (IF j.offset > Len(Histories[j.scope]) THEN {} ELSE ReadFrom(Continued(j), j))
      [] OTHER -> {<<cursor, Success(NoPage)>>, <<cursor, Failure>>}

\* A request that is replaced is not answered: it was dropped from the queue,
\* or it runs to some end before the next one.
Replace(next) ==
    /\ job' = next
    /\ answer' = NoAnswer
    /\ \/ UNCHANGED cursor
       \/ job # NoJob /\ answer = NoAnswer /\ \E o \in Outcomes(job) : cursor' = o[1]

Run ==
    /\ job # NoJob /\ answer = NoAnswer
    /\ \E o \in Outcomes(job) : cursor' = o[1] /\ answer' = o[2]
    /\ UNCHANGED <<job, diskVars, windowVars, tabVars, noticeVars, uiVars>>

\* The worker reads for another tab, or releases the history of a closed one:
\* the session and the request in flight are gone when this tab is back.
Elsewhere ==
    /\ ~Loading
    /\ cursor # NoCursor
    /\ cursor' = NoCursor
    /\ job' = NoJob /\ answer' = NoAnswer
    /\ UNCHANGED <<diskVars, windowVars, tabVars, noticeVars, uiVars>>

-----------------------------------------------------------------------------
(* The window *)

NoPaging == [scope |-> NoScope, offset |-> 0, next |-> End]
NoBookmark == [offset |-> 0, pinned |-> NoScope, commit |-> 0, kept |-> FALSE]

\* The rows on screen: all but the retained one.
Listed == IF retained = 0 THEN rows ELSE RemoveAt(rows, retained)

SelectedCommit == IF selected = 0 THEN 0 ELSE rows[selected]

Position(s, c) == IF \E i \in DOMAIN s : s[i] = c THEN CHOOSE i \in DOMAIN s : s[i] = c ELSE 0

\* The new rows with a commit selected; one that is not among them is kept as
\* an additional last row.
Selecting(newRows, c) ==
    LET at == Position(newRows, c) IN
    IF c # 0 /\ at = 0
    THEN /\ rows' = Append(newRows, c)
         /\ selected' = Len(newRows) + 1
         /\ retained' = Len(newRows) + 1
    ELSE rows' = newRows /\ selected' = at /\ retained' = 0

\* is_deep.
Deep == paging.offset > 0 \/ Len(Listed) > PageSize

\* follows_latest: History is shown from its first row.
Following == atTop /\ ~Deep

FromSnapshot(p) == [scope |-> p.scope, offset |-> 0, next |-> p.next]

\* Mutant: a page that becomes the window leaves the window's offset.
WindowAfterMislabelled(p, roomy) ==
    IF /\ p.offset = paging.offset + Len(Listed)
       /\ Len(Listed) + Len(p.rows) <= MaxRows
       /\ roomy
    THEN [rows |-> Listed \o p.rows, append |-> TRUE]
    ELSE [rows |-> p.rows, append |-> TRUE]

\* A page continues the window, or becomes the window: when it does not start
\* where the window ends, has too many rows or (`roomy`) too many bytes.
WindowAfter(p, roomy) ==
    LET append == /\ p.offset = paging.offset + Len(Listed)
                  /\ Len(Listed) + Len(p.rows) <= MaxRows
                  /\ roomy
    IN  [rows |-> IF append THEN Listed \o p.rows ELSE p.rows, append |-> append]

-----------------------------------------------------------------------------
(* Announcing updates *)

Nothing == [kind |-> "none", count |-> 0]
Changed == [kind |-> "changed", count |-> 0]
New(n) == [kind |-> "new", count |-> n]

NoSet == {0}

Merge(a, b) ==
    IF a = Nothing THEN b
    ELSE IF a.kind = "new" /\ b.kind = "new" THEN New(a.count + b.count)
    ELSE Changed

\* remember: what is observed, and all its commits when the page has them all.
Remember(p, pending, followed) ==
    [observed |-> p.scope,
     complete |-> IF p.next = End /\ Len(p.rows) <= PageSize THEN ToSet(p.rows) ELSE NoSet,
     pending |-> pending,
     followed |-> followed]

NoUpdates == [observed |-> NoScope, complete |-> NoSet, pending |-> Nothing, followed |-> FALSE]

\* complete_update: both sets of commits are known.
CompleteUpdate(old, new) ==
    CASE old = new -> Nothing
      [] old # new /\ old \subseteq new -> New(Cardinality(new \ old))
      [] OTHER -> Changed

\* classify_update: a chain of single parents leads from the one new tip to
\* the one old tip, within the page.
ChainUpdate(old, p) ==
    LET Reaches(n) ==
            /\ {p.rows[1]} = p.scope
            /\ Parents[p.rows[n]] = old
            /\ \A i \in 1 .. n - 1 : Parents[p.rows[i]] = {p.rows[i + 1]}
    IN  IF Cardinality(old) = 1 /\ Cardinality(p.scope) = 1 /\ \E n \in DOMAIN p.rows : Reaches(n)
        THEN New(CHOOSE n \in DOMAIN p.rows : Reaches(n))
        ELSE Changed

Classify(p) ==
    IF updates.observed = p.scope \/ updates.observed = NoScope THEN Nothing
    ELSE IF updates.complete # NoSet /\ p.next = End /\ Len(p.rows) <= PageSize
    THEN CompleteUpdate(updates.complete, ToSet(p.rows))
    ELSE ChainUpdate(updates.observed, p)

\* captured: what is shown is what is observed.
Captured(p) ==
    /\ updates' = Remember(p, Nothing, FALSE)
    /\ base' = p.scope

\* observe.
Observe(p) ==
    LET update == Classify(p)
        pending == IF update = Nothing THEN updates.pending ELSE Merge(updates.pending, update)
        followed == \/ update # Nothing /\ Following
                    \/ update = Nothing /\ updates.followed
                    \/ Following /\ pending # Nothing
    IN  /\ updates' = Remember(p, pending, followed)
        /\ base' = IF pending = Nothing THEN p.scope ELSE base

\* scope_unavailable, unless the same disappearance was reported before.
ScopeUnavailable ==
    /\ updates' \in {updates, [updates EXCEPT !.pending = Changed, !.followed = FALSE]}
    /\ UNCHANGED base

-----------------------------------------------------------------------------
(* Requests of the user *)

\* select_commit; a row is then selected by its index in the new rows.
SelectCommit(i) ==
    /\ i \in DOMAIN rows \ {retained}
    /\ selected' = i
    /\ Replace(Job("files"))
    /\ UNCHANGED <<diskVars, rows, paging, retained, tabVars, noticeVars, uiVars>>

\* request_history_page, by Older and Previous.
MayPage == ~Loading /\ ~busy

RequestPage(offset) ==
    /\ MayPage /\ paging.scope # NoScope /\ Opened
    /\ Replace(PageJob(paging.scope, offset))
    /\ UNCHANGED <<diskVars, windowVars, tabVars, noticeVars, uiVars>>

Older == paging.next # End /\ RequestPage(paging.next)

Previous ==
    /\ paging.offset > 0
    /\ RequestPage(IF paging.offset < PageSize THEN 0 ELSE paging.offset - PageSize)

\* request_history_discovery, of the latest tips and of a created commit.
Latest ==
    /\ MayPage
    /\ Replace(Job("latest"))
    /\ UNCHANGED <<diskVars, windowVars, tabVars, noticeVars, uiVars>>

ViewCreated ==
    /\ MayPage /\ committed # 0 /\ Opened
    /\ Replace(CreatedJob(committed))
    /\ UNCHANGED <<diskVars, windowVars, tabVars, noticeVars, uiVars>>

\* open, with the bookmark that is to be restored.
Open(bookmark) ==
    /\ Replace(Job("open"))
    /\ restoring' = bookmark
    /\ updates' = NoUpdates /\ base' = NoScope
    /\ rows' = <<>> /\ selected' = 0 /\ retained' = 0
    /\ atTop' = TRUE
    /\ UNCHANGED <<diskVars, paging, busy, committed>>

\* The selection is looked for among the rows of the new snapshot; a bookmark
\* that is not restored yet still is.
Refresh ==
    /\ Opened \/ job = NoJob
    /\ Open(IF restoring.kept THEN restoring
            ELSE [NoBookmark EXCEPT !.commit = SelectedCommit])
    /\ UNCHANGED reopens

\* The tab is closed or the program ends, and it is opened again from what was
\* saved of it (tab_bookmark).
Reopen ==
    /\ Opened /\ reopens < MaxReopens
    /\ reopens' = reopens + 1
    /\ Open([offset |-> paging.offset, pinned |-> paging.scope,
             commit |-> SelectedCommit, kept |-> TRUE])

\* The quiet read of AutomaticRefresh, which waits for the other reads.
StartQuiet ==
    /\ job = NoJob /\ ~busy /\ Opened
    /\ tips # updates.observed
    /\ Replace(Job("quiet"))
    /\ UNCHANGED <<diskVars, windowVars, tabVars, noticeVars, uiVars>>

Scroll ==
    /\ Opened
    /\ atTop' = ~atTop
    /\ UNCHANGED <<diskVars, workVars, windowVars, tabVars, noticeVars, busy, committed>>

\* Dismiss, offered when the update announced is on screen.
Dismiss ==
    /\ updates.pending # Nothing /\ updates.followed /\ Following
    /\ updates' = [updates EXCEPT !.pending = Nothing]
    /\ base' = updates.observed
    /\ UNCHANGED <<diskVars, workVars, windowVars, tabVars, uiVars>>

\* An explicit operation makes a quiet read late; one started over the working
\* copy drops every read.  One that commits remembers the commit.
StartOperation ==
    /\ Operations /\ ~busy
    /\ busy' = TRUE
    /\ \/ (~atTop \/ job.kind = "quiet") /\ Replace(NoJob)
       \/ job.kind # "quiet" /\ UNCHANGED workVars
    /\ UNCHANGED <<diskVars, windowVars, tabVars, noticeVars, atTop, committed>>

Moved(new) ==
    /\ moves < MaxMoves /\ new # tips
    /\ tips' = new /\ moves' = moves + 1

EndOperation ==
    /\ busy
    /\ busy' = FALSE
    /\ \/ UNCHANGED <<diskVars, committed>>
       \/ \E new \in Tips : Moved(new) /\ committed' \in new \ Reach(tips)
    /\ UNCHANGED <<workVars, windowVars, tabVars, noticeVars, atTop>>

\* Another program moves the refs.
MoveRefs ==
    /\ \E new \in Tips : Moved(new)
    /\ UNCHANGED <<workVars, windowVars, tabVars, noticeVars, uiVars>>

-----------------------------------------------------------------------------
(* Replies *)

Answered(kind) == job.kind = kind /\ answer # NoAnswer

Succeeded(kind) == Answered(kind) /\ answer.result = "ok"

Delivered == Replace(NoJob)

\* select_commit(index) at the end of a handler, over the rows it leaves.
ThenSelect(i) == selected' = i /\ Replace(Job("files"))

\* restore_tab_selection, over the rows of a window: the bookmark's commit is
\* selected, as an additional row when it is not among them.
RestoreSelection(newRows) ==
    IF restoring.commit = 0
    THEN /\ rows' = newRows /\ retained' = 0
         /\ selected' = Position(newRows, SelectedCommit)
         /\ restoring' = NoBookmark
         /\ Delivered
    ELSE /\ Selecting(newRows, restoring.commit)
         /\ Replace(Job("files"))
         /\ UNCHANGED restoring

\* A reply of Open: the snapshot is shown and its first row, or the commit that
\* was selected, is selected.
ReceiveSnapshot ==
    /\ Succeeded("open") /\ ~restoring.kept
    /\ Captured(answer.page)
    /\ paging' = FromSnapshot(answer.page)
    /\ rows' = answer.page.rows /\ retained' = 0
    /\ LET again == Position(answer.page.rows, restoring.commit)
           i == IF again = 0 /\ answer.page.rows # <<>> THEN 1 ELSE again
       IN  \/ i # 0 /\ ThenSelect(i)
           \/ (i = 0 \/ ~atTop) /\ selected' = i /\ Delivered
    /\ restoring' = NoBookmark
    /\ atTop' \in {atTop, FALSE}
    /\ UNCHANGED <<diskVars, reopens, busy, committed>>

\* finish_tab_snapshot: the snapshot of a tab that is being restored.  A deep
\* window is asked for in the traversal it was captured from.
ReceiveRestored ==
    /\ Succeeded("open") /\ restoring.kept
    /\ Captured(answer.page)
    /\ IF restoring.offset > 0
       THEN /\ paging' = [FromSnapshot(answer.page) EXCEPT !.scope = restoring.pinned]
            /\ rows' = answer.page.rows /\ selected' = 0 /\ retained' = 0
            /\ IF busy THEN Delivered ELSE Replace(PageJob(restoring.pinned, restoring.offset))
            /\ UNCHANGED restoring
       ELSE /\ paging' = FromSnapshot(answer.page)
            /\ RestoreSelection(answer.page.rows)
    /\ atTop' \in {atTop, FALSE}
    /\ UNCHANGED <<diskVars, reopens, busy, committed>>

\* receive_history_page: nothing follows the window.
ReceiveEnd ==
    /\ Succeeded("page")
    /\ answer.page.rows = <<>> /\ answer.page.offset = paging.next
    /\ paging' = [paging EXCEPT !.next = End]
    /\ Delivered
    /\ UNCHANGED <<diskVars, rows, selected, retained, tabVars, noticeVars, uiVars>>

\* receive_history_page.
ReceivePage ==
    /\ Succeeded("page")
    /\ ~(answer.page.rows = <<>> /\ answer.page.offset = paging.next)
    /\ \E roomy \in BOOLEAN :
        LET window == WindowAfter(answer.page, roomy) IN
        /\ paging' = [paging EXCEPT
                        !.offset = IF window.append THEN @ ELSE answer.page.offset,
                        !.next = answer.page.next]
        /\ IF restoring.kept THEN RestoreSelection(window.rows)
           ELSE /\ IF SelectedCommit = 0 /\ window.rows # <<>>
                   THEN rows' = window.rows /\ retained' = 0 /\ ThenSelect(1)
                   ELSE Selecting(window.rows, SelectedCommit) /\ Delivered
                /\ UNCHANGED restoring
        /\ atTop' \in (IF window.append THEN {atTop} ELSE {atTop, TRUE})
    /\ UNCHANGED <<diskVars, reopens, noticeVars, busy, committed>>

\* install_current_history.
Install(p) ==
    /\ paging' = FromSnapshot(p)
    /\ Selecting(p.rows, SelectedCommit)

\* request_history_discovery's reply: the latest tips, shown from the top.
ReceiveLatest ==
    /\ Succeeded("latest")
    /\ Captured(answer.page)
    /\ Install(answer.page)
    /\ atTop' = TRUE
    /\ Delivered
    /\ UNCHANGED <<diskVars, tabVars, busy, committed>>

\* request_history_discovery's reply: a commit created here is selected, in
\* place of the retained one when it is not in the window.
ReceiveCreated ==
    /\ Succeeded("created")
    /\ LET c == Head(answer.page.rows)
           at == Position(rows, c) IN
       /\ IF at # 0 THEN UNCHANGED <<rows, retained>>
          ELSE /\ rows' = Append(Listed, c)
               /\ retained' = Len(Listed) + 1
       /\ ThenSelect(IF at # 0 THEN at ELSE Len(Listed) + 1)
    /\ atTop' \in BOOLEAN
    /\ UNCHANGED <<diskVars, paging, tabVars, noticeVars, busy, committed>>

\* The files of the selected commit; they end the restoration of a tab.
ReceiveFiles ==
    /\ Succeeded("files")
    /\ restoring' = IF restoring.kept THEN NoBookmark ELSE restoring
    /\ Delivered
    /\ UNCHANGED <<diskVars, windowVars, reopens, noticeVars, uiVars>>

\* Mutant: rows are replaced under a reader who is not at the top.
ReceiveQuietAlways ==
    /\ Succeeded("quiet")
    /\ Observe(answer.page)
    /\ IF Following THEN Install(answer.page)
       ELSE UNCHANGED <<rows, selected, retained>> /\ paging' = FromSnapshot(answer.page)
    /\ Delivered
    /\ UNCHANGED <<diskVars, tabVars, uiVars>>

\* apply_quiet_snapshot: new rows are followed at the top and announced.
ReceiveQuiet ==
    /\ Succeeded("quiet")
    /\ Observe(answer.page)
    /\ IF Following THEN Install(answer.page) ELSE UNCHANGED windowVars
    /\ Delivered
    /\ UNCHANGED <<diskVars, tabVars, uiVars>>

\* A read fails: the window stays as it is.
ReceiveFailure ==
    /\ answer.result = "failed"
    /\ IF job.kind = "quiet" THEN ScopeUnavailable ELSE UNCHANGED noticeVars
    /\ Delivered
    /\ UNCHANGED <<diskVars, windowVars, tabVars, uiVars>>

Init ==
    /\ tips \in Tips /\ moves = 0
    /\ cursor = NoCursor /\ job = Job("open") /\ answer = NoAnswer
    /\ rows = <<>> /\ paging = NoPaging /\ selected = 0 /\ retained = 0
    /\ restoring = NoBookmark /\ reopens = 0
    /\ atTop = TRUE /\ busy = FALSE /\ committed = 0
    /\ updates = NoUpdates /\ base = NoScope

Receive ==
    \/ ReceiveSnapshot \/ ReceiveRestored \/ ReceiveEnd \/ ReceivePage
    \/ ReceiveLatest \/ ReceiveCreated \/ ReceiveFiles \/ ReceiveQuiet
    \/ ReceiveFailure

User ==
    \/ \E i \in 1 .. Cardinality(Commits) : SelectCommit(i)
    \/ Older \/ Previous \/ Latest \/ ViewCreated \/ Refresh \/ Reopen
    \/ Scroll \/ Dismiss \/ StartOperation

Next ==
    \/ Run \/ Elsewhere
    \/ Receive
    \/ User
    \/ StartQuiet \/ EndOperation \/ MoveRefs

Spec == Init /\ [][Next]_vars

-----------------------------------------------------------------------------
(* Properties *)

JobKinds == {"none", "open", "latest", "page", "created", "files", "quiet"}

TypeOK ==
    /\ tips \in Tips /\ moves \in 0 .. MaxMoves
    /\ cursor.scope \in Scopes \cup {NoScope}
    /\ job.kind \in JobKinds
    /\ answer.result \in {"none", "ok", "failed"}
    /\ answer # NoAnswer => job # NoJob
    /\ rows \in Seq(Commits)
    /\ selected \in {0} \cup DOMAIN rows
    /\ retained \in {0, Len(rows)}
    /\ paging.scope \in Scopes \cup {NoScope}
    /\ {atTop, busy} \subseteq BOOLEAN
    /\ updates.pending.kind \in {"none", "new", "changed"}

(***************************************************************************)
(* The window shows consecutive rows of one captured traversal, in its     *)
(* order and without a gap, a repeat or a row of another one, whatever     *)
(* pages were read, failed, superseded, restarted or restored in between   *)
(* (receive_history_page and RepositorySession::history_page).             *)
(***************************************************************************)
WindowIsOneTraversal ==
    \E scope \in Scopes, from \in 0 .. End :
        /\ from + Len(Listed) <= Len(Histories[scope])
        /\ Listed = SubSeq(Histories[scope], from + 1, from + Len(Listed))
        /\ ~restoring.kept /\ Listed # <<>> => scope = paging.scope /\ from = paging.offset

(***************************************************************************)
(* Older continues exactly behind the last row, and is withdrawn only when *)
(* no row is left: no commit of the traversal is out of reach              *)
(* (next_offset of HistoryTraversal and history_paging::State).            *)
(***************************************************************************)
OlderContinues ==
    Listed # <<>> /\ ~restoring.kept =>
        \/ paging.next = paging.offset + Len(Listed)
        \/ paging.next = End /\ paging.offset + Len(Listed) = Len(Histories[paging.scope])

(***************************************************************************)
(* However many pages are read, the window keeps a bounded number of rows  *)
(* and one selection beside them (fits_window).                            *)
(***************************************************************************)
WindowIsBounded == Len(Listed) <= MaxRows

(***************************************************************************)
(* A count that is announced is exact: it is the number of commits that    *)
(* became reachable since the history was captured or the last             *)
(* announcement dismissed, over any number of quiet reads, and none was    *)
(* lost (classify_snapshot_update, Update::merge).                         *)
(***************************************************************************)
NewCountIsExact ==
    updates.pending.kind = "new" =>
        /\ Reach(base) \subseteq Reach(updates.observed)
        /\ updates.pending.count = Cardinality(Reach(updates.observed) \ Reach(base))

(***************************************************************************)
(* Whoever reads a history that is not the one last observed is told so:   *)
(* an update that is not on screen is announced until Latest, a refresh or *)
(* its display (observe, and Dismiss only when the update is shown).       *)
(***************************************************************************)
UpdateIsAnnounced ==
    Opened /\ Reach(paging.scope) # Reach(updates.observed) => updates.pending # Nothing

KeepsSelection ==
    (ReceivePage \/ ReceiveQuiet \/ ReceiveLatest) /\ SelectedCommit # 0 /\ ~restoring.kept
        => SelectedCommit' = SelectedCommit

LeavesReader ==
    Answered("quiet") /\ job'.kind = "none" /\ ~Following => UNCHANGED windowVars

(***************************************************************************)
(* Only a reader at the top of the history is moved: a quiet read leaves   *)
(* the rows of any other alone (follows_latest).                           *)
(***************************************************************************)
ReaderUndisturbed == [][LeavesReader]_vars

=============================================================================
