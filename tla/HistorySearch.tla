--------------------------- MODULE HistorySearch ---------------------------
(***************************************************************************)
(* The search of the repository's history: a query typed into the box      *)
(* takes the place of the ordinary history, which is kept aside, and reads *)
(* page after page of the matches in a scope that its first page pins.     *)
(* Clearing the query puts the ordinary history back.                      *)
(*                                                                         *)
(* The search shares the replaceable reader with the other reads, so each  *)
(* of them may take the reader from it, and with the quiet refreshes,      *)
(* which wait for it.  A commit is a number, the history of tip t is       *)
(* t, t - 1, ..., 1, and a query is known by the commits it matches.       *)
(***************************************************************************)
EXTENDS Naturals, Sequences, FiniteSets, SequencesExt

CONSTANTS
    Queries,        \* what may be typed
    LongQueries,    \* queries of more than 4 KiB
    Empty,          \* the empty query
    Matches,        \* Matches[q], the commits a query matches
    MaxTip,         \* the longest history
    PageLimit,      \* matches of a page: 500
    MaxResults,     \* MAX_RESULTS
    MaxMoves,       \* bound on the changes of the refs
    Operations,     \* may explicit operations run?
    Downloads       \* may they be downloads of large files?

Commits == 1 .. MaxTip

VARIABLES
    tip, moves,     \* the history on disk
    repository,     \* "none"; "read", opened anew and not answered; "shown"
    text,           \* what the box holds
    search,         \* history_search.progress
    normal,         \* history_search.normal: the ordinary window kept aside
    window,         \* commits, selected_commit, retained_commit and files
    debounce,       \* history_search.debounce
    job, answer,    \* the newest request and its reply, not yet applied
    queued,         \* automatic.pending
    busy,           \* operation_busy
    before          \* ghost: the ordinary window when the search began

diskVars == <<tip, moves>>
searchVars == <<text, search, normal, debounce, before>>
readVars == <<job, answer, queued>>
vars == <<diskVars, repository, searchVars, window, readVars, busy>>

-----------------------------------------------------------------------------
(* Windows, searches and requests *)

History(t) == [i \in 1 .. t |-> t + 1 - i]

\* Rows, the indexes of the selected and of the retained row, and the commit
\* whose files are listed.
Window(r, s, k, f) == [rows |-> r, selected |-> s, retained |-> k, files |-> f]
NoWindow == Window(<<>>, 0, 0, 0)

Selected(w) == IF w.selected = 0 THEN 0 ELSE w.rows[w.selected]
Listed(w) == IF w.retained = 0 THEN w.rows ELSE Front(w.rows)
Position(r, c) == IF \E i \in DOMAIN r : r[i] = c THEN CHOOSE i \in DOMAIN r : r[i] = c ELSE 0

\* The window over the rows r that keeps the selection, beside them if need be.
Installed(r, w) ==
    LET c == Selected(w) IN
    IF c = 0 \/ Position(r, c) # 0 THEN Window(r, Position(r, c), 0, w.files)
    ELSE Window(Append(r, c), Len(r) + 1, Len(r) + 1, w.files)

\* select_commit.
Selecting(w, i) == Window(w.rows, i, w.retained, 0)

NoSearch == [on |-> FALSE, query |-> Empty, pinned |-> 0, next |-> 0, scanned |-> 0,
             stop |-> "none", paused |-> FALSE, error |-> FALSE]
NewSearch(q) == [NoSearch EXCEPT !.on = TRUE, !.query = q, !.error = q \in LongQueries]

NoJob == [kind |-> "none", query |-> Empty, pinned |-> 0, offset |-> 0, limit |-> 0, commit |-> 0]
Job(kind) == [NoJob EXCEPT !.kind = kind]
CommitJob(kind, c) == [NoJob EXCEPT !.kind = kind, !.commit = c]
SearchJob == [kind |-> "search", query |-> search.query, pinned |-> search.pinned,
              offset |-> search.next, commit |-> 0,
              limit |-> IF PageLimit <= MaxResults - Len(window.rows)
                        THEN PageLimit ELSE MaxResults - Len(window.rows)]

NoAnswer == [result |-> "none", tip |-> 0, scanned |-> 0, stop |-> "none"]
Failure == [NoAnswer EXCEPT !.result = "failed"]
Stopped == [NoAnswer EXCEPT !.result = "stopped"]

Pending == debounce \/ job.kind = "search"
Loading == job.kind \notin {"none", "quiet"}

-----------------------------------------------------------------------------
(* The reader *)

Found(t, q, offset, n) ==
    SelectSeq(SubSeq(History(t), offset + 1, offset + n), LAMBDA c : c \in Matches[q])

\* search_history reads commits until it has as many matches as it may return,
\* or a bound on its reading, or the end of the history.
SearchAnswers(j) ==
    LET t == IF j.pinned = 0 THEN tip ELSE j.pinned
        left == t - j.offset
        Stop(n, why) == [result |-> "ok", tip |-> t, scanned |-> n, stop |-> why]
        Full(n) == Len(Found(t, j.query, j.offset, n)) = j.limit
    IN  {Stop(n, "more") : n \in {k \in 0 .. left : \A i \in 0 .. k - 1 : ~Full(i)}}
          \cup {Stop(left, "exhausted") : x \in {k \in {left} : \A i \in 0 .. k : ~Full(i)}}

Answers(j) ==
    CASE j.kind = "search" -> SearchAnswers(j) \cup {Failure, Stopped}
      [] OTHER -> {[NoAnswer EXCEPT !.result = "ok", !.tip = tip], Failure}

Run ==
    /\ job # NoJob /\ answer = NoAnswer
    /\ answer' \in Answers(job)
    /\ UNCHANGED <<diskVars, repository, searchVars, window, job, queued, busy>>

-----------------------------------------------------------------------------
(* Requests: a read takes the reader from the search and from a quiet read *)

PausedSearch == IF Pending THEN [search EXCEPT !.paused = TRUE] ELSE search

\* cancel_automatic_read: what the quiet read was to read is queued again.
Requeued == queued \/ job.kind = "quiet"

Ask(j) == job' = j /\ answer' = NoAnswer /\ queued' = Requeued

\* try_automatic_refresh, when no request is left: what is queued is read.
Resume(blocked) ==
    LET start == queued /\ ~blocked IN
    /\ job' = IF start THEN Job("quiet") ELSE NoJob
    /\ answer' = NoAnswer
    /\ queued' = (queued /\ ~start)

\* select_commit and the request of its files, over the window w.
ThenSelect(w, i) ==
    /\ window' = Selecting(w, i)
    /\ Ask(CommitJob("files", w.rows[i]))

-----------------------------------------------------------------------------
(* The query *)

\* history_query_changed with a query, over the ordinary window w: whatever was
\* read is dropped, the first query of a search keeps w aside.
BeginSearch(q, w) ==
    /\ normal' = IF normal.kept THEN normal ELSE w @@ [kept |-> TRUE]
    /\ before' = IF search.on THEN before ELSE w
    /\ window' = NoWindow
    /\ search' = NewSearch(q)
    /\ debounce' = (q \notin LongQueries)
    /\ Ask(NoJob)

NotKept == NoWindow @@ [kept |-> FALSE]
Kept == Window(normal.rows, normal.selected, normal.retained, normal.files)

\* The search is over, its window is not used any more.
EndSearch == search' = NoSearch /\ normal' = NotKept /\ debounce' = FALSE /\ before' = NoWindow

Type(q) ==
    /\ q # text /\ text' = q
    /\ IF repository = "none" \/ job.kind = "open"
       THEN UNCHANGED <<search, normal, debounce, before, window, readVars>>
       ELSE BeginSearch(q, window)
    /\ UNCHANGED <<diskVars, repository, busy>>

\* restore_normal_history: the selection's files are read if they were not.
Clear ==
    /\ text # Empty /\ text' = Empty
    /\ IF ~search.on THEN UNCHANGED <<search, normal, debounce, before, window, readVars>>
       ELSE /\ EndSearch
            /\ IF Kept.files = 0 /\ Kept.selected # 0
               THEN ThenSelect(Kept, Kept.selected)
               ELSE /\ window' = Kept
                    /\ IF Pending \/ job = NoJob THEN Resume(busy) ELSE UNCHANGED readVars
    /\ UNCHANGED <<diskVars, repository, busy>>

Restart ==
    /\ search.on /\ ~busy
    /\ BeginSearch(text, window)
    /\ UNCHANGED <<diskVars, repository, text, busy>>

\* The guards of continue_history_search.
MayContinue ==
    /\ search.on /\ ~busy
    /\ Len(window.rows) < MaxResults
    /\ search.stop # "exhausted" /\ search.query \notin LongQueries

\* Mutant: the next page is asked of the scope as it is now.
SubmitUnpinned ==
    /\ Ask([SearchJob EXCEPT !.pinned = 0])
    /\ search' = [search EXCEPT !.paused = FALSE, !.error = FALSE]

Submit ==
    /\ Ask(SearchJob)
    /\ search' = [search EXCEPT !.paused = FALSE, !.error = FALSE]

\* The query was left alone for 250 ms.
Debounced ==
    /\ debounce /\ debounce' = FALSE
    /\ IF MayContinue THEN Submit ELSE UNCHANGED <<search, readVars>>
    /\ UNCHANGED <<diskVars, repository, text, normal, before, window, busy>>

Continue ==
    /\ ~Pending /\ MayContinue /\ Submit
    /\ UNCHANGED <<diskVars, repository, text, normal, debounce, before, window, busy>>

Cancel ==
    /\ Pending
    /\ search' = PausedSearch /\ debounce' = FALSE
    /\ Resume(busy)
    /\ UNCHANGED <<diskVars, repository, text, normal, before, window, busy>>

-----------------------------------------------------------------------------
(* The other reads *)

SelectCommit(i) ==
    /\ repository # "none" /\ i \in DOMAIN window.rows
    /\ search' = PausedSearch /\ debounce' = FALSE
    /\ ThenSelect(window, i)
    /\ UNCHANGED <<diskVars, repository, text, normal, before, busy>>

\* request_history_discovery, for the latest history or a commit created here.
Discover(j) ==
    /\ repository # "none" /\ ~busy /\ ~Loading
    /\ search' = PausedSearch /\ debounce' = FALSE
    /\ Ask(j)
    /\ UNCHANGED <<diskVars, repository, text, normal, before, window, busy>>

Latest == Discover(Job("latest"))
ViewCreated == \E c \in 1 .. tip : Discover(CommitJob("created", c))

\* open, of the repository that is shown: the search is discarded, not the box.
Refresh ==
    /\ repository # "none" \/ job = NoJob
    /\ repository' = IF repository = "none" THEN "none" ELSE "read"
    /\ EndSearch
    /\ window' = NoWindow
    /\ Ask(CommitJob("open", Selected(window)))
    /\ UNCHANGED <<diskVars, text, busy>>

\* The refs change and the watcher says so: a quiet read waits for the others.
MoveRefs ==
    /\ repository # "none"
    /\ moves < MaxMoves /\ moves' = moves + 1
    /\ tip' \in Commits \ {tip}
    /\ IF job = NoJob /\ ~busy /\ ~debounce
       THEN job' = Job("quiet") /\ queued' = FALSE /\ UNCHANGED answer
       ELSE queued' = TRUE /\ UNCHANGED <<job, answer>>
    /\ UNCHANGED <<repository, searchVars, window, busy>>

\* write: reads go on beside the operation.
StartOperation ==
    /\ Operations /\ ~busy /\ repository # "none"
    /\ busy' = TRUE
    /\ UNCHANGED <<diskVars, repository, searchVars, window, readVars>>

\* An operation on the history or the working copy reads them again; one that
\* downloads large files does not.
EndOperation ==
    /\ busy /\ busy' = FALSE
    /\ \/ /\ IF job = NoJob /\ ~debounce
             THEN job' = Job("quiet") /\ queued' = FALSE /\ UNCHANGED answer
             ELSE queued' = TRUE /\ UNCHANGED <<job, answer>>
       \/ Downloads /\ UNCHANGED readVars
    /\ UNCHANGED <<diskVars, repository, searchVars, window>>

-----------------------------------------------------------------------------
(* Replies *)

Answered(kind, result) == job.kind = kind /\ answer.result = result

\* The reply of SearchHistory: the page is added and, if it holds the first
\* matches and History is on screen, the first match is selected.
ReceiveSearch ==
    /\ Answered("search", "ok")
    /\ LET found == Found(answer.tip, job.query, job.offset, answer.scanned)
           rows == window.rows \o found
       IN  /\ search' = [search EXCEPT
                            !.pinned = answer.tip, !.scanned = @ + answer.scanned,
                            !.next = job.offset + answer.scanned,
                            !.stop = answer.stop, !.paused = FALSE]
           /\ \/ /\ window.rows = <<>> /\ rows # <<>>
                 /\ ThenSelect([window EXCEPT !.rows = rows], 1)
              \/ window' = [window EXCEPT !.rows = rows] /\ Resume(busy)
    /\ UNCHANGED <<diskVars, repository, text, normal, debounce, before, busy>>

ReceiveSearchEnd ==
    /\ Answered("search", "failed") \/ Answered("search", "stopped")
    /\ search' = [search EXCEPT !.error = (answer.result = "failed"),
                                !.paused = (answer.result = "stopped")]
    /\ Resume(busy)
    /\ UNCHANGED <<diskVars, repository, text, normal, debounce, before, window, busy>>

ReceiveFiles ==
    /\ Answered("files", "ok")
    /\ window' = [window EXCEPT !.files = job.commit]
    /\ Resume(busy)
    /\ UNCHANGED <<diskVars, repository, searchVars, busy>>

\* Output::Snapshot; a query that is still in the box is searched again.
ReceiveSnapshot ==
    /\ Answered("open", "ok")
    /\ repository' = "shown"
    /\ LET rows == History(answer.tip)
           again == Position(rows, job.commit)
           w == Window(rows, IF again = 0 THEN 1 ELSE again, 0, 0)
       IN  IF text = Empty
           THEN ThenSelect(w, w.selected) /\ UNCHANGED <<search, normal, debounce, before>>
           ELSE BeginSearch(text, w)
    /\ UNCHANGED <<diskVars, text, busy>>

\* The latest history takes the place of the search and of its kept window.
ReceiveLatest ==
    /\ Answered("latest", "ok")
    /\ EndSearch /\ text' = Empty
    /\ window' = Installed(History(answer.tip), window)
    /\ Resume(busy)
    /\ UNCHANGED <<diskVars, repository, busy>>

\* A commit created here is selected in the ordinary window, as its retained
\* row when it is not listed.
ReceiveCreated ==
    /\ Answered("created", "ok")
    /\ EndSearch /\ text' = Empty
    /\ LET w == IF search.on THEN Kept ELSE window
           at == Position(w.rows, job.commit)
           rows == Append(Listed(w), job.commit)
       IN  IF at # 0 THEN ThenSelect(w, at)
           ELSE ThenSelect(Window(rows, 0, Len(rows), 0), Len(rows))
    /\ UNCHANGED <<diskVars, repository, busy>>

\* A quiet read leaves the search and the window kept aside as they are; it is
\* read again after an operation that began meanwhile.
ReceiveQuiet ==
    /\ Answered("quiet", "ok") \/ (Answered("quiet", "failed") /\ busy)
    /\ IF busy THEN /\ queued' = TRUE /\ job' = NoJob /\ answer' = NoAnswer
                    /\ UNCHANGED window
       ELSE /\ \/ ~search.on /\ window' = Installed(History(answer.tip), window)
               \/ UNCHANGED window
            /\ Resume(debounce)
    /\ UNCHANGED <<diskVars, repository, searchVars, busy>>

ReceiveFailure ==
    /\ answer.result = "failed" /\ job.kind # "search" /\ ~(busy /\ job.kind = "quiet")
    /\ Resume(busy)
    /\ UNCHANGED <<diskVars, repository, searchVars, window, busy>>

Init ==
    /\ tip \in Commits /\ moves = 0
    /\ repository = "none" /\ text = Empty
    /\ search = NoSearch /\ normal = NotKept /\ window = NoWindow /\ before = NoWindow
    /\ debounce = FALSE
    /\ job = Job("open") /\ answer = NoAnswer /\ queued = FALSE
    /\ busy = FALSE

Receive ==
    \/ ReceiveSearch \/ ReceiveSearchEnd \/ ReceiveFiles \/ ReceiveSnapshot
    \/ ReceiveLatest \/ ReceiveCreated \/ ReceiveQuiet \/ ReceiveFailure

User ==
    \/ \E q \in Queries : Type(q)
    \/ Clear \/ Restart \/ Continue \/ Cancel
    \/ \E i \in 1 .. MaxTip + 1 : SelectCommit(i)
    \/ Latest \/ ViewCreated \/ Refresh \/ StartOperation

Next == Run \/ Receive \/ Debounced \/ User \/ EndOperation \/ MoveRefs

\* The reader, the timer and the interface go on; users and operations need not.
Spec == Init /\ [][Next]_vars /\ WF_vars(Run) /\ WF_vars(Receive) /\ WF_vars(Debounced)

-----------------------------------------------------------------------------
(* Properties *)

JobKinds == {"none", "open", "files", "latest", "created", "search", "quiet"}

TypeOK ==
    /\ tip \in Commits /\ moves \in 0 .. MaxMoves
    /\ repository \in {"none", "read", "shown"}
    /\ text \in Queries \cup {Empty}
    /\ search.on <=> normal.kept
    /\ search.pinned \in {0} \cup Commits
    /\ job.kind \in JobKinds /\ (answer # NoAnswer => job # NoJob)
    /\ window.selected \in {0} \cup DOMAIN window.rows
    /\ window.retained \in {0, Len(window.rows)}
    /\ job.kind = "search" => search.on
    /\ debounce => search.on

(***************************************************************************)
(* The matches shown are those among the commits scanned, in order and     *)
(* once each, all of one pinned history, whatever pages stopped short,     *)
(* failed, were cancelled or continued while the refs moved; and only a    *)
(* whole history is called exhausted (Progress::accept, search_history).   *)
(***************************************************************************)
SearchIsExact ==
    search.on =>
        IF search.pinned = 0 THEN window.rows = <<>> /\ search.scanned = 0
        ELSE /\ window.rows = Found(search.pinned, search.query, 0, search.scanned)
             /\ search.stop = "exhausted" => search.scanned = search.pinned

(***************************************************************************)
(* The files listed beside the matches are those of the selected match,    *)
(* though its read, the ordinary window's and the search's own overtake    *)
(* one another (history_query_changed drops the read in flight).           *)
(***************************************************************************)
MatchFilesBelong == search.on /\ window.files # 0 => window.files = Selected(window)

(***************************************************************************)
(* What the box holds is what is searched, and an empty box shows ordinary *)
(* history, whichever reads discarded or restarted the search.             *)
(***************************************************************************)
BoxIsSearched ==
    repository = "shown" =>
        /\ search.on <=> text # Empty
        /\ search.on => search.query = text

(***************************************************************************)
(* A queued refresh waits for something: docs/architecture.md:114 lists    *)
(* explicit operations, foreground reads and pending searches, after which *)
(* it is read (cancel_automatic_read, try_automatic_refresh).              *)
(***************************************************************************)
QueuedWaits == queued => busy \/ Pending \/ job # NoJob

=============================================================================
