------------------------------ MODULE MCHistory ------------------------------
(***************************************************************************)
(* History read in pages, watched for updates and restored with a tab, and *)
(* history searched, each on small instances that share no state: a        *)
(* behaviour is one of a single part, and the others rest.                 *)
(***************************************************************************)
EXTENDS Naturals, CommitGraph

VARIABLES
  part,
  tips, moves, cursor, job, answer, rows, paging, selected, retained, restoring, reopens,
  atTop, busy, committed, updates, base,
  tip, changes, repository, text, search, normal, window, debounce, reading, reply,
  queued, running, before

windowVars == <<tips, moves, cursor, job, answer, rows, paging, selected, retained,
                restoring, reopens, atTop, busy, committed, updates, base>>
searchVars == <<tip, changes, repository, text, search, normal, window, debounce,
                reading, reply, queued, running, before>>
vars == <<part, windowVars, searchVars>>

\* Linear histories: longer than a page and than the window, or moved twice.
Chain3 == [c \in 1 .. 3 |-> IF c = 1 THEN {} ELSE {c - 1}]
Chain4 == [c \in 1 .. 4 |-> IF c = 1 THEN {} ELSE {c - 1}]
Histories3 == Listings(Chain3, {{1}, {2}, {3}})
Histories4 == Listings(Chain4, {{1}, {2}, {3}, {4}})

Pages == INSTANCE HistoryBrowsing WITH
  Commits <- 1 .. 4, Parents <- Chain4, Tips <- {{1}, {4}}, Histories <- Histories4,
  PageSize <- 2, MaxRows <- 3, MaxMoves <- 1, MaxReopens <- 0, Operations <- FALSE

Updates == INSTANCE HistoryBrowsing WITH
  Commits <- 1 .. 3, Parents <- Chain3, Tips <- {{1}, {2}, {3}}, Histories <- Histories3,
  PageSize <- 2, MaxRows <- 2, MaxMoves <- 2, MaxReopens <- 0, Operations <- FALSE

Restored == INSTANCE HistoryBrowsing WITH
  Commits <- 1 .. 3, Parents <- Chain3, Tips <- {{3}}, Histories <- Histories3,
  PageSize <- 1, MaxRows <- 2, MaxMoves <- 0, MaxReopens <- 1, Operations <- TRUE

\* A query whose matches fill two pages, and one with a single match.  Neither
\* matches the newest commit once the tip has moved on.
Search == INSTANCE HistorySearch WITH
  moves <- changes, job <- reading, answer <- reply, busy <- running,
  Queries <- {"some", "few"}, LongQueries <- {}, Empty <- "empty",
  Matches <- [q \in {"some", "few"} |-> IF q = "some" THEN {1, 2} ELSE {2}],
  MaxTip <- 3, PageLimit <- 1, MaxResults <- 2, MaxMoves <- 1,
  Operations <- TRUE, Downloads <- FALSE

\* Another part rests in one of its initial states.
Init ==
  /\ part \in {"pages", "updates", "restored", "search"}
  /\ \/ part = "pages" /\ tips = {4} /\ Pages!Init
     \/ part = "updates" /\ tips = {1} /\ Updates!Init
     \/ part \in {"restored", "search"} /\ Restored!Init
  /\ Search!Init /\ tip = 2

Next ==
  /\ UNCHANGED part
  /\ \/ part = "pages" /\ Pages!Next /\ UNCHANGED searchVars
     \/ part = "updates" /\ Updates!Next /\ UNCHANGED searchVars
     \/ part = "restored" /\ Restored!Next /\ UNCHANGED searchVars
     \/ part = "search" /\ Search!Next /\ UNCHANGED windowVars

Spec == Init /\ [][Next]_vars

-----------------------------------------------------------------------------
\* The rows are consecutive commits of the listing the window is labelled with,
\* whatever pages arrive (receive_history_page, finish_tab_snapshot); the next
\* page continues where they end, and one that does not fit replaces them.  An
\* announced number of new commits is the exact one, and a tip the rows do not
\* show is announced or waits to be (history_updates.rs).
WindowIsOneTraversal ==
  /\ part = "pages" => /\ Pages!TypeOK /\ Pages!WindowIsOneTraversal
                       /\ Pages!OlderContinues /\ Pages!WindowIsBounded
  /\ part = "restored" => Restored!TypeOK /\ Restored!WindowIsOneTraversal
  /\ part = "updates" => /\ Updates!TypeOK /\ Updates!NewCountIsExact
                         /\ Updates!UpdateIsAnnounced

\* A quiet read keeps the commit the reader is at, and moves rows only under a
\* reader at the top (history_updates.rs).
ReaderUndisturbed ==
  [][ /\ part = "pages" => Pages!KeepsSelection
      /\ part = "updates" => Updates!LeavesReader ]_windowVars

\* Results are the matches, of the query in the box, in the listing the first
\* page pinned; the files listed under a match are of that match; and refreshes
\* queued meanwhile wait for something that tries them (history_search.rs).
SearchIsExact ==
  part = "search" => /\ Search!TypeOK /\ Search!SearchIsExact /\ Search!MatchFilesBelong
                     /\ Search!BoxIsSearched /\ Search!QueuedWaits
=============================================================================
