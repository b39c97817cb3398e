------------------------------ MODULE PdfPages ------------------------------
(***************************************************************************)
(* The two sides of a PDF comparison.  Each shows one page at a time, asks *)
(* the shared rendering lane for it when it is painted without it, and     *)
(* keeps a few pages.  Pages are turned, linked to the other side, paused  *)
(* and tried again while requests wait, run and answer.                    *)
(***************************************************************************)
EXTENDS Naturals, Sequences, FiniteSets, SequencesExt

CONSTANTS
    Docs,          \* the sides of the comparison
    Count,         \* Count[d], the pages of a document
    PageSize,      \* PageSize[d], what a prepared page of it keeps
    CachePages,    \* CACHE_PAGES
    CacheBytes,    \* CACHE_BYTES
    Capacity,      \* of the lane's channel
    MaxGeneration  \* bound on the generations of a document

DocsAssumption == Docs # {} /\ Count \in [Docs -> Nat \ {0}]
\* A prepared page is bounded by PDF_PREVIEW_EDGE and MAX_PDF_PAGE_TEXT_BYTES.
PagesFit ==
    /\ CacheBytes \in Nat /\ PageSize \in [Docs -> 0 .. CacheBytes]
    /\ CachePages \in Nat \ {0}
LaneAssumption == Capacity \in Nat /\ MaxGeneration \in Nat

VARIABLES
    page,          \* the selected page of each side
    generation,    \* of its selection
    preparing,     \* State::pending
    error,         \* ghost: the page whose preparation failed, while an error shows
    cache,         \* the kept pages, the least recently used first
    keptBytes,     \* Cache::bytes
    linked,
    shown,         \* is the comparison on the screen?
    queue,         \* the lane: accepted requests,
    rendering,     \* and the one that runs
    answers        \* what it answered and no task has received

navVars == <<page, generation, preparing, error>>
keptVars == <<cache, keptBytes>>
laneVars == <<queue, rendering, answers>>
pageVars == <<navVars, keptVars, linked, shown, laneVars>>

NoPage == [doc |-> "none"]
None == 100000   \* MAX_PDF_PAGES: no page has this number

Pages(d) == 0 .. Count[d] - 1

Target(d, p) == IF p < Count[d] THEN p ELSE Count[d] - 1
RequestOf(d) == [doc |-> d, generation |-> generation[d], page |-> page[d]]
Live == ToSet(queue) \cup ({rendering} \ {NoPage}) \cup {a.request : a \in answers}
Keeps(d, p) == p \in ToSet(cache[d])
Weighed(d) == Len(cache[d]) * PageSize[d]

-----------------------------------------------------------------------------
(* Turning pages *)

\* State::select of those documents that change their page.
Turn(moved, target) ==
    /\ page' = [d \in Docs |-> IF d \in moved THEN target[d] ELSE page[d]]
    /\ generation' = [d \in Docs |-> IF d \in moved THEN generation[d] + 1 ELSE generation[d]]
    /\ preparing' = [d \in Docs |-> d \notin moved /\ preparing[d]]
    /\ error' = [d \in Docs |-> IF d \in moved THEN None ELSE error[d]]

Bounded == \A d \in Docs : generation[d] < MaxGeneration

\* Document::select: of the document and, when it is linked, its partner.
SelectIn(followers, p) ==
    LET target == [x \in Docs |-> Target(x, p)]
    IN  Turn({x \in followers : target[x] # page[x]}, target)

Select(d, p) ==
    /\ shown /\ Bounded
    /\ SelectIn(IF linked[d] THEN Docs ELSE {d}, p)
    /\ UNCHANGED <<keptVars, linked, shown, laneVars>>

\* Linking brings the partner to this side's page.
Link(d) ==
    /\ shown /\ Bounded
    /\ linked' = [x \in Docs |-> ~linked[d]]
    /\ IF linked[d] THEN UNCHANGED navVars ELSE SelectIn(Docs, page[d])
    /\ UNCHANGED <<keptVars, shown, laneVars>>

Retry(d) ==
    /\ shown /\ error[d] # None /\ Bounded
    /\ error' = [error EXCEPT ![d] = None]
    /\ preparing' = [preparing EXCEPT ![d] = FALSE]
    /\ generation' = [generation EXCEPT ![d] = @ + 1]
    /\ UNCHANGED <<page, keptVars, linked, shown, laneVars>>

\* Mutant: a comparison that is hidden goes on with its visit.
HideInPlace ==
    /\ shown /\ Bounded
    /\ shown' = FALSE
    /\ preparing' = [d \in Docs |-> FALSE]
    /\ UNCHANGED <<page, generation, error, keptVars, linked, laneVars>>

\* pause: another page, file or tab covers the comparison.
Hide ==
    /\ shown /\ Bounded
    /\ shown' = FALSE
    /\ generation' = [d \in Docs |-> generation[d] + 1]
    /\ preparing' = [d \in Docs |-> FALSE]
    /\ UNCHANGED <<page, error, keptVars, linked, laneVars>>

Show ==
    /\ ~shown
    /\ shown' = TRUE
    /\ UNCHANGED <<navVars, keptVars, linked, laneVars>>

-----------------------------------------------------------------------------
(* Painting asks for the page *)

\* Cache::get promotes the page.
Promote(d) ==
    /\ shown /\ Keeps(d, page[d])
    /\ cache' = [cache EXCEPT ![d] = Append(RemoveFirst(@, page[d]), page[d])]
    /\ UNCHANGED <<navVars, keptBytes, linked, shown, laneVars>>

MayRequest(d) == shown /\ ~preparing[d] /\ error[d] = None /\ ~Keeps(d, page[d])

\* Document::request.  A channel that is full answers at once.
Request(d) ==
    /\ MayRequest(d)
    /\ preparing' = [preparing EXCEPT ![d] = TRUE]
    /\ IF Len(queue) < Capacity
       THEN queue' = Append(queue, RequestOf(d)) /\ UNCHANGED answers
       ELSE /\ answers' = answers \cup {[request |-> RequestOf(d), ok |-> FALSE]}
            /\ UNCHANGED queue
    /\ UNCHANGED <<page, generation, error, keptVars, linked, shown, rendering>>

-----------------------------------------------------------------------------
(* The lane and its answers *)

\* State::accepts.
Accepts(r) == generation[r.doc] = r.generation /\ page[r.doc] = r.page /\ preparing[r.doc]

TakePage ==
    /\ rendering = NoPage /\ queue # <<>>
    /\ rendering' = Head(queue) /\ queue' = Tail(queue)
    /\ UNCHANGED <<navVars, keptVars, linked, shown, answers>>

\* The decoder succeeds only while its request is still wanted.
FinishPage ==
    /\ rendering # NoPage
    /\ \E ok \in BOOLEAN :
        /\ ok => Accepts(rendering)
        /\ answers' = answers \cup {[request |-> rendering, ok |-> ok]}
    /\ rendering' = NoPage
    /\ UNCHANGED <<navVars, keptVars, linked, shown, queue>>

\* What stays when a page is kept: the newest that leave room for it.
Kept(d) ==
    LET room == {n \in 0 .. Len(cache[d]) :
                    /\ Len(cache[d]) - n < CachePages
                    /\ keptBytes[d] - n * PageSize[d] + PageSize[d] <= CacheBytes}
    IN  SubSeq(cache[d], (CHOOSE n \in room : \A m \in room : n <= m) + 1, Len(cache[d]))

\* Cache::insert of a page that is not kept.
Keep(d, p) ==
    /\ cache' = [cache EXCEPT ![d] = Append(Kept(d), p)]
    /\ keptBytes' = [keptBytes EXCEPT ![d] =
            @ - (Len(cache[d]) - Len(Kept(d))) * PageSize[d] + PageSize[d]]

\* Mutant: a page that failed is asked for again.
ReceivePageAgain ==
    \E a \in answers :
        /\ answers' = answers \ {a}
        /\ LET d == a.request.doc IN
           IF ~Accepts(a.request) THEN UNCHANGED <<navVars, keptVars>>
           ELSE /\ preparing' = [preparing EXCEPT ![d] = FALSE]
                /\ IF a.ok THEN Keep(d, a.request.page) ELSE UNCHANGED keptVars
                /\ UNCHANGED <<page, generation, error>>
        /\ UNCHANGED <<linked, shown, queue, rendering>>

ReceivePage ==
    \E a \in answers :
        /\ answers' = answers \ {a}
        /\ LET d == a.request.doc IN
           IF ~Accepts(a.request) THEN UNCHANGED <<navVars, keptVars>>
           ELSE /\ preparing' = [preparing EXCEPT ![d] = FALSE]
                /\ IF a.ok THEN Keep(d, a.request.page) /\ UNCHANGED error
                   ELSE error' = [error EXCEPT ![d] = a.request.page] /\ UNCHANGED keptVars
                /\ UNCHANGED <<page, generation>>
        /\ UNCHANGED <<linked, shown, queue, rendering>>

-----------------------------------------------------------------------------

\* Document::new keeps the first page when it was decoded with the file.
PagesInit ==
    /\ page = [d \in Docs |-> 0]
    /\ generation = [d \in Docs |-> 0]
    /\ preparing = [d \in Docs |-> FALSE]
    /\ error = [d \in Docs |-> None]
    /\ \E first \in [Docs -> BOOLEAN] :
        /\ cache = [d \in Docs |-> IF first[d] THEN <<0>> ELSE <<>>]
        /\ keptBytes = [d \in Docs |-> IF first[d] THEN PageSize[d] ELSE 0]
    /\ linked = [d \in Docs |-> FALSE]
    /\ shown = TRUE
    /\ queue = <<>> /\ rendering = NoPage /\ answers = {}

PagesUser ==
    \/ \E d \in Docs : Link(d) \/ Retry(d) \/ \E p \in Pages(d) : Select(d, p)
    \/ Hide \/ Show

PagesNext ==
    \/ PagesUser
    \/ \E d \in Docs : Promote(d) \/ Request(d)
    \/ TakePage \/ FinishPage \/ ReceivePage

PagesSpec == PagesInit /\ [][PagesNext]_pageVars

-----------------------------------------------------------------------------
(* Properties *)

PagesTypeOK ==
    /\ \A d \in Docs :
        /\ page[d] \in Pages(d) /\ error[d] \in Pages(d) \cup {None}
        /\ generation[d] \in 0 .. MaxGeneration
        /\ IsInjective(cache[d]) /\ ToSet(cache[d]) \subseteq Pages(d)
    /\ preparing \in [Docs -> BOOLEAN] /\ linked \in [Docs -> BOOLEAN] /\ shown \in BOOLEAN
    /\ Len(queue) <= Capacity

(***************************************************************************)
(* "Preparing selected page…" means that exactly this visit of the page is *)
(* asked for, and a visit that is not prepared is asked for by nobody: the *)
(* answers of earlier visits, even of the same page, neither end it nor    *)
(* are counted for it (Document::request and State::accepts).              *)
(***************************************************************************)
PendingIsRequested == \A d \in Docs : preparing[d] <=> RequestOf(d) \in Live

(***************************************************************************)
(* A visit is prepared at most once at a time: two sides that are painted  *)
(* sixty times a second cannot fill the lane with one page.                *)
(***************************************************************************)
RequestedOnce ==
    /\ IsInjective(queue)
    /\ rendering \notin ToSet(queue)
    /\ \A a \in answers : a.request \notin ToSet(queue) \cup {rendering}
    /\ \A a, b \in answers : a.request = b.request => a = b

(***************************************************************************)
(* The error that is shown is the error of the page that is shown.         *)
(***************************************************************************)
ErrorIsOfPage == \A d \in Docs : error[d] # None => error[d] = page[d]

(***************************************************************************)
(* A side keeps at most four pages and its share of bytes, and counts what *)
(* it keeps (docs/document-previews.md:31).                                *)
(***************************************************************************)
CacheIsBounded ==
    \A d \in Docs :
        Len(cache[d]) <= CachePages /\ keptBytes[d] <= CacheBytes /\ keptBytes[d] = Weighed(d)

(***************************************************************************)
(* Linked sides show the same page, each stopping at its last one          *)
(* (docs/document-previews.md:29), however they came to be linked.         *)
(***************************************************************************)
LinkedAgree ==
    (\A d \in Docs : linked[d]) =>
        \E w \in UNION {Pages(d) : d \in Docs} : \A d \in Docs : page[d] = Target(d, w)

(***************************************************************************)
(* A page that is waited for has one request in the lane, an error on      *)
(* screen is of the page on screen, linked sides show one page, and what   *)
(* is kept is bounded, in every order of turning, linking, hiding and      *)
(* trying again, and of the answers (PdfView::request).                    *)
(***************************************************************************)
PagesAreRequested ==
    /\ PagesTypeOK /\ PendingIsRequested /\ RequestedOnce
    /\ ErrorIsOfPage /\ CacheIsBounded /\ LinkedAgree

(***************************************************************************)
(* Left alone on the screen, both sides come to show their page or why it  *)
(* cannot be shown, whatever was asked for before and is still queued.     *)
(***************************************************************************)
Settled == \A d \in Docs : Keeps(d, page[d]) \/ error[d] # None

=============================================================================
