----------------------- MODULE AutomaticRefreshProofs -----------------------
(***************************************************************************)
(* The proofs of AutomaticRefresh: no change is forgotten, the screen never *)
(* goes back, and every read that waits is the newest request of the read   *)
(* worker, for any set of aspects, panes and depth of the stack of panes.   *)
(***************************************************************************)
EXTENDS AutomaticRefresh, TLAPS

-----------------------------------------------------------------------------
(* The inductive invariant *)

\* A read is in flight exactly while it is announced, and is never refused.
AnnouncedReads ==
    /\ loading <=> fg.read # "none"
    /\ fg.read # "dropped"

\* A quiet read runs only while no explicit read does.
QuietIsAlone == loading \/ status.read # "none" => auto.read = "none"

UnansweredMissNothing ==
    /\ status.read \in {"none", "waiting"} => status.missed = {}
    /\ fg.read \in {"none", "waiting"} => fg.missed = {}
    /\ auto.read \in {"none", "waiting"} => auto.missed = {}

\* What an answer missed is already stale on screen: applying the answer makes
\* nothing stale.
MissedIsStale ==
    /\ status.missed \subseteq stale \cap {"worktree"}
    /\ fg.missed \subseteq stale \cap {"history"}
    /\ auto.missed \subseteq stale

\* What an answer missed is still to be delivered or queued: the change itself
\* does not count as read when the answer is applied.
MissedIsDue ==
    watch => status.missed \cup fg.missed \cup auto.missed \subseteq events \cup pending

RefreshInv ==
    /\ TypeOK
    /\ ReadsAreNewest
    /\ AnnouncedReads
    /\ QuietIsAlone
    /\ UnansweredMissNothing
    /\ MissedIsStale
    /\ MissedIsDue
    /\ NothingForgotten

-----------------------------------------------------------------------------
(* Initially *)

LEMMA InitInv == ASSUME AspectsAssumption, PanesAssumption PROVE Init => RefreshInv
<1> SUFFICES ASSUME Init PROVE RefreshInv
  OBVIOUS
<1> USE DEF Init, NoQuiet, NoStatus, NoForeground
<1>1. auto = [read |-> "waiting", change |-> Aspects, missed |-> {}, late |-> FALSE]
  OBVIOUS
<1>2. TypeOK
  <2>1. panes \in Seq(Panes) /\ Len(panes) <= MaxPanes
    BY DEF PanesAssumption
  <2>2. /\ status \in [read : ReadStates, missed : SUBSET Aspects]
        /\ fg \in [read : ReadStates, kind : {"open", "changes", "preview"}, missed : SUBSET Aspects]
        /\ auto \in [read : ReadStates, change : SUBSET Aspects, missed : SUBSET Aspects,
                     late : BOOLEAN]
    BY <1>1 DEF ReadStates
  <2>3. ~(auto.read = "none") /\ ~(auto.change = {})
    BY <1>1 DEF AspectsAssumption
  <2> QED
    BY <2>1, <2>2, <2>3 DEF TypeOK
<1>3. /\ ReadsAreNewest /\ AnnouncedReads /\ QuietIsAlone /\ UnansweredMissNothing
      /\ MissedIsStale /\ MissedIsDue /\ NothingForgotten
  BY <1>1 DEF ReadsAreNewest, AnnouncedReads, QuietIsAlone, UnansweredMissNothing,
              MissedIsStale, MissedIsDue, NothingForgotten
<1> QED
  BY <1>2, <1>3 DEF RefreshInv

-----------------------------------------------------------------------------
(* The steps *)

QuietReads == [read : ReadStates, change : SUBSET Aspects, missed : SUBSET Aspects, late : BOOLEAN]
ForegroundReads ==
    [read : ReadStates, kind : {"open", "changes", "preview"}, missed : SUBSET Aspects]
StatusReads == [read : ReadStates, missed : SUBSET Aspects]
Requests == {"none", "fg", "auto", "pane"}

\* What a handler leaves of the rest of the state.
Placed ==
    /\ view' \in {"repository", "elsewhere"} /\ busy' \in {"no", "here", "elsewhere"}
    /\ panes' \in Seq(Panes) /\ Len(panes') <= MaxPanes
    /\ frame' \in BOOLEAN /\ watch' \in BOOLEAN /\ setup' \in BOOLEAN /\ idle' \in BOOLEAN

\* The invariant of the state a handler leaves, if its queue is p, its quiet
\* read a and the newest request n.
Typed(p, a, n) ==
    /\ status' \in StatusReads /\ fg' \in ForegroundReads
    /\ stale' \subseteq Aspects /\ failed' \subseteq Aspects /\ events' \subseteq Aspects
    /\ loading' \in BOOLEAN
    /\ p \subseteq Aspects /\ a \in QuietReads /\ n \in Requests
    /\ a.read = "none" <=> a.change = {}

Ordered(a, n) ==
    /\ fg'.read = "waiting" => n = "fg"
    /\ a.read = "waiting" => n = "auto"
    /\ loading' <=> fg'.read # "none"
    /\ fg'.read # "dropped"
    /\ loading' \/ status'.read # "none" => a.read = "none"
    /\ status'.read \in {"none", "waiting"} => status'.missed = {}
    /\ fg'.read \in {"none", "waiting"} => fg'.missed = {}
    /\ a.read \in {"none", "waiting"} => a.missed = {}

Kept(p, a) ==
    /\ status'.missed \subseteq stale' \cap {"worktree"}
    /\ fg'.missed \subseteq stale' \cap {"history"}
    /\ a.missed \subseteq stale'
    /\ watch' => status'.missed \cup fg'.missed \cup a.missed \subseteq events' \cup p
    /\ watch' => stale' \subseteq events' \cup p \cup a.change \cup failed'

LEMMA Collected ==
    ASSUME Placed, Typed(pending', auto', newest'), Ordered(auto', newest'), Kept(pending', auto')
    PROVE  RefreshInv'
  BY DEF Placed, Typed, Ordered, Kept, RefreshInv, TypeOK, ReadsAreNewest, AnnouncedReads, QuietIsAlone,
         UnansweredMissNothing, MissedIsStale, MissedIsDue, NothingForgotten, QuietReads,
         ForegroundReads, StatusReads, Requests

LEMMA TryKeeps ==
    ASSUME NEW p, NEW a, NEW n, Placed, Typed(p, a, n), Ordered(a, n), Kept(p, a), Try(p, a, n)
    PROVE  RefreshInv'
<1>1. CASE auto' = a /\ pending' = p /\ newest' = n
  <2>1. Typed(pending', auto', newest') /\ Ordered(auto', newest') /\ Kept(pending', auto')
    BY <1>1
  <2> QED
    BY <2>1, Collected
<1>2. CASE /\ p # {} /\ ~Blocked' /\ a.read = "none"
           /\ auto' = [NoQuiet EXCEPT !.read = "waiting", !.change = p]
           /\ pending' = {} /\ newest' = "auto"
  <2>1. auto' = [read |-> "waiting", change |-> p, missed |-> {}, late |-> FALSE]
    BY <1>2 DEF NoQuiet
  <2>2. ~loading' /\ status'.read = "none"
    BY <1>2 DEF Blocked
  <2>3. a.change = {} /\ a.missed = {}
    BY <1>2 DEF Typed, Ordered
  <2>4. Typed(pending', auto', newest')
    <3>1. auto' \in QuietReads
      BY <2>1 DEF Typed, QuietReads, ReadStates
    <3>2. auto'.read # "none" /\ auto'.change # {}
      BY <1>2, <2>1
    <3> QED
      BY <1>2, <3>1, <3>2 DEF Typed, Requests
  <2>5. Ordered(auto', newest')
    <3>1. fg'.read = "none" /\ fg'.missed = {} /\ status'.missed = {}
      BY <2>2 DEF Ordered
    <3>2. auto'.read = "waiting" /\ auto'.missed = {}
      BY <2>1
    <3> QED
      BY <1>2, <2>2, <3>1, <3>2 DEF Ordered
  <2>6. Kept(pending', auto')
    <3>1. status'.missed = {} /\ fg'.missed = {} /\ auto'.missed = {}
      BY <2>1, <2>2 DEF Ordered
    <3> QED
      BY <1>2, <2>1, <2>3, <3>1 DEF Kept
  <2> QED
    BY <2>4, <2>5, <2>6, Collected
<1> QED
  BY <1>1, <1>2 DEF Try

\* The stacks of panes the handlers leave.
LEMMA Stacks ==
    ASSUME PanesAssumption, TypeOK
    PROVE  /\ <<>> \in Seq(Panes) /\ Len(<<>>) <= MaxPanes
           /\ \A p \in Panes : <<p>> \in Seq(Panes) /\ Len(<<p>>) <= MaxPanes
           /\ \A p \in Panes : Len(panes) < MaxPanes =>
                 /\ Append(panes, p) \in Seq(Panes)
                 /\ Len(Append(panes, p)) <= MaxPanes
           /\ panes # <<>> =>
                 /\ SubSeq(panes, 1, Len(panes) - 1) \in Seq(Panes)
                 /\ Len(SubSeq(panes, 1, Len(panes) - 1)) <= MaxPanes
<1>1. panes \in Seq(Panes) /\ Len(panes) <= MaxPanes /\ MaxPanes \in Nat \ {0}
  BY DEF TypeOK, PanesAssumption
<1>2. ASSUME panes # <<>>
      PROVE  /\ SubSeq(panes, 1, Len(panes) - 1) \in Seq(Panes)
             /\ Len(SubSeq(panes, 1, Len(panes) - 1)) <= MaxPanes
  BY <1>1, <1>2
<1> QED
  BY <1>1, <1>2

\* A handler that leaves the reads and the queue alone.
LEMMA RestKeeps ==
    ASSUME RefreshInv, Placed, UNCHANGED <<readVars, diskVars, watch, events>>
    PROVE  RefreshInv'
<1> USE DEF RefreshInv, NoQuiet, NoStatus, NoForeground, uiVars, readVars, watchVars, diskVars
<1>1. Typed(pending', auto', newest')
  BY DEF vars, Typed, QuietReads, ReadStates, StatusReads, ForegroundReads, Requests,
     TypeOK
<1>2. Ordered(auto', newest')
  BY DEF vars, Ordered, ReadsAreNewest, AnnouncedReads, QuietIsAlone,
     UnansweredMissNothing, TypeOK
<1>3. Kept(pending', auto')
  BY DEF vars, Kept, QuietIsAlone, MissedIsStale, MissedIsDue, NothingForgotten,
     UnansweredMissNothing, TypeOK
<1> QED
  BY <1>1, <1>2, <1>3, Collected

\* A handler that only tries to start a quiet read.
LEMMA TryAgainKeeps ==
    ASSUME RefreshInv, Placed, UNCHANGED <<status, fg, loading, diskVars, watch, events>>,
           Try(pending, auto, newest)
    PROVE  RefreshInv'
<1> USE DEF RefreshInv, NoQuiet, NoStatus, NoForeground, uiVars, readVars, watchVars, diskVars
<1>1. Typed(pending, auto, newest)
  BY DEF vars, Typed, QuietReads, ReadStates, StatusReads, ForegroundReads, Requests,
     TypeOK
<1>2. Ordered(auto, newest)
  BY DEF vars, Ordered, ReadsAreNewest, AnnouncedReads, QuietIsAlone,
     UnansweredMissNothing, TypeOK
<1>3. Kept(pending, auto)
  BY DEF vars, Kept, QuietIsAlone, MissedIsStale, MissedIsDue, NothingForgotten,
     UnansweredMissNothing, TypeOK
<1> QED
  BY <1>1, <1>2, <1>3, TryKeeps DEF vars

\* A foreground read replaces the quiet one.
LEMMA RequestKeeps ==
    ASSUME RefreshInv, Placed, NEW kind \in {"open", "changes", "preview"}, Request(kind),
           UNCHANGED <<status, diskVars, watch, events>>
    PROVE  RefreshInv'
<1> USE DEF RefreshInv, NoQuiet, NoStatus, NoForeground, uiVars, readVars, watchVars, diskVars
<1>1. Typed(pending', auto', newest')
  BY DEF Request, CancelQuiet, Requeued, Typed, QuietReads, ReadStates, StatusReads,
     ForegroundReads, Requests, TypeOK
<1>2. Ordered(auto', newest')
  BY DEF Request, CancelQuiet, Requeued, Ordered, ReadsAreNewest, AnnouncedReads,
     QuietIsAlone, UnansweredMissNothing, TypeOK
<1>3. Kept(pending', auto')
  BY DEF Request, CancelQuiet, Requeued, Kept, QuietIsAlone, MissedIsStale,
     MissedIsDue, NothingForgotten, UnansweredMissNothing, TypeOK
<1> QED
  BY <1>1, <1>2, <1>3, Collected

\* Both reads are cancelled; the status read may be dropped or started.
LEMMA InvalidateKeeps ==
    ASSUME RefreshInv, Placed, InvalidateRead, UNCHANGED <<diskVars, watch, events>>,
           status' \in {status, NoStatus, [NoStatus EXCEPT !.read = "waiting"]}
    PROVE  RefreshInv'
<1> USE DEF RefreshInv, NoQuiet, NoStatus, NoForeground, uiVars, readVars, watchVars, diskVars
<1>1. Typed(pending', auto', newest')
  <2>1. status' \in StatusReads
    BY DEF StatusReads, ReadStates, TypeOK
  <2>2. stale' = stale /\ failed' = failed /\ events' = events
    OBVIOUS
  <2> QED
    BY <2>1, <2>2 DEF InvalidateRead, DropForeground, CancelQuiet, Requeued, Typed, QuietReads,
       ReadStates, ForegroundReads, Requests, TypeOK
<1>2. Ordered(auto', newest')
  BY DEF InvalidateRead, DropForeground, CancelQuiet, Requeued, Ordered,
     ReadsAreNewest, AnnouncedReads, QuietIsAlone, UnansweredMissNothing, TypeOK
<1>3. Kept(pending', auto')
  BY DEF InvalidateRead, DropForeground, CancelQuiet, Requeued, Kept, QuietIsAlone,
     MissedIsStale, MissedIsDue, NothingForgotten, UnansweredMissNothing, TypeOK
<1> QED
  BY <1>1, <1>2, <1>3, Collected

\* A read of the working copy starts.
LEMMA WorktreeKeeps ==
    ASSUME RefreshInv, Placed, RefreshWorktree, UNCHANGED <<diskVars, watch, events>>
    PROVE  RefreshInv'
<1> USE DEF RefreshInv, NoQuiet, NoStatus, NoForeground, uiVars, readVars, watchVars, diskVars
<1>1. CASE InvalidateRead
  BY <1>1, InvalidateKeeps DEF RefreshWorktree
<1>2. CASE /\ status' = [NoStatus EXCEPT !.read = "waiting"]
           /\ CancelQuiet /\ newest' = AfterCancel /\ UNCHANGED <<fg, loading>>
  <2>1. Typed(pending', auto', newest')
    BY <1>2 DEF CancelQuiet, Requeued, AfterCancel, Typed, QuietReads,
       ReadStates, StatusReads, ForegroundReads, Requests, TypeOK
  <2>2. Ordered(auto', newest')
    BY <1>2 DEF CancelQuiet, Requeued, AfterCancel, Ordered, ReadsAreNewest,
       AnnouncedReads, QuietIsAlone, UnansweredMissNothing, TypeOK
  <2>3. Kept(pending', auto')
    BY <1>2 DEF CancelQuiet, Requeued, AfterCancel, Kept, QuietIsAlone,
       MissedIsStale, MissedIsDue, NothingForgotten, UnansweredMissNothing, TypeOK
  <2> QED
    BY <2>1, <2>2, <2>3, Collected
<1> QED
  BY <1>1, <1>2 DEF RefreshWorktree

\* Every step keeps the invariant.
LEMMA StepInv ==
    ASSUME AspectsAssumption, PanesAssumption, RefreshInv, [Next]_vars PROVE RefreshInv'
<1> USE DEF RefreshInv, NoQuiet, NoStatus, NoForeground, uiVars, readVars, watchVars, diskVars
<1>1. CASE Select
  <2>1. Placed
    <3>1. CASE CloseAll
      BY <1>1, <3>1, Stacks DEF Select, CloseAll, Placed, TypeOK
    <3>2. CASE UNCHANGED <<panes, frame>>
      BY <1>1, <3>2 DEF Select, Placed, TypeOK
    <3> QED
      BY <1>1, <3>1, <3>2 DEF Select
  <2> QED
    BY <1>1, <2>1, RequestKeeps DEF Select, CloseAll
<1>2. CASE Reopen
  <2>1. Placed
    BY <1>2, Stacks DEF Reopen, CloseAll, Placed, TypeOK
  <2> QED
    BY <1>2, <2>1, RequestKeeps DEF Reopen, CloseAll
<1>3. CASE ShowWorking
  <2>1. Placed
    BY <1>3, Stacks DEF ShowWorking, RefreshWorktree, EnsureWatcher, CloseAll, Placed, TypeOK
  <2> QED
    BY <1>3, <2>1, WorktreeKeeps DEF ShowWorking, RefreshWorktree, EnsureWatcher, CloseAll
<1>4. CASE \E p \in Panes : OpenPane(p)
  <2>1. /\ fg' = NoForeground /\ auto' = NoQuiet /\ pending' = pending \cup auto.change
        /\ newest' = "pane" /\ ~loading' /\ UNCHANGED <<status, stale, failed, events>>
    BY <1>4 DEF OpenPane, DropForeground, CancelQuiet, Requeued, TopPane, TypeOK
  <2>2. Placed
    BY <1>4, Stacks DEF OpenPane, Placed, TypeOK
  <2>3. Typed(pending', auto', newest')
    BY <1>4, <2>1 DEF OpenPane, DropForeground, CancelQuiet, Requeued, TopPane, Typed,
       QuietReads, ReadStates, StatusReads, ForegroundReads, Requests, TypeOK
  <2>4. Ordered(auto', newest')
    BY <1>4, <2>1 DEF OpenPane, DropForeground, CancelQuiet, Requeued, TopPane, Ordered,
       ReadsAreNewest, AnnouncedReads, QuietIsAlone, UnansweredMissNothing, TypeOK
  <2>5. Kept(pending', auto')
    BY <1>4, <2>1 DEF OpenPane, DropForeground, CancelQuiet, Requeued, TopPane, Kept,
       QuietIsAlone, MissedIsStale, MissedIsDue, NothingForgotten, UnansweredMissNothing,
       TypeOK
  <2> QED
    BY <2>2, <2>3, <2>4, <2>5, Collected
<1>5. CASE ClosePane
  <2>1. Placed
    BY <1>5, Stacks DEF ClosePane, Placed, TypeOK
  <2> QED
    BY <1>5, <2>1, RequestKeeps, InvalidateKeeps DEF ClosePane, InvalidateOr, TopPane
<1>6. CASE BackToHistory
  <2>1. Placed
    BY <1>6 DEF BackToHistory, Placed, TypeOK
  <2>2. CASE DropForeground /\ Try(Requeued, NoQuiet, "none")
    <3>1. Typed(Requeued, NoQuiet, "none")
      BY <1>6, <2>2 DEF BackToHistory, DropForeground, Requeued, Typed, QuietReads,
         ReadStates, StatusReads, ForegroundReads, Requests, TypeOK
    <3>2. Ordered(NoQuiet, "none")
      BY <1>6, <2>2 DEF BackToHistory, DropForeground, Requeued, Ordered, ReadsAreNewest,
         AnnouncedReads, QuietIsAlone, UnansweredMissNothing, TypeOK
    <3>3. Kept(Requeued, NoQuiet)
      BY <1>6, <2>2 DEF BackToHistory, DropForeground, Requeued, Kept, QuietIsAlone,
         MissedIsStale, MissedIsDue, NothingForgotten, UnansweredMissNothing, TypeOK
    <3> QED
      BY <1>6, <2>2, <2>1, <3>1, <3>2, <3>3, TryKeeps DEF BackToHistory, DropForeground,
         Requeued
  <2> QED
    BY <1>6, <2>1, <2>2, RequestKeeps, TryAgainKeeps DEF BackToHistory
<1>7. CASE LeavePage
  <2>1. Placed
    BY <1>7 DEF LeavePage, Placed, TypeOK
  <2> QED
    BY <1>7, <2>1, RestKeeps DEF LeavePage
<1>8. CASE ReturnToPage
  <2>1. Placed
    BY <1>8 DEF ReturnToPage, Placed, TypeOK
  <2> QED
    BY <1>8, <2>1, TryAgainKeeps DEF ReturnToPage
<1>9. CASE Focus
  <2>1. Placed
    BY <1>9 DEF Focus, EnsureWatcher, Placed, TypeOK
  <2>2. Typed(Aspects, auto, newest)
    BY <1>9 DEF Focus, EnsureWatcher, Typed, QuietReads, ReadStates, StatusReads,
       ForegroundReads, Requests, TypeOK
  <2>3. Ordered(auto, newest)
    BY <1>9 DEF Focus, EnsureWatcher, Ordered, ReadsAreNewest, AnnouncedReads, QuietIsAlone,
       UnansweredMissNothing, TypeOK
  <2>4. Kept(Aspects, auto)
    BY <1>9 DEF Focus, EnsureWatcher, Kept, QuietIsAlone, MissedIsStale, MissedIsDue,
       NothingForgotten, UnansweredMissNothing, TypeOK
  <2> QED
    BY <1>9, <2>1, <2>2, <2>3, <2>4, TryKeeps DEF Focus, EnsureWatcher
<1>10. CASE StartOperation
  <2>1. Placed
    BY <1>10 DEF StartOperation, Placed, TypeOK
  <2>2. CASE /\ auto' = [auto EXCEPT !.late = (auto.read # "none")]
             /\ UNCHANGED <<pending, fg, loading, newest>>
    <3>1. Typed(pending', auto', newest')
      BY <1>10, <2>2 DEF StartOperation, Typed, QuietReads, ReadStates, StatusReads,
         ForegroundReads, Requests, TypeOK
    <3>2. Ordered(auto', newest')
      BY <1>10, <2>2 DEF StartOperation, Ordered, ReadsAreNewest, AnnouncedReads,
         QuietIsAlone, UnansweredMissNothing, TypeOK
    <3>3. Kept(pending', auto')
      BY <1>10, <2>2 DEF StartOperation, Kept, QuietIsAlone, MissedIsStale, MissedIsDue,
         NothingForgotten, UnansweredMissNothing, TypeOK
    <3> QED
      BY <2>1, <3>1, <3>2, <3>3, Collected
  <2> QED
    BY <1>10, <2>1, <2>2, InvalidateKeeps DEF StartOperation
<1>11. CASE SwitchTab
  <2>1. Placed
    <3>1. panes' \in Seq(Panes) /\ Len(panes') <= MaxPanes
      <4>1. panes' = <<>> \/ \E p \in Panes : panes' = <<p>>
        BY <1>11 DEF SwitchTab
      <4> QED
        BY <4>1, Stacks
    <3>2. busy' \in {"no", "here", "elsewhere"}
      BY <1>11 DEF SwitchTab, TypeOK
    <3> QED
      BY <1>11, <3>1, <3>2 DEF SwitchTab, EnsureWatcher, Placed, TypeOK
  <2>2. Typed(Aspects, NoQuiet, "none")
    BY <1>11 DEF SwitchTab, DropForeground, EnsureWatcher, Typed, QuietReads, ReadStates,
       StatusReads, ForegroundReads, Requests, TypeOK
  <2>3. Ordered(NoQuiet, "none")
    BY <1>11 DEF SwitchTab, DropForeground, EnsureWatcher, Ordered, ReadsAreNewest,
       AnnouncedReads, QuietIsAlone, UnansweredMissNothing, TypeOK
  <2>4. Kept(Aspects, NoQuiet)
    BY <1>11 DEF SwitchTab, DropForeground, EnsureWatcher, Kept, QuietIsAlone, MissedIsStale,
       MissedIsDue, NothingForgotten, UnansweredMissNothing, TypeOK
  <2> QED
    BY <1>11, <2>1, <2>2, <2>3, <2>4, TryKeeps DEF SwitchTab, DropForeground, EnsureWatcher
<1>12. CASE Leave
  <2>1. Placed
    BY <1>12 DEF Leave, Placed, TypeOK
  <2> QED
    BY <1>12, <2>1, RestKeeps DEF Leave
<1>13. CASE NextFrame
  <2>1. Placed
    BY <1>13 DEF NextFrame, Placed, TypeOK
  <2> QED
    BY <1>13, <2>1, TryAgainKeeps DEF NextFrame
<1>14. CASE ForegroundReply
  <2>1. Placed
    BY <1>14 DEF ForegroundReply, Placed, TypeOK
  <2>2. Typed(pending, auto, newest)
    BY <1>14 DEF ForegroundReply, Typed, QuietReads, ReadStates, StatusReads, ForegroundReads,
       Requests, TypeOK
  <2>3. Ordered(auto, newest)
    BY <1>14 DEF ForegroundReply, Ordered, ReadsAreNewest, AnnouncedReads, QuietIsAlone,
       UnansweredMissNothing, TypeOK
  <2>4. Kept(pending, auto)
    BY <1>14 DEF ForegroundReply, Kept, QuietIsAlone, MissedIsStale, MissedIsDue,
       NothingForgotten, UnansweredMissNothing, TypeOK
  <2> QED
    BY <1>14, <2>1, <2>2, <2>3, <2>4, TryKeeps DEF ForegroundReply
<1>15. CASE ForegroundContinues
  <2>1. Placed
    BY <1>15 DEF ForegroundContinues, Placed, TypeOK
  <2> QED
    BY <1>15, <2>1, RequestKeeps DEF ForegroundContinues
<1>16. CASE SnapshotReply
  <2>1. Placed
    BY <1>16 DEF SnapshotReply, EnsureWatcher, Placed, TypeOK
  <2>2. CASE InvalidateRead
    <3>1. Typed(pending', auto', newest')
      BY <1>16, <2>2 DEF SnapshotReply, InvalidateRead, DropForeground, CancelQuiet, Requeued,
         Shown, OpenCovers, Typed, QuietReads, ReadStates, StatusReads, ForegroundReads,
         Requests, TypeOK
    <3>2. Ordered(auto', newest')
      BY <1>16, <2>2 DEF SnapshotReply, InvalidateRead, DropForeground, CancelQuiet, Requeued,
         Shown, OpenCovers, Ordered, ReadsAreNewest, AnnouncedReads, QuietIsAlone,
         UnansweredMissNothing, TypeOK
    <3>3. Kept(pending', auto')
      BY <1>16, <2>2 DEF SnapshotReply, InvalidateRead, DropForeground, CancelQuiet, Requeued,
         Shown, OpenCovers, Kept, QuietIsAlone, MissedIsStale, MissedIsDue, NothingForgotten,
         UnansweredMissNothing, TypeOK
    <3> QED
      BY <2>1, <3>1, <3>2, <3>3, Collected
  <2>3. CASE Request("changes")
    <3>1. Typed(pending', auto', newest')
      BY <1>16, <2>3 DEF SnapshotReply, Request, CancelQuiet, Requeued, Shown, OpenCovers,
         Typed, QuietReads, ReadStates, StatusReads, ForegroundReads, Requests, TypeOK
    <3>2. Ordered(auto', newest')
      BY <1>16, <2>3 DEF SnapshotReply, Request, CancelQuiet, Requeued, Shown, OpenCovers,
         Ordered, ReadsAreNewest, AnnouncedReads, QuietIsAlone, UnansweredMissNothing, TypeOK
    <3>3. Kept(pending', auto')
      BY <1>16, <2>3 DEF SnapshotReply, Request, CancelQuiet, Requeued, Shown, OpenCovers,
         Kept, QuietIsAlone, MissedIsStale, MissedIsDue, NothingForgotten,
         UnansweredMissNothing, TypeOK
    <3> QED
      BY <2>1, <3>1, <3>2, <3>3, Collected
  <2> QED
    BY <1>16, <2>2, <2>3 DEF SnapshotReply, InvalidateOr
<1>17. CASE StatusReply
  <2>1. Placed
    BY <1>17 DEF StatusReply, Placed, TypeOK
  <2>2. CASE Request("preview")
    <3>1. Typed(pending', auto', newest')
      BY <1>17, <2>2 DEF StatusReply, Shown, Request, CancelQuiet, Requeued, Typed,
         QuietReads, ReadStates, StatusReads, ForegroundReads, Requests, TypeOK
    <3>2. Ordered(auto', newest')
      BY <1>17, <2>2 DEF StatusReply, Shown, Request, CancelQuiet, Requeued, Ordered,
         ReadsAreNewest, AnnouncedReads, QuietIsAlone, UnansweredMissNothing, TypeOK
    <3>3. Kept(pending', auto')
      BY <1>17, <2>2 DEF StatusReply, Shown, Request, CancelQuiet, Requeued, Kept,
         QuietIsAlone, MissedIsStale, MissedIsDue, NothingForgotten, UnansweredMissNothing,
         TypeOK
    <3> QED
      BY <2>1, <3>1, <3>2, <3>3, Collected
  <2>3. CASE DropForeground /\ Try(Requeued, NoQuiet, "none")
    <3>1. Typed(Requeued, NoQuiet, "none")
      BY <1>17, <2>3 DEF StatusReply, Shown, DropForeground, Requeued, Typed, QuietReads,
         ReadStates, StatusReads, ForegroundReads, Requests, TypeOK
    <3>2. Ordered(NoQuiet, "none")
      BY <1>17, <2>3 DEF StatusReply, Shown, DropForeground, Requeued, Ordered,
         ReadsAreNewest, AnnouncedReads, QuietIsAlone, UnansweredMissNothing, TypeOK
    <3>3. Kept(Requeued, NoQuiet)
      BY <1>17, <2>3 DEF StatusReply, Shown, DropForeground, Requeued, Kept, QuietIsAlone,
         MissedIsStale, MissedIsDue, NothingForgotten, UnansweredMissNothing, TypeOK
    <3> QED
      BY <1>17, <2>3, <2>1, <3>1, <3>2, <3>3, TryKeeps DEF StatusReply, Shown, DropForeground,
         Requeued
  <2>4. CASE UNCHANGED <<fg, loading>> /\ Try(pending, auto, newest)
    <3>1. Typed(pending, auto, newest)
      BY <1>17, <2>4 DEF StatusReply, Shown, Typed, QuietReads, ReadStates, StatusReads,
         ForegroundReads, Requests, TypeOK
    <3>2. Ordered(auto, newest)
      BY <1>17, <2>4 DEF StatusReply, Shown, Ordered, ReadsAreNewest, AnnouncedReads,
         QuietIsAlone, UnansweredMissNothing, TypeOK
    <3>3. Kept(pending, auto)
      BY <1>17, <2>4 DEF StatusReply, Shown, Kept, QuietIsAlone, MissedIsStale, MissedIsDue,
         NothingForgotten, UnansweredMissNothing, TypeOK
    <3> QED
      BY <1>17, <2>4, <2>1, <3>1, <3>2, <3>3, TryKeeps DEF StatusReply, Shown
  <2> QED
    BY <1>17, <2>2, <2>3, <2>4 DEF StatusReply
<1>18. CASE ApplyQuiet
  <2>1. Placed
    BY <1>18 DEF ApplyQuiet, QuietIsCurrent, Shown, Covers, Placed, TypeOK
  <2>2. Typed(pending, NoQuiet, newest)
    BY <1>18 DEF ApplyQuiet, QuietIsCurrent, Shown, Covers, Typed, QuietReads, ReadStates,
       StatusReads, ForegroundReads, Requests, TypeOK
  <2>3. Ordered(NoQuiet, newest)
    BY <1>18 DEF ApplyQuiet, QuietIsCurrent, Shown, Covers, Ordered, ReadsAreNewest,
       AnnouncedReads, QuietIsAlone, UnansweredMissNothing, TypeOK
  <2>4. Kept(pending, NoQuiet)
    BY <1>18 DEF ApplyQuiet, QuietIsCurrent, Shown, Covers, Kept, QuietIsAlone, MissedIsStale,
       MissedIsDue, NothingForgotten, UnansweredMissNothing, TypeOK
  <2> QED
    BY <1>18, <2>1, <2>2, <2>3, <2>4, TryKeeps DEF ApplyQuiet, QuietIsCurrent, Shown, Covers
<1>19. CASE QuietFailed
  <2>1. Placed
    BY <1>19 DEF QuietFailed, Covers, AspectsAssumption, Placed, TypeOK
  <2>2. Typed(pending, NoQuiet, newest)
    BY <1>19 DEF QuietFailed, Covers, AspectsAssumption, Typed, QuietReads, ReadStates,
       StatusReads, ForegroundReads, Requests, TypeOK
  <2>3. Ordered(NoQuiet, newest)
    BY <1>19 DEF QuietFailed, Covers, AspectsAssumption, Ordered, ReadsAreNewest,
       AnnouncedReads, QuietIsAlone, UnansweredMissNothing, TypeOK
  <2>4. Kept(pending, NoQuiet)
    BY <1>19 DEF QuietFailed, Covers, AspectsAssumption, Kept, QuietIsAlone, MissedIsStale,
       MissedIsDue, NothingForgotten, UnansweredMissNothing, TypeOK
  <2> QED
    BY <1>19, <2>1, <2>2, <2>3, <2>4, TryKeeps DEF QuietFailed, Covers, AspectsAssumption
<1>20. CASE QuietLate
  <2>1. Placed
    BY <1>20 DEF QuietLate, QuietIsLate, Requeued, Placed, TypeOK
  <2>2. Typed(Requeued, NoQuiet, newest)
    BY <1>20 DEF QuietLate, QuietIsLate, Requeued, Typed, QuietReads, ReadStates, StatusReads,
       ForegroundReads, Requests, TypeOK
  <2>3. Ordered(NoQuiet, newest)
    BY <1>20 DEF QuietLate, QuietIsLate, Requeued, Ordered, ReadsAreNewest, AnnouncedReads,
       QuietIsAlone, UnansweredMissNothing, TypeOK
  <2>4. Kept(Requeued, NoQuiet)
    BY <1>20 DEF QuietLate, QuietIsLate, Requeued, Kept, QuietIsAlone, MissedIsStale,
       MissedIsDue, NothingForgotten, UnansweredMissNothing, TypeOK
  <2> QED
    BY <1>20, <2>1, <2>2, <2>3, <2>4, TryKeeps DEF QuietLate, QuietIsLate, Requeued
<1>21. CASE FinishOperation
  <2>1. Placed
    BY <1>21 DEF FinishOperation, RefreshWorktree, EnsureWatcher, Placed, TypeOK
  <2>2. CASE UNCHANGED <<status, fg, loading, setup>> /\ Try(Aspects, auto, newest)
    <3>1. Typed(Aspects, auto, newest)
      BY <1>21, <2>2 DEF FinishOperation, Typed, QuietReads, ReadStates, StatusReads,
         ForegroundReads, Requests, TypeOK
    <3>2. Ordered(auto, newest)
      BY <1>21, <2>2 DEF FinishOperation, Ordered, ReadsAreNewest, AnnouncedReads,
         QuietIsAlone, UnansweredMissNothing, TypeOK
    <3>3. Kept(Aspects, auto)
      BY <1>21, <2>2 DEF FinishOperation, Kept, QuietIsAlone, MissedIsStale, MissedIsDue,
         NothingForgotten, UnansweredMissNothing, TypeOK
    <3> QED
      BY <1>21, <2>2, <2>1, <3>1, <3>2, <3>3, TryKeeps DEF FinishOperation
  <2> QED
    BY <1>21, <2>1, <2>2, InvalidateKeeps, RequestKeeps, RestKeeps, WorktreeKeeps
       DEF FinishOperation, InvalidateOr
<1>22. CASE FinishOperationElsewhere
  <2>1. Placed
    BY <1>22 DEF FinishOperationElsewhere, Placed, TypeOK
  <2> QED
    BY <1>22, <2>1, RestKeeps DEF FinishOperationElsewhere
<1>23. CASE Deliver
  <2>1. Placed
    BY <1>23 DEF Deliver, Placed, TypeOK
  <2>2. PICK notice \in SUBSET Aspects \ {{}} :
            /\ notice \subseteq events \/ notice = Aspects
            /\ events' = events \ notice
            /\ Try(pending \cup notice, auto, newest)
    BY <1>23 DEF Deliver
  <2>3. Typed(pending \cup notice, auto, newest)
    BY <1>23, <2>2 DEF Deliver, Typed, QuietReads, ReadStates, StatusReads, ForegroundReads,
       Requests, TypeOK
  <2>4. Ordered(auto, newest)
    BY <1>23, <2>2 DEF Deliver, Ordered, ReadsAreNewest, AnnouncedReads, QuietIsAlone,
       UnansweredMissNothing, TypeOK
  <2>5. Kept(pending \cup notice, auto)
    BY <1>23, <2>2 DEF Deliver, Kept, QuietIsAlone, MissedIsStale, MissedIsDue,
       NothingForgotten, UnansweredMissNothing, TypeOK
  <2> QED
    BY <2>1, <2>2, <2>3, <2>4, <2>5, TryKeeps
<1>24. CASE WatcherInstalled
  <2>1. Placed
    BY <1>24 DEF WatcherInstalled, Placed, TypeOK
  <2>2. Typed(Aspects, auto, newest)
    BY <1>24 DEF WatcherInstalled, Typed, QuietReads, ReadStates, StatusReads,
       ForegroundReads, Requests, TypeOK
  <2>3. Ordered(auto, newest)
    BY <1>24 DEF WatcherInstalled, Ordered, ReadsAreNewest, AnnouncedReads, QuietIsAlone,
       UnansweredMissNothing, TypeOK
  <2>4. Kept(Aspects, auto)
    BY <1>24 DEF WatcherInstalled, Kept, QuietIsAlone, MissedIsStale, MissedIsDue,
       NothingForgotten, UnansweredMissNothing, TypeOK
  <2> QED
    BY <1>24, <2>1, <2>2, <2>3, <2>4, TryKeeps DEF WatcherInstalled
<1>25. CASE WatcherKept
  <2>1. Placed
    BY <1>25 DEF WatcherKept, Placed, TypeOK
  <2> QED
    BY <1>25, <2>1, RestKeeps DEF WatcherKept
<1>26. CASE AnswerStatus
  <2>1. Placed
    BY <1>26 DEF AnswerStatus, Placed, TypeOK
  <2>2. Typed(pending', auto', newest')
    BY <1>26 DEF AnswerStatus, Typed, QuietReads, ReadStates, StatusReads, ForegroundReads,
       Requests, TypeOK
  <2>3. Ordered(auto', newest')
    BY <1>26 DEF AnswerStatus, Ordered, ReadsAreNewest, AnnouncedReads, QuietIsAlone,
       UnansweredMissNothing, TypeOK
  <2>4. Kept(pending', auto')
    BY <1>26 DEF AnswerStatus, Kept, QuietIsAlone, MissedIsStale, MissedIsDue,
       NothingForgotten, UnansweredMissNothing, TypeOK
  <2> QED
    BY <2>1, <2>2, <2>3, <2>4, Collected
<1>27. CASE AnswerForeground
  <2>1. Placed
    BY <1>27 DEF AnswerForeground, WorkerAnswers, Placed, TypeOK
  <2>2. Typed(pending', auto', newest')
    BY <1>27 DEF AnswerForeground, WorkerAnswers, Typed, QuietReads, ReadStates, StatusReads,
       ForegroundReads, Requests, TypeOK
  <2>3. Ordered(auto', newest')
    BY <1>27 DEF AnswerForeground, WorkerAnswers, Ordered, ReadsAreNewest, AnnouncedReads,
       QuietIsAlone, UnansweredMissNothing, TypeOK
  <2>4. Kept(pending', auto')
    BY <1>27 DEF AnswerForeground, WorkerAnswers, Kept, QuietIsAlone, MissedIsStale,
       MissedIsDue, NothingForgotten, UnansweredMissNothing, TypeOK
  <2> QED
    BY <2>1, <2>2, <2>3, <2>4, Collected
<1>28. CASE AnswerQuiet
  <2>1. Placed
    BY <1>28 DEF AnswerQuiet, WorkerAnswers, Placed, TypeOK
  <2>2. Typed(pending', auto', newest')
    BY <1>28 DEF AnswerQuiet, WorkerAnswers, Typed, QuietReads, ReadStates, StatusReads,
       ForegroundReads, Requests, TypeOK
  <2>3. Ordered(auto', newest')
    BY <1>28 DEF AnswerQuiet, WorkerAnswers, Ordered, ReadsAreNewest, AnnouncedReads,
       QuietIsAlone, UnansweredMissNothing, TypeOK
  <2>4. Kept(pending', auto')
    BY <1>28 DEF AnswerQuiet, WorkerAnswers, Kept, QuietIsAlone, MissedIsStale, MissedIsDue,
       NothingForgotten, UnansweredMissNothing, TypeOK
  <2> QED
    BY <2>1, <2>2, <2>3, <2>4, Collected
<1>29. CASE \E x \in Aspects : DiskChange(x)
  <2>1. Placed
    BY <1>29 DEF DiskChange, Missed, OpenCovers, Covers, Placed, TypeOK
  <2>2. Typed(pending', auto', newest')
    <3>1. PICK x \in Aspects : DiskChange(x)
      BY <1>29
    <3>2. status' \in StatusReads
      BY <3>1 DEF DiskChange, Missed, StatusReads, TypeOK
    <3>3. fg' \in ForegroundReads
      BY <3>1 DEF DiskChange, Missed, ForegroundReads, TypeOK
    <3>4. auto' \in QuietReads /\ auto'.read = auto.read /\ auto'.change = auto.change
      BY <3>1 DEF DiskChange, Missed, QuietReads, TypeOK
    <3> QED
      BY <3>1, <3>2, <3>3, <3>4 DEF DiskChange, Typed, Requests, TypeOK
  <2>3. Ordered(auto', newest')
    BY <1>29 DEF DiskChange, Missed, OpenCovers, Covers, Ordered, ReadsAreNewest,
       AnnouncedReads, QuietIsAlone, UnansweredMissNothing, TypeOK
  <2>4. Kept(pending', auto')
    BY <1>29 DEF DiskChange, Missed, OpenCovers, Covers, Kept, QuietIsAlone, MissedIsStale,
       MissedIsDue, NothingForgotten, UnansweredMissNothing, TypeOK
  <2> QED
    BY <2>1, <2>2, <2>3, <2>4, Collected
<1>30. CASE UNCHANGED vars
  <2>1. Placed
    BY <1>30 DEF vars, Placed, TypeOK
  <2> QED
    BY <1>30, <2>1, RestKeeps DEF vars
<1> QED
  BY <1>1, <1>2, <1>3, <1>4, <1>5, <1>6, <1>7, <1>8, <1>9, <1>10, <1>11, <1>12, <1>13, <1>14,
     <1>15, <1>16, <1>17, <1>18, <1>19, <1>20, <1>21, <1>22, <1>23, <1>24, <1>25, <1>26,
     <1>27, <1>28, <1>29, <1>30 DEF Next, User, Foreground, Quiet, Watcher

-----------------------------------------------------------------------------
(* The theorems *)

\* RefreshInv is an invariant of the automatic refresh.
THEOREM Invariance == ASSUME AspectsAssumption, PanesAssumption PROVE Spec => []RefreshInv
<1>1. Init => RefreshInv
  BY InitInv
<1>2. RefreshInv /\ [Next]_vars => RefreshInv'
  BY StepInv
<1> QED
  BY <1>1, <1>2, PTL DEF Spec

\* Every variable keeps its type; in particular a quiet read in flight always
\* reads something, as try_automatic_refresh takes a queue that is not empty.
THEOREM TypeCorrect == ASSUME AspectsAssumption, PanesAssumption PROVE Spec => []TypeOK
<1>1. RefreshInv => TypeOK
  BY DEF RefreshInv
<1> QED
  BY <1>1, Invariance, PTL

\* A foreground or quiet read that waits is the newest request of the read
\* worker, which no handler supersedes behind its back, and a page announced
\* as loading is being read.
THEOREM WaitingReadsAreNewest ==
    ASSUME AspectsAssumption, PanesAssumption PROVE Spec => []ReadsAreNewest
<1>1. RefreshInv => ReadsAreNewest
  BY DEF RefreshInv
<1> QED
  BY <1>1, Invariance, PTL

\* While a watcher is installed, every stale aspect has an undelivered event,
\* is queued, is being read, or its read failed and was reported.
THEOREM ChangesAreNotForgotten ==
    ASSUME AspectsAssumption, PanesAssumption PROVE Spec => []NothingForgotten
<1>1. RefreshInv => NothingForgotten
  BY DEF RefreshInv
<1> QED
  BY <1>1, Invariance, PTL

\* Only a change on disk or a switch to another tab makes an aspect stale that
\* was not: no answer, however late, takes the screen back.
THEOREM ScreenNeverGoesBack ==
    ASSUME AspectsAssumption, PanesAssumption PROVE Spec => NeverGoesBack
<1>1. RefreshInv /\ [Next]_vars => [StaysFresh]_vars
  <2> SUFFICES ASSUME RefreshInv, Next, NEW a \in stale' \ stale
               PROVE  DiskChange(a) \/ SwitchTab
    BY DEF StaysFresh
  <2> USE DEF RefreshInv, MissedIsStale
  <2>1. CASE UNCHANGED stale
    BY <2>1
  <2>2. CASE SnapshotReply
    BY <2>2 DEF SnapshotReply, Shown
  <2>3. CASE StatusReply
    BY <2>3 DEF StatusReply, Shown
  <2>4. CASE ApplyQuiet
    BY <2>4 DEF ApplyQuiet, Shown
  <2>5. CASE SwitchTab
    BY <2>5
  <2>6. CASE \E x \in Aspects : DiskChange(x)
    BY <2>6 DEF DiskChange
  <2>7. CASE User /\ ~SwitchTab
    BY <2>1, <2>7 DEF User, Select, Reopen, ShowWorking, ClosePane, OpenPane, BackToHistory,
       LeavePage, ReturnToPage, Focus, StartOperation, Leave, diskVars
  <2>8. CASE \/ NextFrame \/ ForegroundReply \/ ForegroundContinues \/ QuietFailed \/ QuietLate
            \/ FinishOperation \/ FinishOperationElsewhere \/ Deliver \/ Watcher
            \/ AnswerStatus \/ AnswerForeground \/ AnswerQuiet
    BY <2>1, <2>8 DEF NextFrame, ForegroundReply, ForegroundContinues, QuietFailed, QuietLate,
       FinishOperation, FinishOperationElsewhere, Deliver, Watcher, WatcherInstalled,
       WatcherKept, AnswerStatus, AnswerForeground, AnswerQuiet, diskVars
  <2> QED
    BY <2>2, <2>3, <2>4, <2>5, <2>6, <2>7, <2>8 DEF Next, Foreground, Quiet
<1>2. Spec => []RefreshInv
  BY Invariance
<1> QED
  BY <1>1, <1>2, PTL DEF Spec, NeverGoesBack
=============================================================================
