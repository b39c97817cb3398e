--------------------------- MODULE MCWatchDelivery ---------------------------
(***************************************************************************)
(* A change on disk on its way to the screen: from the callback of the     *)
(* watcher to the window, and from the window's event task to the quiet    *)
(* read, of one aspect and beside a stack of two inspections that try the  *)
(* queue again in the next frame.  A behaviour is one of a single part.    *)
(***************************************************************************)
EXTENDS WatchDelivery

VARIABLES
    part,
    view, panes, busy, status, fg, loading, auto, newest, pending, frame, watch, setup,
    events, stale, failed, idle

readingVars == <<view, panes, busy, frame, status, fg, loading, auto, newest, pending, watch,
                 setup, events, stale, failed, idle>>
partVars == <<part, vars, readingVars>>

Reading == INSTANCE AutomaticRefresh WITH
    Aspects <- {"worktree"}, Panes <- {"fileHistory"}, MaxPanes <- 2

\* What the module assumes of its constants.
ASSUME InstanceIsSound == Reading!AspectsAssumption /\ Reading!PanesAssumption

PartInit ==
    /\ part \in {"delivery", "reading"}
    /\ Init
    /\ Reading!Init
    /\ part = "delivery" => stale = {}

PartNext ==
    /\ UNCHANGED part
    /\ \/ part = "delivery" /\ Next /\ UNCHANGED readingVars
       \/ part = "reading" /\ Reading!Next /\ UNCHANGED vars

\* Threads that have something to do take their steps.
DeliveryFairness ==
    /\ \A k \in Kinds : WF_vars(part = "delivery" /\ CallbackSend(k))
    /\ WF_vars(part = "delivery" /\ Callback) /\ WF_vars(part = "delivery" /\ Tick)
    /\ WF_vars(part = "delivery" /\ Actor) /\ WF_vars(part = "delivery" /\ EventTask)

\* The runtime runs every handler that is due; reads end, and the user interface
\* polls each of its tasks.
ReadingFairness ==
    /\ WF_readingVars(part = "reading" /\ Reading!NextFrame)
    /\ WF_readingVars(part = "reading" /\ Reading!Deliver /\ "worktree" \notin events')
    /\ WF_readingVars(part = "reading" /\ Reading!Foreground)
    /\ WF_readingVars(part = "reading" /\ Reading!StatusReply)
    /\ WF_readingVars(part = "reading" /\ Reading!Quiet)
    /\ WF_readingVars(part = "reading" /\ Reading!AnswerStatus)
    /\ WF_readingVars(part = "reading" /\ Reading!AnswerForeground)
    /\ WF_readingVars(part = "reading" /\ Reading!AnswerQuiet)

PartSpec == PartInit /\ [][PartNext]_partVars /\ DeliveryFairness /\ ReadingFairness

-----------------------------------------------------------------------------
\* A change seen by the watcher is read once the user has gone
\* (try_automatic_refresh after each read).
EventsAreRead == part = "reading" => Reading!EventsAreRead
=============================================================================
