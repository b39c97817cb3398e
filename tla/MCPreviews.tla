------------------------------ MODULE MCPreviews ------------------------------
(***************************************************************************)
(* The parts of the preview pane, each on small instances: the cache of    *)
(* prepared previews, the pages of a PDF comparison, and the two models of *)
(* a comparison (still, dragged while the button's release may be missed,  *)
(* and with clips of one and of two seconds).  The parts share no state:   *)
(* a behaviour is one of a single part, and the others rest.               *)
(***************************************************************************)
EXTENDS PreviewCache, PdfPages, ModelFrames

VARIABLE part

vars == <<part, previewVars, pageVars, frameVars>>

Sides == {"before", "after"}
Sizes == [k \in Keys |->
            CASE k \in {"a", "b", "e"} -> 1 [] k = "c" -> 3 [] k = "d" -> 2 [] OTHER -> 9]

\* Three pages before, two after, kept two at a time.
PageCounts == [d \in Sides |-> IF d = "before" THEN 3 ELSE 2]
PageSizes == [d \in Sides |-> IF d = "before" THEN 1 ELSE 2]

\* The same comparison, turned once.
Visits == INSTANCE PdfPages WITH MaxGeneration <- 1

\* One side has a clip that moves.
ClipsOf == [d \in Sides |-> IF d = "before" THEN {0, 2} ELSE {0}]
NoClips == [d \in Sides |-> {0}]

Still == INSTANCE ModelFrames WITH Clips <- NoClips, Draggable <- {}, LosesButton <- FALSE

\* The same, dragged and changed less.
Changed == INSTANCE ModelFrames WITH Clips <- NoClips, LosesButton <- FALSE, MaxChanges <- 2

Dragged == INSTANCE ModelFrames WITH Clips <- NoClips, Views <- {1}, MaxChanges <- 1

Moving == INSTANCE ModelFrames WITH
  Views <- {1}, Draggable <- {}, LosesButton <- FALSE, MaxChanges <- 2

\* What each module assumes of its constants.
ASSUME InstancesAreSound ==
  /\ KeysAssumption /\ CacheLimits
  /\ DocsAssumption /\ PagesFit /\ LaneAssumption /\ Visits!LaneAssumption
  /\ ClipsAssumption /\ ViewsAssumption /\ DragAssumption
  /\ Still!ClipsAssumption /\ Still!DragAssumption
  /\ Dragged!ViewsAssumption /\ Dragged!DragAssumption

\* Another part rests in one of its initial states.
Init ==
  /\ part \in {"cache", "pages", "visits", "still", "changed", "dragged", "moving"}
  /\ CacheInit /\ PagesInit /\ FramesInit
  /\ part \notin {"pages", "visits"} => cache = [d \in Sides |-> <<>>]

Next ==
  /\ UNCHANGED part
  /\ \/ part = "cache" /\ CacheNext /\ UNCHANGED <<pageVars, frameVars>>
     \/ part = "pages" /\ PagesNext /\ UNCHANGED <<previewVars, frameVars>>
     \/ part = "visits" /\ Visits!PagesNext /\ UNCHANGED <<previewVars, frameVars>>
     \/ part = "still" /\ Still!FramesNext /\ UNCHANGED <<previewVars, pageVars>>
     \/ part = "changed" /\ Changed!FramesNext /\ UNCHANGED <<previewVars, pageVars>>
     \/ part = "dragged" /\ Dragged!FramesNext /\ UNCHANGED <<previewVars, pageVars>>
     \/ part = "moving" /\ Moving!FramesNext /\ UNCHANGED <<previewVars, pageVars>>

\* Every change is followed by a frame; the lanes and the tasks keep running.
Fairness ==
  /\ \A d \in Sides : WF_pageVars(part = "visits" /\ Visits!Request(d))
  /\ WF_pageVars(part = "visits" /\ Visits!TakePage)
  /\ WF_pageVars(part = "visits" /\ Visits!FinishPage)
  /\ WF_pageVars(part = "visits" /\ Visits!ReceivePage)
  /\ WF_frameVars(part = "changed" /\ Changed!Paint)
  /\ WF_frameVars(part = "changed" /\ Changed!TakeJob)
  /\ WF_frameVars(part = "changed" /\ Changed!FinishJob)
  /\ WF_frameVars(part = "changed" /\ Changed!ReceiveFrames)

Spec == Init /\ [][Next]_vars /\ Fairness

-----------------------------------------------------------------------------
\* Left alone on screen, both pages are shown, or why not, and both models come
\* to what their controls say.
SidesSettle ==
  /\ part = "visits" /\ <>[][part # "visits" \/ ~Visits!PagesUser]_pageVars /\ <>[]shown
       => <>[]Visits!Settled
  /\ part = "changed" /\ <>[][part # "changed" \/ ~Changed!FramesUser]_frameVars /\ <>[]Changed!Using
       => <>[]Changed!FramesSettled
=============================================================================
