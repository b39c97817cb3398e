------------------------------ MODULE MCWindow ------------------------------
(***************************************************************************)
(* What one window keeps beside the repository: the project list and its   *)
(* pane, the theme editor, the desktop's theme, and the slot of explicit   *)
(* operations.  The parts share no state: a behaviour is one of a single   *)
(* part, and the others rest.                                              *)
(***************************************************************************)
EXTENDS OperationSlot, DesktopTheme, ThemeEditor, ProjectPane

CONSTANTS pr1, pr2, pr3   \* projects

VARIABLES
  part,
  library

vars == <<part, library, paneVars, themeVars, followerVars, slotVars>>

\* Three groups, of which two may be nested, and room for one project.
Nested == INSTANCE ProjectEdits WITH
  Projects <- {pr1, pr2}, MaxGroups <- 3, MaxProjects <- 1, MaxDepth <- 2, MaxId <- 3,
  Foldable <- {1}

\* Two groups, three projects and room for two.
Library == INSTANCE ProjectEdits WITH
  Projects <- {pr1, pr2, pr3}, MaxGroups <- 2, MaxProjects <- 2, MaxDepth <- 2, MaxId <- 2,
  Foldable <- {1}

\* A list with a group and a project, and room for one more of each.
SavedList == <<[item |-> 1, into |-> 0, collapsed |-> FALSE],
               [item |-> pr1, into |-> 0, collapsed |-> FALSE]>>

\* The pane with fewer edits.
Settling == INSTANCE ProjectPane WITH UserSaves <- 2, Edits <- {"forget", "fold"}

\* Themes saved and deleted while one is chosen, and saved by a program that
\* stops; and worn while the desktop and the choice change.
Theme == INSTANCE ThemeEditor WITH
  DesktopPalettes <- {"o1"}, MaxSaves <- 2, MaxSwitches <- 1

Stopped == INSTANCE ThemeEditor WITH
  DesktopPalettes <- {"o1"}, MaxSaves <- 2, MaxSwitches <- 0, MaxCrashes <- 1

Worn == INSTANCE ThemeEditor WITH MaxSaves <- 1

\* The desktop's theme changed once.
Answering == INSTANCE DesktopTheme WITH MaxWrites <- 1, MaxUser <- 1

\* Without the comparison of branches, which may leave the slot taken.
Freeing == INSTANCE OperationSlot WITH MaxDrafts <- 1, Kinds <- Kinds \ {"comparing"}

\* What each module assumes of its constants.
ASSUME InstancesAreSound ==
  /\ Nested!LibraryAssumption
  /\ Library!LibraryAssumption
  /\ LibraryAssumption /\ PaneAssumption
  /\ Settling!LibraryAssumption /\ Settling!PaneAssumption
  /\ Theme!ThemeAssumption
  /\ ThemeAssumption /\ Worn!ThemeAssumption
  /\ Stopped!ThemeAssumption
  /\ OperationSlotAssumption
  /\ Freeing!OperationSlotAssumption

Init ==
  /\ part \in {"nested", "library", "pane", "settling", "theme", "worn", "stopped", "desktop",
              "answering", "slot", "freeing"}
  /\ Library!Init /\ PaneInit /\ ThemeInit /\ FollowerInit /\ SlotInit
  /\ part # "worn" => desktop = "o1" /\ (part = "theme" \/ ~light)
  /\ part \notin {"desktop", "answering"} => ~following /\ theme = "a"
  /\ path = "t1"    \* the tabs are alike

Next ==
  /\ UNCHANGED part
  /\ \/ /\ part = "nested" /\ Nested!Next
        /\ UNCHANGED <<paneVars, themeVars, followerVars, slotVars>>
     \/ /\ part = "library" /\ Library!Next
        /\ UNCHANGED <<paneVars, themeVars, followerVars, slotVars>>
     \/ /\ part = "pane" /\ PaneNext
        /\ UNCHANGED <<library, themeVars, followerVars, slotVars>>
     \/ /\ part = "settling" /\ Settling!PaneNext
        /\ UNCHANGED <<library, themeVars, followerVars, slotVars>>
     \/ /\ part = "theme" /\ Theme!ThemeNext
        /\ UNCHANGED <<library, paneVars, followerVars, slotVars>>
     \/ /\ part = "worn" /\ Worn!ThemeNext
        /\ UNCHANGED <<library, paneVars, followerVars, slotVars>>
     \/ /\ part = "stopped" /\ Stopped!ThemeNext
        /\ UNCHANGED <<library, paneVars, followerVars, slotVars>>
     \/ /\ part = "desktop" /\ FollowerNext
        /\ UNCHANGED <<library, paneVars, themeVars, slotVars>>
     \/ /\ part = "answering" /\ Answering!FollowerNext
        /\ UNCHANGED <<library, paneVars, themeVars, slotVars>>
     \/ /\ part = "slot" /\ SlotNext
        /\ UNCHANGED <<library, paneVars, themeVars, followerVars>>
     \/ /\ part = "freeing" /\ Freeing!SlotNext
        /\ UNCHANGED <<library, paneVars, themeVars, followerVars>>

\* The writer's thread runs what is queued, the reread loop and the watchers
\* go on, Git ends within its time limits, and replies are handled.
Fairness ==
  /\ WF_paneVars(part = "settling" /\ Settling!WriteList)
  /\ WF_paneVars(part = "settling" /\ Settling!Handled)
  /\ WF_followerVars(part = "answering" /\ Answering!Loop)
  /\ WF_followerVars(part = "answering" /\ Answering!Watcher)
  /\ WF_slotVars(part = "freeing" /\ Freeing!Replies)

Spec == Init /\ [][Next]_vars /\ Fairness

-----------------------------------------------------------------------------
\* What the menus of the project list offer is what the edits accept, in depths
\* counted differently, and leaves a list that load accepts (project_library.rs,
\* validate).
MenusAgree ==
  /\ part = "nested" => Nested!StaysValid /\ Nested!MenuAgrees
  /\ part = "library" => Library!StaysValid

\* Replies do not keep saving for each other, every choice of the desktop's theme
\* is answered, and every operation frees the slot in the end.
RepliesSettle ==
  /\ part = "settling" /\ <>[][part # "settling" \/ ~Settling!ByUser]_paneVars
       => <>[]Settling!Quiet
  /\ part = "answering" => Answering!ChoicesAnswered
  /\ part = "freeing" => Freeing!SlotIsFreed
=============================================================================
