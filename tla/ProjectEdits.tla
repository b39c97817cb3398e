---------------------------- MODULE ProjectEdits ----------------------------
(***************************************************************************)
(* Every sequence of edits of the project list, made by the menus of the   *)
(* project pane and by opening projects, with no saving in between.  What  *)
(* the edits lead to is what Preferences::save_project_library validates,  *)
(* and a list it refuses could never be saved again.                       *)
(***************************************************************************)
EXTENDS ProjectLibrary

CONSTANT Foldable      \* bound of the checks: the groups the user collapses

VARIABLE library

Remembered == \E p \in Projects : library' = Remember(library, p)
Forgotten == \E p \in Listed(library) : library' = ForgetProject(library, p)
Created == \E g \in Groups(library) \cup {Top} :
                 CanCreate(library, g) /\ library' = CreateGroup(library, g)
Removed == \E g \in Groups(library) : library' = RemoveGroup(library, g)
Folded == \E g \in Groups(library) \cap Foldable, c \in BOOLEAN :
                 library' = SetCollapsed(library, g, c)
ProjectMoved ==
    \E p \in Listed(library), g \in Groups(library) \cup {Top} :
        /\ CanMoveProject(library, p, g)
        /\ library' = Move(library, p, g)
GroupMoved ==
    \E h \in Groups(library), g \in Groups(library) \cup {Top} :
        /\ CanMoveGroup(library, h, g)
        /\ library' = Move(library, h, g)

Init == library = <<>>
Next == \/ Remembered \/ Forgotten \/ Created \/ Removed \/ Folded
        \/ ProjectMoved \/ GroupMoved
Spec == Init /\ [][Next]_library

----------------------------------------------------------------------------
(***************************************************************************)
(* Whatever the user does, the list stays one that the writer and the next *)
(* launch accept: a forest, no deeper and no longer than the limits.       *)
(***************************************************************************)
StaysValid == IsForest(library) /\ Validate(library)

(***************************************************************************)
(* The menu of a group enables exactly the destinations the edit accepts:  *)
(* move_destinations and move_group count depths from different places,    *)
(* and an entry enabled in one and refused by the other fails on the click.*)
(***************************************************************************)
MenuAgrees ==
    \A id \in Groups(library), g \in Groups(library) :
        CanMoveGroup(library, id, g)
            <=> (g \in Offered(library, id) /\ Enabled(library, id, g))

=============================================================================
