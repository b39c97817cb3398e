--------------------------- MODULE ProjectLibrary ---------------------------
(***************************************************************************)
(* The project list a user curates (project_library.rs): projects and      *)
(* groups in a forest whose order is saved.  The forest is a sequence of   *)
(* entries, each naming the group it lies in; the entries of one group, in *)
(* the order of the sequence, are that group's `nodes`.  A group is known  *)
(* by its number, 0 stands for the top level, and a project by its path.   *)
(* Every operator takes a list and returns the list the method leaves.     *)
(* Names are abstracted: validate_project_name is a test on one text.      *)
(***************************************************************************)
EXTENDS Naturals, Sequences, FiniteSets, SequencesExt, FiniteSetsExt

CONSTANTS Projects,      \* absolute paths of projects
          MaxGroups,     \* MAX_GROUPS, 64 in the code
          MaxProjects,   \* MAX_PROJECTS, 256 in the code
          MaxDepth,      \* MAX_DEPTH, 5 in the code
          MaxId          \* bound of the checks: the highest group number

LibraryAssumption ==
    /\ MaxGroups \in Nat \ {0} /\ MaxProjects \in Nat \ {0}
    /\ MaxDepth \in Nat \ {0} /\ MaxId \in Nat \ {0}
    /\ Projects \cap Nat = {}

Top == 0
GroupIds == 1 .. MaxId

Entry == [item : Projects \cup GroupIds, into : {Top} \cup GroupIds,
          collapsed : BOOLEAN]

Items(lib) == {lib[i].item : i \in DOMAIN lib}
Listed(lib) == Items(lib) \cap Projects
Groups(lib) == Items(lib) \ Projects
At(lib, item) == CHOOSE i \in DOMAIN lib : lib[i].item = item
In(lib, item) == lib[At(lib, item)].into

(* depth_of: a group of the top level has depth one. *)
DepthOf(lib, id) ==
    LET depth[g \in Groups(lib)] ==
            IF In(lib, g) = Top THEN 1 ELSE 1 + depth[In(lib, g)]
    IN  IF id = Top THEN 0 ELSE depth[id]

(* The groups that lie in group id, at any level, and id itself. *)
Subtree(lib, id) ==
    LET inside[g \in Groups(lib)] ==
            g = id \/ (In(lib, g) # Top /\ inside[In(lib, g)])
    IN  {g \in Groups(lib) : inside[g]}

GroupContains(lib, ancestor, id) == id \in Subtree(lib, ancestor) \ {ancestor}

SubtreeHeight(lib, id) ==
    Max({DepthOf(lib, g) : g \in Subtree(lib, id)}) - DepthOf(lib, id) + 1

Detached(lib, item) ==
    IF item \in Items(lib) THEN RemoveAt(lib, At(lib, item)) ELSE lib
Attach(lib, e, into) == Append(lib, [e EXCEPT !.into = into])

----------------------------------------------------------------------------
(* A full list drops its oldest ungrouped project, and refuses the new one *)
(* when every project it holds is in a group.  A valid list holds at most  *)
(* MaxProjects, so one place is enough.                                    *)

Ungrouped(lib) == {i \in DOMAIN lib : lib[i].item \in Projects /\ lib[i].into = Top}

Remember(lib, path) ==
    LET new == [item |-> path, into |-> Top, collapsed |-> FALSE]
        full == Cardinality(Listed(lib)) >= MaxProjects
    IN  CASE path \in Items(lib) -> lib
          [] path \notin Items(lib) /\ ~full -> Append(lib, new)
          [] path \notin Items(lib) /\ full /\ Ungrouped(lib) = {} -> lib
          [] OTHER -> Append(RemoveAt(lib, Min(Ungrouped(lib))), new)

ForgetProject(lib, path) == Detached(lib, path)

(* Numbers of removed groups below the highest are not used again. *)
NextGroupId(lib) == IF Groups(lib) = {} THEN 1 ELSE Max(Groups(lib)) + 1

(* The edits that can be refused say when they are not: the guards of      *)
(* create_group, move_project and move_group, in the code's order.         *)

CanCreate(lib, parent) ==
    /\ Cardinality(Groups(lib)) < MaxGroups /\ NextGroupId(lib) <= MaxId
    /\ parent = Top \/ parent \in Groups(lib)
    /\ DepthOf(lib, parent) + 1 <= MaxDepth

CreateGroup(lib, parent) ==
    Attach(lib, [item |-> NextGroupId(lib), into |-> parent, collapsed |-> FALSE], parent)

CanMoveProject(lib, path, into) ==
    (into = Top \/ into \in Groups(lib)) /\ path \in Listed(lib)

\* Mutant: only the group's own level is compared with the limit.
CanMoveGroupShallow(lib, id, into) ==
    /\ into # id /\ id \in Groups(lib)
    /\ into = Top \/ into \in Groups(lib)
    /\ into # Top => ~GroupContains(lib, id, into)
    /\ DepthOf(lib, into) + 1 <= MaxDepth

CanMoveGroup(lib, id, into) ==
    /\ into # id /\ id \in Groups(lib)
    /\ into = Top \/ into \in Groups(lib)
    /\ into # Top => ~GroupContains(lib, id, into)
    /\ DepthOf(lib, into) + SubtreeHeight(lib, id) <= MaxDepth

Move(lib, item, into) == Attach(Detached(lib, item), lib[At(lib, item)], into)

SetCollapsed(lib, id, collapsed) ==
    [lib EXCEPT ![At(lib, id)].collapsed = collapsed]

(* Only the group goes: what it held takes its place, in its order.  The   *)
(* entry that becomes the n-th is the one with n - 1 entries ahead of it.  *)
Place(lib, id, k) == IF lib[k].into = id THEN At(lib, id) ELSE k

Ahead(lib, id, k) ==
    {j \in DOMAIN lib \ {At(lib, id)} :
        \/ Place(lib, id, j) < Place(lib, id, k)
        \/ Place(lib, id, j) = Place(lib, id, k) /\ j < k}

Nth(lib, id, n) ==
    CHOOSE k \in DOMAIN lib \ {At(lib, id)} : Cardinality(Ahead(lib, id, k)) = n - 1

Lifted(lib, id, e) == IF e.into = id THEN [e EXCEPT !.into = In(lib, id)] ELSE e

RemoveGroup(lib, id) ==
    IF id \notin Groups(lib) THEN lib
    ELSE [n \in 1 .. Len(lib) - 1 |-> Lifted(lib, id, lib[Nth(lib, id, n)])]

----------------------------------------------------------------------------
(* validate: what both the writer and the loader require of a list.  That  *)
(* each entry's group is listed and none contains itself is the shape of   *)
(* the nested `nodes`, which the sequence has to be asked for.             *)
IsForest(lib) ==
    /\ \A g \in Groups(lib) : In(lib, g) \in Groups(lib) \cup {Top}
    /\ \A i \in DOMAIN lib : lib[i].into \in Groups(lib) \cup {Top}
    /\ \A S \in SUBSET Groups(lib) :
           S # {} => \E g \in S : In(lib, g) \notin S

Validate(lib) ==
    /\ Cardinality(Items(lib)) = Len(lib)
    /\ Cardinality(Groups(lib)) <= MaxGroups
    /\ Cardinality(Listed(lib)) <= MaxProjects
    /\ \A g \in Groups(lib) : DepthOf(lib, g) <= MaxDepth

(* move_destinations (project_pane.rs): the places a group's menu offers,  *)
(* and those it leaves enabled.  `depth` is zero-based there.              *)
Offered(lib, id) ==
    {g \in Groups(lib) : g # id /\ ~GroupContains(lib, id, g)}

Enabled(lib, id, g) ==
    (DepthOf(lib, g) - 1) + 1 + SubtreeHeight(lib, id) <= MaxDepth
=============================================================================
