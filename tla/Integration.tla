----------------------------- MODULE Integration -----------------------------
(***************************************************************************)
(* Merging, rebasing and resolving conflicts                               *)
(* (crates/git-core/src/work/integration.rs).                              *)
(*                                                                         *)
(* Every command carries what was shown when it was confirmed: branch and  *)
(* destination, the state of the stopped operation, or the conflict with   *)
(* its file.  Running it compares that with the repository and starts Git; *)
(* a resolution reads the file once more, writes it and stages it then.    *)
(* Editors and other Git commands come between any two of these steps;     *)
(* disturbed tells when they did after the last comparison.                *)
(*                                                                         *)
(* A stopped cherry-pick or revert, which the module has none of, goes on  *)
(* and ends like a merge; that a rebase with a message to edit is not      *)
(* continued is left out as well.                                          *)
(***************************************************************************)
EXTENDS WorkingCopy

CONSTANTS
  Situations,   \* [base, mine, target]: the branch's commits since base
  MaxCommands, MaxInterventions   \* bounds

\* Trees of one base; a branch has commits of its own.
IntegrationAssumption ==
  /\ \A s \in Situations :
       /\ s.base \in Trees /\ s.target \in Trees
       /\ s.mine \in Seq(Trees) /\ s.mine # <<>>
  /\ {MaxCommands, MaxInterventions} \subseteq Nat

VARIABLES
  base,         \* tree of the common ancestor
  mine,         \* trees of the branch's commits since base
  target,       \* tree of the destination branch
  branch, tracked, checkout,   \* trees: the branch, the index and the files; an
                \* unmerged path keeps the branch's entry
  unmerged,     \* the unmerged paths
  sides,        \* the trees of stages 2 and 3
  operation,    \* the operation in progress, None when there is none
  command,      \* what is confirmed
  milestone,    \* "idle", "reviewed", "checked", "compared" or "written"
  disturbed,    \* something changed since the last comparison
  confirmed, interventions

integrated == <<base, mine, target, branch, tracked, checkout, unmerged, sides, operation>>
integrationVars ==
  <<integrated, command, milestone, disturbed, confirmed, interventions>>

IntegrationInit ==
  /\ \E s \in Situations :
       /\ base = s.base /\ mine = s.mine /\ target = s.target
       /\ branch = Last(s.mine)
  /\ tracked = branch
  /\ checkout \in {t \in Trees :
                     Changes(branch, t) \subseteq Ignored \cup {p \in Paths : branch[p] = Absent}}
  /\ unmerged = {} /\ sides = None /\ operation = None
  /\ command = NoPlan /\ milestone = "idle" /\ disturbed = FALSE
  /\ confirmed = 0 /\ interventions = 0

-----------------------------------------------------------------------------
(* What is reviewed, and whether it still holds.                           *)

\* operation_state.
OperationState ==
  [op |-> operation, head |-> branch, index |-> tracked, unresolved |-> unmerged]

\* conflict_preview: with no operation, only HEAD and the file itself.  A
\* directory where the file is wanted is shown as a submodule, without content.
Preview(p) ==
  [state |-> [op |-> operation, head |-> branch,
              index |-> IF operation = None THEN None ELSE tracked,
              unresolved |-> IF operation = None THEN None ELSE unmerged],
   path |-> p, current |-> sides.ours[p], incoming |-> sides.theirs[p],
   working |-> checkout[p], directory |-> IsDirectory(checkout, p)]

\* Below a file nothing can be read or written.
NothingAbove(p) == \A q \in FilesOf(checkout) : ~IsStrictPrefix(q, p)

Viewable == {p \in unmerged : NothingAbove(p)}

\* Text the person may decide on; Markers is the text with blocks left.
Resolutions ==
  {[how |-> "save", bytes |-> c] : c \in Texts \cup {Markers}}
  \cup {[how |-> "manual", bytes |-> c] : c \in Texts \cup {Markers}}
  \cup {[how |-> h, bytes |-> None] : h \in {"current", "incoming", "mark"}}

\* Bound: the branch still is the one of the situation.
Fresh == operation = None /\ unmerged = {} /\ branch = Last(mine)

Confirmable ==
  (IF Fresh
     THEN {[kind |-> k, head |-> branch, target |-> target] : k \in {"merge", "rebase"}} ELSE {})
  \cup (IF operation # None
     THEN {[kind |-> k, expected |-> OperationState] : k \in {"continue", "abort", "quit"}}
     ELSE {})
  \cup {[kind |-> "resolve", expected |-> Preview(p), choice |-> c] :
          p \in Viewable, c \in Resolutions}

Confirm ==
  /\ milestone = "idle" /\ confirmed < MaxCommands
  /\ confirmed' = confirmed + 1
  /\ command' \in Confirmable
  /\ milestone' = "reviewed"
  /\ UNCHANGED <<integrated, disturbed, interventions>>

\* protect_untracked_rebase_paths: what the destination or a replayed commit
\* adds has no untracked file at, above or below it, ignored or not.
RebaseProtected ==
  LET commits == <<base>> \o mine
      added == (FilesOf(target) \ FilesOf(branch))
               \cup UNION {FilesOf(commits[i + 1]) \ FilesOf(commits[i]) : i \in 1..Len(mine)}
  IN \A p \in added, q \in FilesOf(checkout) \ FilesOf(tracked) : ~Related(p, q)

\* Work of others that git would reset with the operation.
Independent ==
  LET others == (Listed(branch, tracked, checkout) \ unmerged) \ operation.auto
  IN IF operation.kind = "rebase" THEN others ELSE others \cap Staged(branch, tracked)

\* A resolution to stage has no conflict blocks left.
Resolvable(e, choice) ==
  /\ choice.how = "manual" => choice.bytes # Markers
  /\ choice.how = "mark" => e.working # Markers

\* Mutant: the state of the operation is not compared again.
ValidAnyState ==
  CASE command.kind \in {"merge", "rebase"} ->
         /\ command.head = branch /\ command.target = target /\ operation = None /\ unmerged = {}
         /\ tracked = branch
         /\ command.kind = "rebase" => Unstaged(tracked, checkout) = {} /\ RebaseProtected
    [] command.kind = "continue" -> operation # None /\ unmerged = {}
    [] command.kind = "abort" ->
         operation # None /\ operation = command.expected.op /\ Independent = {}
    [] command.kind = "quit" -> operation # None
    [] command.kind = "resolve" ->
         command.expected.path \in Viewable /\ Resolvable(command.expected, command.choice)

\* execute_integration, before Git.
Valid ==
  CASE command.kind \in {"merge", "rebase"} ->
         /\ command.head = branch /\ command.target = target /\ operation = None /\ unmerged = {}
         /\ tracked = branch
         /\ command.kind = "rebase" => Unstaged(tracked, checkout) = {} /\ RebaseProtected
    [] command.kind = "continue" -> command.expected = OperationState /\ unmerged = {}
    [] command.kind = "abort" -> command.expected = OperationState /\ Independent = {}
    [] command.kind = "quit" -> command.expected = OperationState
    [] command.kind = "resolve" ->
         /\ command.expected.path \in Viewable
         /\ command.expected = Preview(command.expected.path)
         /\ Resolvable(command.expected, command.choice)

CheckIntegration ==
  /\ milestone = "reviewed"
  /\ IF Valid
       THEN milestone' = "checked" /\ disturbed' = FALSE /\ UNCHANGED command
       ELSE milestone' = "idle" /\ command' = NoPlan /\ UNCHANGED disturbed
  /\ UNCHANGED <<integrated, confirmed, interventions>>

-----------------------------------------------------------------------------
(* Git.                                                                    *)

Stop(kind, conflicts, ours, theirs, merged, todo, orig) ==
  /\ unmerged' = conflicts
  /\ sides' = [ours |-> ours, theirs |-> theirs]
  /\ operation' = [kind |-> kind, todo |-> todo, orig |-> orig, auto |-> Changes(ours, merged)]

\* git merge --no-overwrite-ignore refuses to touch local work.
MergeInto(theirs) ==
  LET merged == Merged(base, branch, theirs)
      conflicts == Conflicts(base, branch, theirs)
      touched == Changes(branch, merged)
  IN /\ WellFormed(merged)      \* a file against a directory is left out
     /\ tracked = branch
     /\ \A p \in Local(branch, checkout) \cup Unstaged(tracked, checkout), q \in touched :
          ~Related(p, q)
     /\ checkout' = Written(checkout, touched, merged)
     /\ tracked' = [p \in Paths |-> IF p \in conflicts THEN branch[p] ELSE merged[p]]
     /\ IF conflicts = {}
          THEN branch' = merged /\ UNCHANGED <<unmerged, sides, operation>>
          ELSE Stop("merge", conflicts, branch, theirs, merged, <<>>, branch) /\ UNCHANGED branch
     /\ UNCHANGED <<base, mine, target>>

\* Replaying commits one after another on top of a tree.
Replayed(onto, files, todo) ==
  LET replay[i \in 0..Len(todo)] ==
        IF i = 0 THEN [head |-> onto, work |-> files, at |-> 0, merged |-> onto, conflicts |-> {}]
        ELSE LET last == replay[i - 1]
                 pick == todo[i]
                 merged == Merged(pick.from, last.head, pick.to)
                 conflicts == Conflicts(pick.from, last.head, pick.to)
             IN IF last.conflicts # {} THEN last
                ELSE [head |-> IF conflicts = {} THEN merged ELSE last.head,
                      work |-> Written(last.work, Changes(last.head, merged), merged),
                      at |-> i, merged |-> merged, conflicts |-> conflicts]
  IN replay[Len(todo)]

Replay(onto, files, todo, orig) ==
  LET end == Replayed(onto, files, todo)
  IN /\ WellFormed(end.merged)
     /\ branch' = end.head /\ checkout' = end.work
     /\ tracked' = [p \in Paths |-> IF p \in end.conflicts THEN end.head[p] ELSE end.merged[p]]
     /\ IF end.conflicts = {}
          THEN unmerged' = {} /\ operation' = None /\ UNCHANGED sides
          ELSE Stop("rebase", end.conflicts, end.head, todo[end.at].to, end.merged,
                    SubSeq(todo, end.at + 1, Len(todo)), orig)
     /\ UNCHANGED <<base, mine, target>>

\* git rebase resets the files to the destination, over ignored ones.
Rebase ==
  LET commits == <<base>> \o mine
      todo == [i \in 1..Len(mine) |-> [from |-> commits[i], to |-> commits[i + 1]]]
  IN Replay(target, Written(checkout, Changes(branch, target), target), todo, branch)

\* The staged result is committed; a rebase wants no other changes and goes on.
Continue ==
  IF operation.kind = "rebase"
    THEN /\ Unstaged(tracked, checkout) = {}
         /\ Replay(tracked, checkout, operation.todo, operation.orig)
    ELSE /\ branch' = tracked /\ operation' = None
         /\ UNCHANGED <<base, mine, target, tracked, checkout, unmerged, sides>>

\* reset --merge keeps files the index has as HEAD and refuses over untracked
\* ones, if they are not ignored; a rebase resets all.
Abort ==
  /\ IF operation.kind = "rebase"
       THEN /\ branch' = operation.orig
            /\ checkout' =
                 Written(checkout, FilesOf(tracked) \cup FilesOf(operation.orig) \cup unmerged,
                         operation.orig)
       ELSE LET reset == Staged(branch, tracked) \cup unmerged
            IN /\ \A p \in reset \ unmerged : p \in FilesOf(tracked) => checkout[p] = tracked[p]
               /\ \A p \in Untracked(tracked, checkout), q \in reset \ unmerged : ~Related(p, q)
               /\ branch' = branch
               /\ checkout' = Written(checkout, reset, branch)
  /\ tracked' = branch'
  /\ unmerged' = {} /\ operation' = None
  /\ UNCHANGED <<base, mine, target, sides>>

\* The bookkeeping ends; a rebase leaves HEAD where it is.
Quit ==
  /\ operation' = None
  /\ UNCHANGED <<base, mine, target, branch, tracked, checkout, unmerged, sides>>

Stay == UNCHANGED integrated

Finish == milestone' = "idle" /\ command' = NoPlan /\ disturbed' = FALSE

\* Git runs once, or refuses.
RunIntegration ==
  /\ milestone = "checked" /\ command.kind # "resolve"
  /\ \/ command.kind = "merge" /\ MergeInto(target)
     \/ command.kind = "rebase" /\ Rebase
     \/ command.kind = "continue" /\ operation # None /\ unmerged = {} /\ Continue
     \/ command.kind = "abort" /\ operation # None /\ Abort
     \/ command.kind = "quit" /\ Quit
     \/ Stay
  /\ Finish
  /\ UNCHANGED <<confirmed, interventions>>

-----------------------------------------------------------------------------
(* Resolving one conflict.                                                 *)

Path == command.expected.path

Finishing == Finish /\ UNCHANGED <<confirmed, interventions>>

Repository == <<base, mine, target, branch, sides, operation>>

IsManual == command.choice.how \in {"save", "manual"}

\* write_conflict_file opens the file and reads it again.  A created file is
\* empty until it is written; the empty file is not told apart from none.
SameFile ==
  /\ NothingAbove(Path)
  /\ checkout[Path] = command.expected.working
  /\ ~command.expected.directory /\ ~IsDirectory(checkout, Path)

CompareManual ==
  /\ milestone = "checked" /\ command.kind = "resolve" /\ IsManual
  /\ Stay
  /\ IF SameFile
       THEN milestone' = "compared" /\ disturbed' = FALSE
            /\ UNCHANGED <<command, confirmed, interventions>>
       ELSE Finishing

\* It is written in place, nothing held: over what another program wrote since,
\* or into a file that another program removed or replaced since, or in part.
WriteManual ==
  /\ milestone = "compared"
  /\ UNCHANGED <<Repository, tracked, unmerged, confirmed, interventions>>
  /\ \/ /\ \/ /\ checkout[Path] # Absent \/ command.expected.working = Absent
              /\ checkout' = [checkout EXCEPT ![Path] = command.choice.bytes]
           \/ disturbed /\ UNCHANGED checkout
        /\ IF command.choice.how = "save" THEN Finish
           ELSE milestone' = "written" /\ UNCHANGED <<command, disturbed>>
     \/ /\ \/ UNCHANGED checkout
           \/ /\ checkout[Path] # Absent \/ command.expected.working = Absent
              /\ \E piece \in Texts \cup {Markers} : checkout' = [checkout EXCEPT ![Path] = piece]
        /\ Finish
  /\ WellFormed(checkout')

\* checkout --ours or --theirs, or git rm --force when that side has no file.
WriteSide ==
  LET current == command.choice.how = "current"
      side == IF current THEN command.expected.current ELSE command.expected.incoming
      now == IF current THEN sides.ours[Path] ELSE sides.theirs[Path]
  IN /\ command.choice.how \in {"current", "incoming"}
     /\ Path \in unmerged
     /\ IF side = Absent
          THEN /\ ~IsDirectory(checkout, Path)
               /\ checkout' = [checkout EXCEPT ![Path] = Absent]
               /\ tracked' = [tracked EXCEPT ![Path] = Absent]
               /\ unmerged' = unmerged \ {Path}
               /\ Finish
          ELSE /\ now # Absent
               /\ checkout' = Written(checkout, {Path}, [checkout EXCEPT ![Path] = now])
               /\ milestone' = "written"
               /\ UNCHANGED <<tracked, unmerged, command, disturbed>>
     /\ UNCHANGED Repository

Mark ==
  /\ command.choice.how = "mark"
  /\ milestone' = "written"
  /\ Stay
  /\ UNCHANGED <<command, disturbed>>

\* Git may refuse.
WriteResolution ==
  /\ milestone = "checked" /\ command.kind = "resolve"
  /\ WriteSide \/ Mark \/ (Stay /\ Finish)
  /\ UNCHANGED <<confirmed, interventions>>

\* git add --all of the one path takes everything at and below it; when it
\* fails, the file keeps the resolution and the conflict stays.
StageResolution ==
  LET staging == {q \in Paths : /\ IsPrefix(Path, q)
                                /\ q = Path \/ q \in FilesOf(tracked) \/ q \notin Ignored}
  IN /\ milestone = "written"
     /\ \/ /\ tracked' = Written(tracked, staging, checkout)
           /\ unmerged' = unmerged \ staging
           /\ UNCHANGED <<Repository, checkout>>
        \/ Stay
     /\ Finishing

-----------------------------------------------------------------------------
(* Others.                                                                 *)

EditBetween ==
  /\ checkout' \in Edits(checkout)
  /\ UNCHANGED <<base, mine, target, branch, tracked, unmerged, sides, operation>>

AddBetween ==
  /\ \E p \in Changes(tracked, checkout) \cup unmerged :
       /\ tracked' = [tracked EXCEPT ![p] = checkout[p]]
       /\ unmerged' = unmerged \ {p}
  /\ WellFormed(tracked')
  /\ UNCHANGED <<base, mine, target, branch, checkout, sides, operation>>

\* Another program merges, or replays on, another commit of the situation.
MergeOutside ==
  /\ Fresh
  /\ \E s \in Situations : MergeInto(s.target)

FetchTarget ==
  /\ \E s \in Situations : target' = s.target /\ target' # target
  /\ UNCHANGED <<base, mine, branch, tracked, checkout, unmerged, sides, operation>>

AbortOutside == operation # None /\ Abort

Between ==
  /\ interventions < MaxInterventions
  /\ EditBetween \/ AddBetween \/ MergeOutside \/ FetchTarget \/ AbortOutside
  /\ interventions' = interventions + 1
  /\ disturbed' = (disturbed \/ milestone \in {"checked", "compared", "written"})
  /\ UNCHANGED <<command, milestone, confirmed>>

IntegrationNext ==
  \/ Confirm \/ CheckIntegration \/ RunIntegration
  \/ CompareManual \/ WriteManual \/ WriteResolution \/ StageResolution
  \/ Between

IntegrationSpec == IntegrationInit /\ [][IntegrationNext]_integrationVars

-----------------------------------------------------------------------------
(***************************************************************************)
(* Types: trees hold no file below a file, conflicts have their sides, and *)
(* a command is under way only when one was confirmed.                     *)
(***************************************************************************)
IntegrationTypeOK ==
  /\ \A t \in {branch, tracked, checkout} : WellFormed(t)
  /\ unmerged \subseteq Paths /\ (unmerged # {} => sides # None)
  /\ operation # None => operation.kind \in {"merge", "rebase"}
  /\ milestone \in {"idle", "reviewed", "checked", "compared", "written"}
  /\ (command = NoPlan) <=> (milestone = "idle")

Running(kinds) ==
  /\ milestone = "checked" /\ milestone' = "idle"
  /\ ~disturbed /\ command.kind \in kinds

\* Files that a stopped rebase leaves of commits which change what the
\* destination removed: protect_untracked_rebase_paths looks only at files that
\* a commit adds.
LeftOfConflicts ==
  IF command.kind = "rebase" THEN unmerged' \ {p \in Paths : branch'[p] # Absent} ELSE {}

StartLosesNothing ==
    Running({"merge", "rebase"}) =>
        \A p \in Local(branch, checkout) :
          \/ checkout'[p] = checkout[p]
          \/ \E q \in LeftOfConflicts : Related(p, q)

AbortKeepsListed ==
    Running({"abort"}) /\ operation' = None =>
        \A p \in Local(branch, checkout) \ (operation.auto \cup unmerged) :
          /\ p \in Listed(branch, tracked, checkout) => checkout'[p] = checkout[p]
          /\ tracked[p] # branch[p] => tracked'[p] = tracked[p]

ContinuesReviewed ==
    Running({"continue"}) /\ (operation' # operation \/ branch' # branch) =>
        /\ command.expected.op = operation /\ command.expected.unresolved = {}
        /\ operation.kind = "merge" => branch' = command.expected.index
        /\ operation.kind = "rebase" /\ operation' = None =>
             branch' = Replayed(command.expected.index, checkout, operation.todo).head

Decided ==
  CASE command.choice.how = "manual" -> command.choice.bytes
    [] command.choice.how = "current" -> command.expected.current
    [] command.choice.how = "incoming" -> command.expected.incoming
    [] command.choice.how = "mark" -> command.expected.working

\* A step of a resolution that nothing disturbed since the last comparison.
Resolving ==
  /\ milestone \in {"checked", "compared", "written"} /\ milestone' # milestone
  /\ ~disturbed /\ command.kind = "resolve"

\* The file, and what a reviewed directory of its name holds.
Decides ==
  {Path} \cup {q \in Paths : command.expected.directory /\ IsStrictPrefix(Path, q)}

\* Entries that the index cannot hold beside the file, or that lie below it;
\* their own files are gone.
Displaced == {q \in Paths : Related(Path, q) /\ checkout[q] = Absent}

ResolvesDecided ==
    Resolving /\ unmerged' # unmerged =>
        /\ unmerged' = unmerged \ {Path}
        /\ tracked'[Path] = Decided
        /\ Decided # Markers
        /\ Changes(tracked, tracked') \subseteq Decides \cup Displaced

ResolutionKeepsOthers ==
    Resolving => Changes(checkout, checkout') \subseteq Decides

SavesOverReviewed ==
    Resolving /\ IsManual /\ checkout' # checkout =>
        checkout[Path] = command.expected.working

(***************************************************************************)
(* Starting a merge or a rebase overwrites no file that Git does not hold, *)
(* but where a rebase stops at a file that the destination removed;        *)
(* aborting keeps the listed work that is not the operation's, and         *)
(* continue commits exactly the index that was confirmed, for the same     *)
(* operation: not one that another program started since, and not what     *)
(* was staged since. A resolution that nothing disturbs stages what was    *)
(* decided and touches no other file, and no other entry but those above   *)
(* or below whose files are gone; only where a directory stands in the     *)
(* file's place, shown as a submodule without content, it stages or        *)
(* removes the files below, which nobody saw (integration.rs:1079-1083,    *)
(* 994-1002). An edit made before the last comparison is never             *)
(* overwritten; one made between that and the write in place is            *)
(* (integration.rs:1151-1162).                                             *)
(***************************************************************************)
ContinuesAsReviewed ==
  [][ /\ IntegrationTypeOK /\ StartLosesNothing /\ AbortKeepsListed
      /\ ContinuesReviewed /\ ResolvesDecided /\ ResolutionKeepsOthers
      /\ SavesOverReviewed ]_integrationVars
=============================================================================
