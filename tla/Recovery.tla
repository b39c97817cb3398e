------------------------------- MODULE Recovery -------------------------------
(***************************************************************************)
(* Reviewed recovery actions of crates/git-core/src/work/recovery.rs:      *)
(* amend, undo, revert, cherry-pick and the stash.                         *)
(*                                                                         *)
(* A plan pins what it was read from.  Executing it makes the plan again,  *)
(* compares, and runs one Git command.  The person, other Git commands and *)
(* other worktrees change the repository between any two of these steps;   *)
(* overtaken tells when they did so between the comparison and Git.        *)
(***************************************************************************)
EXTENDS WorkingCopy

CONSTANTS
  Histories,    \* commits to begin with: sequences of [tree, parents]
  MaxCommits, MaxStash, MaxReviews, MaxOutside   \* bounds

\* Commits have older parents.
Commits == [tree : MarkedTrees, parents : Seq(Nat)]

RecoveryAssumption ==
  /\ \A h \in Histories :
       /\ h \in Seq(Commits) /\ h # <<>>
       /\ \A i \in 1..Len(h) : ToSet(h[i].parents) \subseteq 1..(i - 1)
  /\ {MaxCommits, MaxStash, MaxReviews, MaxOutside} \subseteq Nat

VARIABLES
  hist,         \* the commits, by number; parents are older
  tip,          \* the commit of the checked-out branch
  remote,       \* the commit of its remote-tracking branch, 0 is none
  elsewhere,    \* the branch is checked out in another worktree too
  indexTree, workTree,   \* the trees of the index and the working copy
  unresolved,   \* conflicted paths
  op,           \* a replay in progress
  stash,        \* saved entries, newest first
  proposal,     \* what is reviewed
  progress,     \* "idle", "reviewed" or "checked"
  overtaken,    \* something changed since the comparison
  reviews, outside   \* plans made and changes by others, for the bounds

repository == <<hist, tip, remote, elsewhere, indexTree, workTree, unresolved, op, stash>>
recoveryVars == <<repository, proposal, progress, overtaken, reviews, outside>>

Kinds == {"amend", "undo", "revert", "cherry-pick"}

TreeOf(c) == hist[c].tree
LastTree == TreeOf(tip)

ParentTree(c, n) ==
  IF hist[c].parents = <<>> THEN EmptyTree ELSE TreeOf(hist[c].parents[n])

\* The commits that one of them is made from, itself included.
Ancestors(commits, c) ==
  LET above[d \in 0..Len(commits)] ==
        IF d = 0 THEN {} ELSE {d} \cup UNION {above[p] : p \in ToSet(commits[d].parents)}
  IN above[c]

\* recovery_published_refs: for-each-ref --contains, of local knowledge.
Published(c) == c \in Ancestors(hist, remote)

RecoveryInit ==
  /\ hist \in Histories
  /\ tip = Len(hist)
  /\ remote \in {0, tip}
  /\ elsewhere = FALSE
  /\ indexTree = TreeOf(tip)
  /\ workTree \in Trees
  /\ unresolved = {} /\ op = "none"
  /\ stash = <<>>
  /\ proposal = NoPlan /\ progress = "idle" /\ overtaken = FALSE
  /\ reviews = 0 /\ outside = 0

-----------------------------------------------------------------------------
(* Plans.                                                                  *)

\* recovery_head: the branch's tip and the index.
Current == [tip |-> tip, index |-> indexTree]

\* Nothing else is in progress.
Ready == op = "none" /\ unresolved = {}

\* recovery_parent: a merge needs a choice, others must not have one.
Mainlines(c) ==
  IF Len(hist[c].parents) > 1 THEN 1..Len(hist[c].parents) ELSE {1}

\* What a kind of commit recovery asks of its target.
Allowed(kind, c) ==
  CASE kind = "amend" -> c = tip
    [] kind = "undo" -> c = tip /\ Len(hist[c].parents) = 1 /\ ~Published(c)
    [] OTHER -> Staged(LastTree, indexTree) = {}

Affected(kind, c, n) ==
  Changes(ParentTree(c, n), TreeOf(c)) \cup
    (IF kind = "amend" THEN Staged(LastTree, indexTree) ELSE {})

\* recovery_plan: at most one plan.
CommitPlans(kind, c, n) ==
  IF /\ Ready /\ ~elsewhere
     /\ n \in Mainlines(c)
     /\ Allowed(kind, c)
     /\ kind \in {"revert", "cherry-pick"} =>
          Protected(LastTree, indexTree, workTree, Affected(kind, c, n))
    THEN {[kind |-> kind, current |-> Current, target |-> c, mainline |-> n,
           affected |-> Affected(kind, c, n), published |-> Published(c)]}
    ELSE {}

\* recovery_worktree_token reads every included path, and fails on one that is
\* a directory now or lies below a file.
Readable(paths) ==
  \A p \in paths :
    /\ ~IsDirectory(workTree, p)
    /\ \A q \in FilesOf(workTree) : ~IsStrictPrefix(q, p)

Token(paths) == [p \in paths |-> workTree[p]]

Included(untracked) ==
  Staged(LastTree, indexTree) \cup Unstaged(indexTree, workTree) \cup
    (IF untracked THEN Untracked(indexTree, workTree) ELSE {})

\* stash_create_plan.
StashPlans(untracked) ==
  IF Ready /\ Included(untracked) # {} /\ Readable(Included(untracked))
    THEN {[kind |-> "stash", current |-> Current, untracked |-> untracked,
           affected |-> Included(untracked), token |-> Token(Included(untracked))]}
    ELSE {}

\* Entries are numbered to tell them apart, the newest highest; the program
\* cannot see it.
NextNumber == IF stash = <<>> THEN 1 ELSE 1 + stash[1].n

\* A stash entry's object: two listings of one object look the same.
Object(entry) == [base |-> entry.base, index |-> entry.index, work |-> entry.work,
                  untracked |-> entry.untracked]

\* The whole log, which every entry carries.
Log(n) == [i \in 1..Len(stash) |-> Object(stash[i])]

SavedPaths(entry) ==
  Changes(entry.base, entry.index) \cup Changes(entry.index, entry.work)
    \cup FilesOf(entry.untracked)

\* stash_apply_plan.
ApplyPlans(n, staged) ==
  IF /\ Ready
     /\ n \in 1..Len(stash)
     /\ Protected(LastTree, indexTree, workTree, SavedPaths(stash[n]))
    THEN {[kind |-> "apply", current |-> Current, entry |-> n, log |-> Log(n),
           staged |-> staged, affected |-> SavedPaths(stash[n])]}
    ELSE {}

\* DropStash carries the listed entry.
DropPlans(n) ==
  IF n \in 1..Len(stash) THEN {[kind |-> "drop", entry |-> n, log |-> Log(n)]} ELSE {}

\* The plan a command's own parts ask for now.
Again(p) ==
  CASE p.kind \in Kinds -> CommitPlans(p.kind, p.target, p.mainline)
    [] p.kind = "stash" -> StashPlans(p.untracked)
    [] p.kind = "apply" -> ApplyPlans(p.entry, p.staged)
    [] p.kind = "drop" -> DropPlans(p.entry)

ReviewRecovery ==
  /\ progress = "idle" /\ reviews < MaxReviews
  /\ reviews' = reviews + 1
  /\ proposal' \in
       (UNION {CommitPlans(k, c, n) : k \in Kinds, c \in 1..Len(hist), n \in 1..2})
       \cup (UNION {StashPlans(u) : u \in BOOLEAN})
       \cup (UNION {ApplyPlans(n, s) \cup DropPlans(n) : n \in 1..Len(stash), s \in BOOLEAN})
  /\ progress' = "reviewed"
  /\ UNCHANGED <<repository, overtaken, outside>>

\* execute_recovery makes the plan again and refuses a stale one.
CheckRecovery ==
  /\ progress = "reviewed"
  /\ IF proposal \in Again(proposal)
       THEN progress' = "checked" /\ overtaken' = FALSE /\ UNCHANGED proposal
       ELSE progress' = "idle" /\ proposal' = NoPlan /\ UNCHANGED overtaken
  /\ UNCHANGED <<repository, reviews, outside>>

-----------------------------------------------------------------------------
(* The one Git command.                                                    *)

NewCommit(tree, parents) == Append(hist, [tree |-> tree, parents |-> parents])

Amend ==
  /\ Len(hist) < MaxCommits
  /\ hist' = NewCommit(indexTree, hist[tip].parents)
  /\ tip' = Len(hist')
  /\ UNCHANGED <<indexTree, workTree, unresolved, op, stash>>

\* reset --soft to the reviewed commit's parent.
Undo ==
  /\ tip' = hist[proposal.target].parents[1]
  /\ UNCHANGED <<hist, indexTree, workTree, unresolved, op, stash>>

\* revert and cherry-pick: a commit, or a sequence that waits for resolutions.
ReplayCommit(base, theirs) ==
  LET result == Merged(base, LastTree, theirs)
      conflicts == Conflicts(base, LastTree, theirs)
  IN /\ Len(hist) < MaxCommits
     /\ WellFormed(result)     \* a file against a directory is left out
     /\ workTree' = Written(workTree, Changes(LastTree, result), result)
     /\ indexTree' = [p \in Paths |-> IF p \in conflicts THEN indexTree[p] ELSE result[p]]
     /\ IF conflicts = {}
          THEN /\ hist' = NewCommit(result, <<tip>>)
               /\ tip' = Len(hist')
               /\ UNCHANGED <<unresolved, op>>
          ELSE /\ unresolved' = conflicts
               /\ op' = proposal.kind
               /\ UNCHANGED <<hist, tip>>
     /\ UNCHANGED stash

Tracked == FilesOf(LastTree) \cup FilesOf(indexTree)

\* stash push: what differs from the last commit is saved and reset, untracked
\* files when asked for.
Saved(untracked) ==
  LET taken == IF untracked THEN Untracked(indexTree, workTree) ELSE {}
  IN [n |-> NextNumber,
      base |-> LastTree, index |-> indexTree,
      work |-> [p \in Paths |-> IF p \in Tracked THEN workTree[p] ELSE Absent],
      untracked |-> [p \in Paths |-> IF p \in taken THEN workTree[p] ELSE Absent]]

StashPush ==
  LET saved == Saved(proposal.untracked)
      kept == [p \in Paths |-> IF p \in FilesOf(saved.untracked) THEN Absent ELSE workTree[p]]
  IN /\ Len(stash) < MaxStash
     /\ stash' = <<saved>> \o stash
     /\ indexTree' = LastTree
     /\ workTree' = Written(kept, Changes(LastTree, workTree) \cap Tracked, LastTree)
     /\ UNCHANGED <<hist, tip, unresolved, op>>

\* Restoring an entry keeps it.
AfterApply == stash

\* stash apply merges the saved files onto the index.  Restoring the staged part
\* needs a clean merge of it.
StashApply ==
  LET entry == proposal.log[proposal.entry]     \* Git is given the object
      result == Merged(entry.base, indexTree, entry.work)
      conflicts == Conflicts(entry.base, indexTree, entry.work)
      staged == Merged(entry.base, indexTree, entry.index)
      \* Files the entry adds are staged, unless the index has a file above.
      new == FilesOf(entry.work) \ FilesOf(entry.base)
      added == {p \in new : \A q \in FilesOf(indexTree) : q = p \/ ~Related(p, q)}
      all == [p \in Paths |-> IF p \in FilesOf(entry.untracked) THEN entry.untracked[p]
                              ELSE result[p]]
  IN /\ WellFormed(all) /\ WellFormed(staged)
     /\ proposal.staged => Conflicts(entry.base, indexTree, entry.index) = {}
     /\ workTree' = Written(workTree, Changes(indexTree, all), all)
     /\ indexTree' = [p \in Paths |->
                    IF p \in conflicts THEN indexTree[p]
                    ELSE IF proposal.staged THEN staged[p]
                    ELSE IF p \in added THEN result[p] ELSE indexTree[p]]
     /\ unresolved' = conflicts
     /\ stash' = AfterApply
     /\ UNCHANGED <<hist, tip, op>>

\* stash drop stash@{n}: the entry that is there now.
StashDrop ==
  /\ proposal.entry <= Len(stash)
  /\ stash' = RemoveAt(stash, proposal.entry)
  /\ UNCHANGED <<hist, tip, indexTree, workTree, unresolved, op>>

Command ==
  \/ proposal.kind = "amend" /\ Amend
  \/ proposal.kind = "undo" /\ Undo
  \/ /\ proposal.kind = "revert"
     /\ ReplayCommit(TreeOf(proposal.target), ParentTree(proposal.target, proposal.mainline))
  \/ /\ proposal.kind = "cherry-pick"
     /\ ReplayCommit(ParentTree(proposal.target, proposal.mainline), TreeOf(proposal.target))
  \/ proposal.kind = "stash" /\ StashPush
  \/ proposal.kind = "apply" /\ StashApply
  \/ proposal.kind = "drop" /\ StashDrop

\* Git runs, or refuses (a hook, a signature, a lock, files of its own concern).
RunRecovery ==
  /\ progress = "checked"
  /\ \/ Command
     \/ UNCHANGED <<hist, tip, indexTree, workTree, unresolved, op, stash>>
  /\ progress' = "idle" /\ proposal' = NoPlan /\ overtaken' = FALSE
  /\ UNCHANGED <<remote, elsewhere, reviews, outside>>

-----------------------------------------------------------------------------
(* Others.                                                                 *)

EditMeanwhile ==
  /\ workTree' \in Edits(workTree)
  /\ UNCHANGED <<hist, tip, remote, elsewhere, indexTree, unresolved, op, stash>>

AddMeanwhile ==
  /\ \E p \in Changes(indexTree, workTree) :
       /\ indexTree' = [indexTree EXCEPT ![p] = workTree[p]]
       /\ unresolved' = unresolved \ {p}
  /\ WellFormed(indexTree')
  /\ UNCHANGED <<hist, tip, remote, elsewhere, workTree, op, stash>>

CommitMeanwhile ==
  /\ Len(hist) < MaxCommits
  /\ unresolved = {}
  /\ hist' = NewCommit(indexTree, <<tip>>)
  /\ tip' = Len(hist')
  /\ op' = "none"
  /\ UNCHANGED <<remote, elsewhere, indexTree, workTree, unresolved, stash>>

Fetch ==
  /\ remote' = tip
  /\ UNCHANGED <<hist, tip, elsewhere, indexTree, workTree, unresolved, op, stash>>

UseElsewhere ==
  /\ elsewhere' = ~elsewhere
  /\ UNCHANGED <<hist, tip, remote, indexTree, workTree, unresolved, op, stash>>

\* Another worktree saves an entry, or the same object is stored again.
StashOutside ==
  /\ Len(stash) < MaxStash
  /\ \E entry \in {[base |-> LastTree, index |-> LastTree, work |-> TreeOf(c),
                    untracked |-> EmptyTree] : c \in 1..Len(hist)}
                  \cup {Object(stash[i]) : i \in 1..Len(stash)} :
       stash' = <<[n |-> NextNumber, base |-> entry.base, index |-> entry.index,
                   work |-> entry.work, untracked |-> entry.untracked]>> \o stash
  /\ UNCHANGED <<hist, tip, remote, elsewhere, indexTree, workTree, unresolved, op>>

DropOutside ==
  /\ \E n \in 1..Len(stash) : stash' = RemoveAt(stash, n)
  /\ UNCHANGED <<hist, tip, remote, elsewhere, indexTree, workTree, unresolved, op>>

Meanwhile ==
  /\ outside < MaxOutside
  /\ \/ EditMeanwhile \/ AddMeanwhile \/ CommitMeanwhile \/ Fetch
     \/ UseElsewhere \/ StashOutside \/ DropOutside
  /\ outside' = outside + 1
  /\ overtaken' = (overtaken \/ progress = "checked")
  /\ UNCHANGED <<proposal, progress, reviews>>

RecoveryNext == ReviewRecovery \/ CheckRecovery \/ RunRecovery \/ Meanwhile

RecoverySpec == RecoveryInit /\ [][RecoveryNext]_recoveryVars

-----------------------------------------------------------------------------
(***************************************************************************)
(* Types: trees hold no file below a file, every commit's parents are      *)
(* older, and a command is checked only when one was reviewed.             *)
(***************************************************************************)
RecoveryTypeOK ==
  /\ \A c \in 1..Len(hist) :
       WellFormed(TreeOf(c)) /\ ToSet(hist[c].parents) \subseteq 1..(c - 1)
  /\ tip \in 1..Len(hist) /\ remote \in 0..Len(hist)
  /\ WellFormed(indexTree) /\ WellFormed(workTree)
  /\ unresolved \subseteq Paths
  /\ Len(stash) <= MaxStash /\ IsInjective([i \in 1..Len(stash) |-> stash[i].n])
  /\ progress \in {"idle", "reviewed", "checked"}
  /\ (proposal = NoPlan) <=> (progress = "idle")

GitRuns == progress = "checked" /\ progress' = "idle"

LosesNothing ==
    (GitRuns /\ ~overtaken) =>
        /\ \A p \in Local(LastTree, workTree) :
             \/ workTree'[p] = workTree[p]
             \/ \E i \in 1..Len(stash') :
                  workTree[p] \in {stash'[i].work[p], stash'[i].untracked[p]}
        /\ \A p \in Staged(LastTree, indexTree) :
             \/ indexTree'[p] = indexTree[p]
             \/ \E i \in 1..Len(stash') : stash'[i].index[p] = indexTree[p]
             \/ hist'[tip'].tree[p] = indexTree[p]

RunsReviewed ==
    (GitRuns /\ ~overtaken /\ proposal.kind # "drop") =>
        /\ proposal.current.tip = tip
        /\ proposal.current.index = indexTree
        /\ proposal.kind = "stash" =>
             \A p \in proposal.affected : workTree[p] = proposal.token[p]

KeepsShared ==
    (GitRuns /\ ~overtaken /\ tip' # tip) =>
        /\ ~elsewhere
        /\ tip' < tip => ~Published(tip)

RemovesByDrop ==
    (GitRuns /\ ~overtaken) =>
        \A i \in 1..Len(stash) :
          stash[i] \notin ToSet(stash') =>
            proposal.kind = "drop" /\ i = proposal.entry /\ Object(stash[i]) = proposal.log[i]

(***************************************************************************)
(* No recovery action loses work that was not committed: a file's content  *)
(* stays in place or is in a stash entry, ignored and untracked files      *)
(* included, although Git would overwrite them; what was staged stays      *)
(* staged, is saved or is in the new commit.  This covers files that stand *)
(* where a directory is wanted (protect_recovery_paths).  Git runs on what *)
(* was reviewed, unless others changed it after the comparison; no commit  *)
(* that a remote or another worktree holds is rewritten; and only a drop   *)
(* takes an entry off the stash (execute_recovery).                        *)
(***************************************************************************)
NothingLocalIsLost ==
  [][ /\ RecoveryTypeOK /\ LosesNothing /\ RunsReviewed
      /\ KeepsShared /\ RemovesByDrop ]_recoveryVars
=============================================================================
