---------------------------- MODULE WorkingChanges ----------------------------
(***************************************************************************)
(* Whole files in the Changes list: staging, unstaging, committing and     *)
(* discarding (crates/git-core/src/work.rs, work/discard.rs).              *)
(*                                                                         *)
(* The list shows the rows of the last git status.  Staging passes the     *)
(* paths of the chosen rows to Git without looking again; a discard is     *)
(* planned from one row and planned again before Git runs.  Editors and    *)
(* other Git commands change the files and the index between any two of    *)
(* these steps.                                                            *)
(***************************************************************************)
EXTENDS WorkingCopy

CONSTANT MaxSteps       \* bound on commands, discards and changes by others

WorkingChangesAssumption ==
  /\ None \notin Paths
  /\ MaxSteps \in Nat

VARIABLES
  head, entries, files,   \* trees: the last commit, the index, the working copy
  shown,        \* the rows of the list
  plan,         \* the discard that is reviewed
  stage,        \* "idle", "reviewed" or "checked"
  raced,        \* something changed since the comparison
  steps

changesVars == <<head, entries, files, shown, plan, stage, raced, steps>>

-----------------------------------------------------------------------------
(* Rows.                                                                   *)

\* Git pairs a removed with an added file of the same content, at most once.
Renames ==
  LET removed == FilesOf(head) \ FilesOf(entries)
      added == FilesOf(entries) \ FilesOf(head)
      pairs == {pair \in removed \X added : head[pair[1]] = entries[pair[2]]}
  IN IF pairs = {} THEN {} ELSE {CHOOSE pair \in pairs : TRUE}

\* The row of a tracked path, and of the path it was renamed from.
Row(p, original) ==
  [path |-> p, original |-> original, untracked |-> FALSE,
   head |-> IF original = None THEN head[p] ELSE head[original],
   index |-> entries[p],
   present |-> p \in FilesOf(entries) /\ p \in FilesOf(files),
   staged |-> original # None \/ p \in Staged(head, entries),
   unstaged |-> p \in Unstaged(entries, files)]

TrackedRows ==
  {Row(pair[2], pair[1]) : pair \in Renames}
  \cup {Row(p, None) : p \in {q \in Staged(head, entries) \cup Unstaged(entries, files) :
                               \A pair \in Renames : q # pair[1] /\ q # pair[2]}}

UntrackedRows ==
  {[path |-> p, original |-> None, untracked |-> TRUE, head |-> Absent, index |-> Absent,
    present |-> TRUE, staged |-> FALSE, unstaged |-> TRUE] : p \in Untracked(entries, files)}

\* GitRepository::status.
Rows == TrackedRows \cup UntrackedRows

\* StatusEntry::paths: both sides of a rename.
RowPaths(row) == IF row.original = None THEN {row.path} ELSE {row.path, row.original}

PathsOf(rows) == UNION {RowPaths(row) : row \in rows}

ChangesInit ==
  /\ head \in Trees /\ entries \in Trees /\ files \in Trees
  /\ shown = Rows
  /\ plan = NoPlan /\ stage = "idle" /\ raced = FALSE
  /\ steps = 0

Step == steps < MaxSteps /\ steps' = steps + 1

Refresh ==
  /\ shown' = Rows
  /\ UNCHANGED <<head, entries, files, plan, stage, raced, steps>>

-----------------------------------------------------------------------------
(* Git.                                                                    *)

\* A literal pathspec selects what it names and everything below.
Matched(paths, candidates) == {q \in candidates : \E p \in paths : IsPrefix(p, q)}

\* The index after to's entries of paths were taken: a new entry replaces what
\* lies above or below it.
Taken(paths, to) ==
  [q \in Paths |->
     IF q \in paths THEN to[q]
     ELSE IF \E p \in paths : to[p] # Absent /\ (IsStrictPrefix(p, q) \/ IsStrictPrefix(q, p))
       THEN Absent ELSE entries[q]]

\* git add --all: a path that names nothing fails the whole command.
Added(paths) ==
  LET known == FilesOf(entries) \cup FilesOf(files)
      matched == Matched(paths, FilesOf(entries) \cup (FilesOf(files) \ Ignored))
  IN IF \E p \in paths : Matched({p}, known) = {} THEN entries ELSE Taken(matched, files)

\* git restore --staged --source=HEAD.
Restored(paths) ==
  LET known == FilesOf(entries) \cup FilesOf(head)
  IN IF \E p \in paths : Matched({p}, known) = {} THEN entries
     ELSE Taken(Matched(paths, known), head)

-----------------------------------------------------------------------------
(* Commands run at once.                                                   *)

\* One row's button, or the confirmed selection.
Chosen(area) == {rows \in SUBSET {row \in shown : row[area]} : rows # {}}

StageRows ==
  /\ Step /\ stage = "idle"
  /\ \E rows \in Chosen("unstaged") : entries' = Added(PathsOf(rows))
  /\ UNCHANGED <<head, files, shown, plan, stage, raced>>

UnstageRows ==
  /\ Step /\ stage = "idle"
  /\ \E rows \in Chosen("staged") : entries' = Restored(PathsOf(rows))
  /\ UNCHANGED <<head, files, shown, plan, stage, raced>>

StageAll ==
  /\ Step /\ stage = "idle"
  /\ entries' = Taken(FilesOf(entries) \cup (FilesOf(files) \ Ignored), files)
  /\ UNCHANGED <<head, files, shown, plan, stage, raced>>

UnstageAll ==
  /\ Step /\ stage = "idle"
  /\ entries' = head
  /\ UNCHANGED <<head, files, shown, plan, stage, raced>>

CommitStaged ==
  /\ Step /\ stage = "idle"
  /\ entries # head
  /\ head' = entries
  /\ UNCHANGED <<entries, files, shown, plan, stage, raced>>

-----------------------------------------------------------------------------
(* Discarding one file.                                                    *)

\* working_identity: it fails below a file.
Reachable(p) == \A q \in FilesOf(files) : ~IsStrictPrefix(q, p)

\* Mutant: staged files below a path are not looked for.
SingleFileOfHead(paths) == \A p \in paths : ~IsDirectory(head, p)

\* ensure_single_file_restore.
SingleFile(paths) ==
  /\ \A p \in paths : ~IsDirectory(head, p)
  /\ Matched(paths, FilesOf(entries)) \subseteq paths

\* No untracked file where Git expects none.
Unoccupied(row, p) ==
  ~(files[p] # Absent /\ (p = row.original \/ ~row.present))

\* discard_plan: at most one plan for a row.
Plans(row) ==
  LET paths == RowPaths(row)
  IN IF /\ row \in Rows
        /\ \A p \in paths : Reachable(p) /\ ~IsDirectory(files, p)
        /\ IF row.untracked THEN files[row.path] # Absent
           ELSE SingleFile(paths) /\ \A p \in paths : Unoccupied(row, p)
       THEN {[kind |-> "discard", row |-> row, head |-> head,
              working |-> [p \in paths |-> files[p]]]}
       ELSE {}

ReviewDiscard ==
  /\ Step /\ stage = "idle"
  /\ \E row \in shown : plan' \in Plans(row)
  /\ stage' = "reviewed"
  /\ UNCHANGED <<head, entries, files, shown, raced>>

\* The confirmation is left.
Cancel ==
  /\ stage = "reviewed"
  /\ stage' = "idle" /\ plan' = NoPlan
  /\ UNCHANGED <<head, entries, files, shown, raced, steps>>

\* execute_discard plans again.
Check ==
  /\ stage = "reviewed"
  /\ IF plan \in Plans(plan.row)
       THEN stage' = "checked" /\ raced' = FALSE /\ UNCHANGED plan
       ELSE stage' = "idle" /\ plan' = NoPlan /\ UNCHANGED raced
  /\ UNCHANGED <<head, entries, files, shown, steps>>

\* git clean of one file, or git restore of a row's paths to index and files.
RunDiscard ==
  LET paths == RowPaths(plan.row)
      matched == Matched(paths, FilesOf(entries) \cup FilesOf(plan.head))
  IN /\ stage = "checked"
     /\ IF plan.row.untracked
          THEN /\ files' = [files EXCEPT ![plan.row.path] =
                             IF plan.row.path \in Untracked(entries, files) THEN Absent ELSE @]
               /\ UNCHANGED entries
          ELSE /\ entries' = Taken(matched, plan.head)
               /\ files' = Written(files, matched, plan.head)
     /\ stage' = "idle" /\ plan' = NoPlan /\ raced' = FALSE
     /\ UNCHANGED <<head, shown, steps>>

-----------------------------------------------------------------------------
(* Others.                                                                 *)

EditFile ==
  /\ files' \in Edits(files)
  /\ UNCHANGED <<head, entries>>

AddOutside ==
  /\ \E p \in Paths : entries' = Taken({p}, files)
  /\ entries' # entries
  /\ UNCHANGED <<head, files>>

CommitOutside ==
  /\ head # entries /\ head' = entries
  /\ UNCHANGED <<entries, files>>

Outside ==
  /\ Step
  /\ EditFile \/ AddOutside \/ CommitOutside
  /\ raced' = (raced \/ stage = "checked")
  /\ UNCHANGED <<shown, plan, stage>>

ChangesNext ==
  \/ Refresh
  \/ StageRows \/ UnstageRows \/ StageAll \/ UnstageAll \/ CommitStaged
  \/ ReviewDiscard \/ Cancel \/ Check \/ RunDiscard
  \/ Outside

ChangesSpec == ChangesInit /\ [][ChangesNext]_changesVars

-----------------------------------------------------------------------------
(***************************************************************************)
(* Types: no file lies below another in any tree, no path has two tracked  *)
(* rows, and a discard is checked only when one is reviewed.               *)
(***************************************************************************)
ChangesTypeOK ==
  /\ \A t \in {head, entries, files} :
       t \in [Paths -> Texts \cup {Absent}] /\ WellFormed(t)
  /\ \A row, other \in Rows : row # other /\ ~row.untracked /\ ~other.untracked =>
       RowPaths(row) \cap RowPaths(other) = {}
  /\ stage \in {"idle", "reviewed", "checked"}
  /\ (plan = NoPlan) <=> (stage = "idle")

\* What was unstaged from rows that are still right is as in the last commit.
UnstagedLeave ==
    UnstageRows =>
      \A rows \in Chosen("staged") :
        rows \subseteq Rows /\ entries' = Restored(PathsOf(rows)) =>
          \A row \in rows : {row.path, row.original} \cap Staged(head, entries') = {}

\* A discard changes no other file, and no entry of one but above its paths;
\* what it overwrites is its file as it was reviewed.
DiscardsReviewed ==
    (stage = "checked" /\ stage' = "idle" /\ ~raced) =>
        LET paths == RowPaths(plan.row)
            above == {q \in Paths : \E p \in paths : IsStrictPrefix(q, p)}
        IN  /\ \A p \in Changes(files, files') :
                  /\ p \in paths
                  /\ plan.working[p] = files[p]
                  /\ p \in FilesOf(files) => (plan.row.untracked <=> p \notin FilesOf(entries))
            /\ Changes(entries, entries') \subseteq paths \cup above

\* Its paths are then those of the last commit, the index included.
DiscardMatchesHead ==
    (stage = "checked" /\ stage' = "idle" /\ ~raced /\ ~plan.row.untracked) =>
        /\ entries[plan.row.path] = plan.row.index
        /\ \A p \in RowPaths(plan.row) : entries'[p] = head[p] /\ files'[p] = head[p]

OthersStay ==
    (stage = "checked" /\ stage' = "idle" /\ ~raced) =>
        \A p \in Paths \ RowPaths(plan.row) : entries'[p] = entries[p]

(***************************************************************************)
(* A discard writes, creates and removes no file but its own, and of that  *)
(* only what was there when it was reviewed, also where files and          *)
(* directories replaced one another; no untracked file that has taken a    *)
(* tracked file's place.  It stages and unstages nothing else, but what is *)
(* staged as a file above its path (see OtherRowsStay).  What it wrote is  *)
(* the last commit's; and unstaging rows leaves nothing of them staged,    *)
(* halves of renames included (discard.rs, work.rs).                       *)
(***************************************************************************)
OnlyReviewedIsDiscarded ==
    [][ /\ ChangesTypeOK /\ DiscardsReviewed /\ DiscardMatchesHead
        /\ UnstagedLeave ]_changesVars

(***************************************************************************)
(* A discard changes no other row (discard.rs: "Refuse file/tree           *)
(* transitions whose restore would also change rows outside the reviewed   *)
(* file or rename").  It does: restoring a/b replaces a staged file a.     *)
(***************************************************************************)
OtherRowsStay == [][OthersStay]_changesVars

=============================================================================
