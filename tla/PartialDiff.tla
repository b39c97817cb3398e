----------------------------- MODULE PartialDiff -----------------------------
(***************************************************************************)
(* Staging a file piece by piece (crates/git-core/src/work.rs): the        *)
(* preview of one side pair aligns their lines (PartialDiff::new), groups  *)
(* the changed lines into hunks, and selected_contents turns a selection   *)
(* of lines or hunks into the bytes the index will hold.                   *)
(*                                                                         *)
(* A line is [text, ended]: split_inclusive keeps the newline with the     *)
(* line, so only the last line of a file can lack it, and a line with and  *)
(* a line without it differ.  A side is [present, lines]; an absent file   *)
(* has no lines.  The index is changed here by this component only: the    *)
(* lock and the snapshot that make this so are the subject of              *)
(* PartialStaging.                                                         *)
(***************************************************************************)
EXTENDS Integers, Sequences, FiniteSets, SequencesExt, TLC

CONSTANTS
  Texts,        \* what a line can say
  MaxLines,     \* bound: lines of a side written by the user
  MaxChanges,   \* bound: changed lines of a preview that is selected from
  Context       \* lines of context around a change (3 in the code)

PartialDiffAssumption ==
  /\ MaxLines \in Nat \ {0}
  /\ MaxChanges \in Nat \ {0}
  /\ Context \in Nat

VARIABLES
  head,         \* the file in the current commit
  index,        \* the file in the index
  work,         \* the file in the working copy
  shown         \* the PartialDiff of the selected row, or NoDiff

vars == <<head, index, work, shown>>

Lines == [text : Texts, ended : BOOLEAN]

WholeLines(lines) == \A i \in 1..Len(lines) - 1 : lines[i].ended

Absent == [present |-> FALSE, lines |-> <<>>]

WrittenSides ==
  {Absent} \cup
    {[present |-> TRUE, lines |-> l] :
       l \in {s \in BoundedSeq(Lines, MaxLines) : WholeLines(s)}}

NoDiff == [area |-> "none"]

-----------------------------------------------------------------------------
(* PartialDiff::new: the alignment and its hunks.                          *)

\* What similar's patience diff may answer: any alignment of the two sides in
\* which a replaced range lists its deletions before its additions.
Alignments(o, n) ==
  LET upTo[i \in 0..Len(o), j \in 0..Len(n)] ==
        IF i = 0 /\ j = 0 THEN {<<>>} ELSE
          (IF i > 0 /\ j > 0 /\ o[i] = n[j]
             THEN {Append(s, [kind |-> "context", old |-> i, new |-> j]) :
                     s \in upTo[i - 1, j - 1]}
             ELSE {})
          \cup (IF i > 0
                  THEN {Append(s, [kind |-> "deletion", old |-> i, new |-> 0]) :
                          s \in {t \in upTo[i - 1, j] :
                                   t = <<>> \/ Last(t).kind # "addition"}}
                  ELSE {})
          \cup (IF j > 0
                  THEN {Append(s, [kind |-> "addition", old |-> 0, new |-> j]) :
                          s \in upTo[i, j - 1]}
                  ELSE {})
  IN upTo[Len(o), Len(n)]

\* The places of the changed lines: a change id is a place here.
Changed(edits) == {i \in 1..Len(edits) : edits[i].kind # "context"}

\* The changed lines with their context, merged where they touch.
Ranges(edits) ==
  LET n == Len(edits)
      Around(i) == [first |-> IF i > Context THEN i - Context ELSE 1,
                    last |-> IF i + Context < n THEN i + Context ELSE n]
      Join(ranges, i) ==
        IF ranges # <<>> /\ Last(ranges).last + 1 >= Around(i).first
          THEN [ranges EXCEPT ![Len(ranges)].last = Around(i).last]
          ELSE Append(ranges, Around(i))
  IN FoldLeft(Join, <<>>, SetToSortSeq(Changed(edits), <))

OldLines(edits, from, to) == {i \in from..to : edits[i].old > 0}
NewLines(edits, from, to) == {i \in from..to : edits[i].new > 0}

\* The ranges with the numbers of their "@@ -a,b +c,d @@" header.
Hunks(edits) ==
  [h \in DOMAIN Ranges(edits) |->
     LET r == Ranges(edits)[h]
         olds == Cardinality(OldLines(edits, r.first, r.last))
         news == Cardinality(NewLines(edits, r.first, r.last))
         Start(before, count) == before + (IF count > 0 THEN 1 ELSE 0)
     IN [first |-> r.first, last |-> r.last,
         oldStart |-> Start(Cardinality(OldLines(edits, 1, r.first - 1)), olds),
         oldCount |-> olds,
         newStart |-> Start(Cardinality(NewLines(edits, 1, r.first - 1)), news),
         newCount |-> news]]

NewDiff(area, old, new, edits) ==
  [area |-> area, old |-> old, new |-> new, edits |-> edits,
   hunks |-> Hunks(edits)]

-----------------------------------------------------------------------------
(* selected_contents.                                                      *)

Refused == [present |-> FALSE, lines |-> <<>>, refused |-> TRUE]

Kept(diff, chosen) ==
  LET UseNew(i) == (diff.area = "unstaged") <=> (i \in chosen)
      Line(i) ==
        CASE diff.edits[i].kind = "context" -> <<diff.old.lines[diff.edits[i].old]>>
          [] diff.edits[i].kind = "deletion" /\ ~UseNew(i) ->
               <<diff.old.lines[diff.edits[i].old]>>
          [] diff.edits[i].kind = "addition" /\ UseNew(i) ->
               <<diff.new.lines[diff.edits[i].new]>>
          [] OTHER -> <<>>
  IN FlattenSeq([i \in 1..Len(diff.edits) |-> Line(i)])

Removes(diff, chosen) ==
  /\ chosen = Changed(diff.edits)
  /\ IF diff.area = "unstaged" THEN ~diff.new.present ELSE ~diff.old.present

\* Mutant: a part of the changes is taken for the part left out.
SelectedSplit(diff, chosen) ==
  IF chosen = {} \/ ~WholeLines(Kept(diff, chosen)) THEN Refused
  ELSE [present |-> ~Removes(diff, chosen),
        lines |-> IF chosen = Changed(diff.edits) THEN Kept(diff, chosen)
                  ELSE Kept(diff, Changed(diff.edits) \ chosen),
        refused |-> FALSE]

\* The file with the chosen changes staged (or unstaged), or a refusal: of an
\* empty selection and of one that would join two lines.
SelectedContents(diff, chosen) ==
  IF chosen = {} \/ ~WholeLines(Kept(diff, chosen)) THEN Refused
  ELSE [present |-> ~Removes(diff, chosen),
        lines |-> Kept(diff, chosen), refused |-> FALSE]

\* PartialSelection::Hunks names every change of each hunk.
OfHunks(diff, hunks) ==
  UNION {Changed(diff.edits) \cap (diff.hunks[h].first..diff.hunks[h].last) :
           h \in hunks}

-----------------------------------------------------------------------------
Init ==
  /\ head \in WrittenSides
  /\ index = head
  /\ work \in WrittenSides
  /\ shown = NoDiff

\* worktree_preview and partial_diff of the Unstaged or the Staged row: there
\* is one only where the sides differ, and it is offered only when some text
\* does.
Preview(area) ==
  LET old == IF area = "unstaged" THEN index ELSE head
      new == IF area = "unstaged" THEN work ELSE index
  IN /\ shown = NoDiff
     /\ old # new
     /\ \E edits \in Alignments(old.lines, new.lines) :
          /\ Cardinality(Changed(edits)) \in 1..MaxChanges
          /\ shown' = NewDiff(area, old, new, edits)
     /\ UNCHANGED <<head, index, work>>

\* apply_partial of a selection, as its index snapshot is unchanged: the
\* staged entry becomes the selected contents and the preview is read again.
Apply(chosen) ==
  /\ shown # NoDiff
  /\ LET selected == SelectedContents(shown, chosen)
     IN index' = IF selected.refused THEN index
                 ELSE [present |-> selected.present, lines |-> selected.lines]
  /\ shown' = NoDiff
  /\ UNCHANGED <<head, work>>

ApplyLines == shown # NoDiff /\ \E ids \in SUBSET Changed(shown.edits) : Apply(ids)

ApplyHunks ==
  /\ shown # NoDiff
  /\ \E hunks \in SUBSET DOMAIN shown.hunks : Apply(OfHunks(shown, hunks))

Next == \/ \E area \in {"unstaged", "staged"} : Preview(area)
        \/ ApplyLines
        \/ ApplyHunks

Spec == Init /\ [][Next]_vars

-----------------------------------------------------------------------------
(***************************************************************************)
(* Types: the index may grow past the sides a user writes, and a preview   *)
(* that can be selected from has something to select.                      *)
(***************************************************************************)
Sides == [present : BOOLEAN, lines : Seq(Lines)]

TypeOK ==
  /\ head \in WrittenSides /\ work \in WrittenSides
  /\ index \in Sides
  /\ shown.area \in {"none", "unstaged", "staged"}
  /\ shown # NoDiff =>
       /\ shown.old \in Sides /\ shown.new \in Sides
       /\ \A i \in 1..Len(shown.edits) :
            shown.edits[i].kind \in {"context", "addition", "deletion"}
       /\ Changed(shown.edits) # {}

(***************************************************************************)
(* No selection ever joins two lines or leaves lines in an entry that is   *)
(* gone: whatever sequence of partial stagings and unstagings was          *)
(* accepted, the staged file is made of whole lines (the ensure of         *)
(* selected_contents on a result that does not end in a newline).          *)
(***************************************************************************)
NoLineIsJoined ==
  /\ WholeLines(index.lines)
  /\ index.present \/ index.lines = <<>>

(***************************************************************************)
(* The fewest line insertions and deletions that turn one side into the    *)
(* other: the reference against which a selection is measured.             *)
(***************************************************************************)
Distance(a, b) ==
  LET Least(x, y) == IF x < y THEN x ELSE y
      d[i \in 0..Len(a), j \in 0..Len(b)] ==
        IF i = 0 THEN j ELSE IF j = 0 THEN i
        ELSE IF a[i] = b[j] THEN d[i - 1, j - 1]
        ELSE 1 + Least(d[i - 1, j], d[i, j - 1])
  IN d[Len(a), Len(b)]

(***************************************************************************)
(* A selection moves the index by what was chosen and leaves exactly the   *)
(* rest: no more changes between the old and the new staged file than      *)
(* lines chosen, and no more between it and the other side than lines left *)
(* out.  Staging goes toward the working file, unstaging toward the        *)
(* commit.                                                                 *)
(***************************************************************************)
SelectionIsExact ==
  shown # NoDiff =>
    LET target == IF shown.area = "unstaged" THEN work ELSE head
        all == Changed(shown.edits)
    IN \A ids \in SUBSET all :
         LET selected == SelectedContents(shown, ids)
         IN ~selected.refused =>
              /\ Distance(index.lines, selected.lines) <= Cardinality(ids)
              /\ Distance(selected.lines, target.lines) <= Cardinality(all \ ids)

(***************************************************************************)
(* Choosing every change of a preview brings the index to the other side   *)
(* exactly, the presence of the file included: a deletion removes the      *)
(* entry, an added file is taken out again, an emptied file stays.         *)
(***************************************************************************)
AllIsTheOtherSide ==
  shown # NoDiff =>
    LET selected == SelectedContents(shown, Changed(shown.edits))
        target == IF shown.area = "unstaged" THEN work ELSE head
    IN /\ ~selected.refused
       /\ [present |-> selected.present, lines |-> selected.lines] = target

(***************************************************************************)
(* The hunks offer every changed line once: hunks are in order and share   *)
(* no line, each change lies in one, and the header names the numbers its  *)
(* first lines really have, so that a hunk chosen by index is the hunk the *)
(* user read.                                                              *)
(***************************************************************************)
HunksAreExact ==
  shown # NoDiff =>
    LET hunks == shown.hunks
        edits == shown.edits
    IN /\ \A i \in Changed(edits) :
            Cardinality({h \in DOMAIN hunks :
                           i \in hunks[h].first..hunks[h].last}) = 1
       /\ \A h \in 1..Len(hunks) - 1 : hunks[h].last < hunks[h + 1].first
       /\ \A h \in DOMAIN hunks :
            /\ \A i \in OldLines(edits, hunks[h].first, hunks[h].last) :
                 edits[i].old \in hunks[h].oldStart
                                    ..hunks[h].oldStart + hunks[h].oldCount - 1
            /\ \A i \in NewLines(edits, hunks[h].first, hunks[h].last) :
                 edits[i].new \in hunks[h].newStart
                                    ..hunks[h].newStart + hunks[h].newCount - 1
=============================================================================
