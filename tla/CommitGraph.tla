----------------------------- MODULE CommitGraph -----------------------------
(***************************************************************************)
(* The traversal that git lists of captured tips: every commit reachable   *)
(* from them, once, a commit before its parents.  A commit is a number     *)
(* greater than its parents'.                                              *)
(***************************************************************************)
EXTENDS Naturals, SequencesExt

\* The commits reachable from each commit of a graph of parents.
Ancestry(parents) ==
    [c \in DOMAIN parents |->
        LET reach[d \in DOMAIN parents] == {d} \cup UNION {reach[p] : p \in parents[d]}
        IN  reach[c]]

Listings(parents, scopes) ==
    LET reachable == Ancestry(parents)
    IN  [scope \in scopes |->
            SetToSortSeq(UNION {reachable[c] : c \in scope}, LAMBDA a, b : a > b)]
=============================================================================
