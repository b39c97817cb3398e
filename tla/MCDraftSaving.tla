---------------------------- MODULE MCDraftSaving ----------------------------
(* Small instance of DraftSaving: two drafts, a channel of two jobs.         *)
EXTENDS DraftSaving, TLC

CONSTANTS k1, k2

MCKinds == {"save", "write", "read"}
MCReadKinds == {"read"}
MCKeys == {k1, k2}
MCMaxEdits == (k1 :> 2) @@ (k2 :> 1)
=============================================================================
