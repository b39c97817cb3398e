------------------------------ MODULE MCStores ------------------------------
(***************************************************************************)
(* What is written to a disk that others read and write too: the files of  *)
(* the program, its preferences, profiles and activity log, and what is    *)
(* selected for the index of a repository.  The parts share no state: a    *)
(* behaviour is one of a single part, and the others rest.                 *)
(***************************************************************************)
EXTENDS AtomicFile, ActivityLog, PreferencesStore, Profiles

CONSTANTS a, b     \* texts

VARIABLES
  part,
  head, staged, worktree, shown

diffVars == <<head, staged, worktree, shown>>
storesVars == <<part, vars, preferencesVars, profilesVars, diffVars, logVars>>

\* Files of an earlier version with too many recent projects, of this version
\* with an emptied project list, and full of names.
Earlier ==
  LET stored == [version |-> 6, recents |-> <<>>, settings |-> Default, library |-> {},
                 names |-> [p \in Projects |-> NoText],
                 drafts |-> [p \in Projects |-> NoText], themes |-> {}]
  IN { [stored EXCEPT !.version = 4, !.recents = <<"p1", "p2", "p3">>, !.settings = "dark"],
       [stored EXCEPT !.recents = <<"p1">>, !.drafts["p2"] = "text"],
       [stored EXCEPT !.names = [p \in Projects |-> "text"]],
       [stored EXCEPT !.names["p1"] = "text", !.names["p2"] = "text", !.themes = {"t1"}] }

\* Files of two lines that say two things, and of five that say one.
Lines == INSTANCE PartialDiff WITH
  index <- staged, work <- worktree,
  Texts <- {a, b}, MaxLines <- 2, MaxChanges <- 4, Context <- 0

Hunks == INSTANCE PartialDiff WITH
  index <- staged, work <- worktree,
  Texts <- {a}, MaxLines <- 5, MaxChanges <- 3, Context <- 1

\* What each module assumes of its constants.
ASSUME InstancesAreSound ==
  /\ AtomicFileAssumption /\ ContentsAssumption
  /\ StoreAssumption
  /\ ProfilesAssumption /\ NothingAssumption /\ LeftAssumption
  /\ Lines!PartialDiffAssumption
  /\ Hunks!PartialDiffAssumption
  /\ ActivityLogAssumption

\* Two programs share two profiles; they apply one; and one of them applies it
\* while it is edited.
NoWork ==
  /\ profiles.defs["work"] = Nothing
  /\ \A p \in Programs : ui[p].dialog.kind = "form" => ui[p].dialog.id # "work"

StoresInit ==
  /\ part \in {"files", "preferences", "defining", "applying", "assigning", "lines", "hunks",
              "log"}
  /\ Init
  /\ StoreInit
  /\ part # "preferences" => preferences = NoStore
  /\ ProfilesInit
  /\ part # "defining" => NoWork
  /\ config = "ann"     \* the identities may be swapped
  /\ part \notin {"defining", "applying", "assigning"} => profiles.defs["home"] = Nothing
  /\ part = "defining" => profiles.defs["home"] # "bob"     \* as above
  /\ CASE part = "lines" -> Lines!Init
       [] part = "hunks" -> Hunks!Init
       [] OTHER -> /\ head = Lines!Absent /\ staged = head /\ worktree = head
                   /\ shown = Lines!NoDiff
  /\ LogInit
  /\ IF part = "log" THEN disk # File(<<>>) ELSE disk = Absent     \* none is as an empty one

StoresNext ==
  /\ UNCHANGED part
  /\ \/ /\ ProfilesNext
        /\ \/ part = "defining" /\ applies' = 0 /\ outside' = 0
           \/ part = "applying" /\ edits' = 0 /\ NoWork'
           \/ part = "assigning" /\ edits' <= 1 /\ applies' <= 1 /\ NoWork'
        /\ UNCHANGED <<vars, preferencesVars, diffVars, logVars>>
     \/ /\ part = "files" /\ Next
        /\ UNCHANGED <<preferencesVars, profilesVars, diffVars, logVars>>
     \/ /\ part = "preferences" /\ StoreNext
        /\ UNCHANGED <<vars, profilesVars, diffVars, logVars>>
     \/ /\ \/ part = "lines" /\ Lines!Next
           \/ part = "hunks" /\ Hunks!Next
        /\ UNCHANGED <<vars, preferencesVars, profilesVars, logVars>>
     \/ /\ part = "log" /\ LogNext
        /\ op'.kind = "create" => ops' = 1     \* the first operation may be a clone
        /\ Len(saves') <= 2
        /\ UNCHANGED <<vars, preferencesVars, profilesVars, diffVars>>

StoresSpec == StoresInit /\ [][StoresNext]_storesVars

-----------------------------------------------------------------------------
\* What a selection of lines or hunks makes of a file is what it says: no line is
\* joined to another, all of it is the other side, and nothing else changes
\* (selected_contents, hunks).
SelectionIsExact ==
  /\ part = "lines" => /\ Lines!TypeOK /\ Lines!NoLineIsJoined /\ Lines!AllIsTheOtherSide
                       /\ Lines!SelectionIsExact
  /\ part = "hunks" => Hunks!TypeOK /\ Hunks!HunksAreExact
=============================================================================
