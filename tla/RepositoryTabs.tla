--------------------------- MODULE RepositoryTabs ---------------------------
(***************************************************************************)
(* crates/app/src/repository_tabs.rs with open, request and receive of      *)
(* main.rs: which repositories are open in tabs, which of them is live,     *)
(* what its foreground read in flight is, and which tabs the saved session  *)
(* names.  All of it is state of the one GitTurtle view; the reader is a    *)
(* worker that answers later.                                               *)
(*                                                                          *)
(* A refusal that only reports (too many tabs, too many retained bytes, a   *)
(* dialog in front of what the user does) changes nothing here.  What a tab *)
(* shows inside its repository is one list read; a bookmark is present or   *)
(* not.                                                                     *)
(***************************************************************************)
EXTENDS Naturals, Sequences, SequencesExt

CONSTANTS
    Repositories,  \* canonical paths of repositories
    Aliases,       \* other paths, such as a directory inside a repository
    MaxTabs,       \* MAX_TABS, 8 in the code
    MaxGroup,      \* bound on the repositories of a group of the library
    None

Paths == Repositories \cup Aliases

ASSUME PathsAssumption == Repositories # {} /\ Repositories \cap Aliases = {} /\ None \notin Paths
ASSUME MaxTabsAssumption == MaxTabs \in Nat \ {0} /\ MaxGroup \in Nat

VARIABLES
    app,      \* the fields of the view
    session,  \* paths of the tabs in the session last queued for the disk
    busy      \* the operation that runs

vars == <<app, session, busy>>

Tabs == [path : Paths, warm : Repositories \cup {None}, bookmarked : BOOLEAN, error : BOOLEAN]

ColdTab(p, bookmarked) == [path |-> p, warm |-> None, bookmarked |-> bookmarked, error |-> FALSE]

NoOperation == [kind |-> "none", path |-> None, from |-> None]
Operations == [kind : {"write", "create"}, path : Repositories, from : Paths \cup {None}]

NoRead == [kind |-> "none", path |-> None]
OpenRead(p) == [kind |-> "open", path |-> p]
ListRead(p) == [kind |-> "list", path |-> p]

Reads == {NoRead} \cup {OpenRead(p) : p \in Paths} \cup {ListRead(p) : p \in Paths}

Views == [tabs : Seq(Tabs), active : Nat, repository : Repositories \cup {None},
          path : Paths \cup {None}, read : Reads, restoring : BOOLEAN, saveDue : BOOLEAN]

TypeOK ==
    /\ app \in Views
    /\ Len(app.tabs) <= MaxTabs /\ app.active \in 0 .. Len(app.tabs)
    /\ session \in Seq(Paths) /\ Len(session) <= MaxTabs
    /\ busy \in {NoOperation} \cup Operations

PathsOf(tabs) == [i \in DOMAIN tabs |-> tabs[i].path]

\* State::find: 0 when no tab has the path.
Find(tabs, p) == SelectInSeq(tabs, LAMBDA tab : tab.path = p)

-----------------------------------------------------------------------------
(* What the methods do to the view *)

\* retain_active_tab: the live repository becomes a warm tab, and its reads end.
\* Without one there is nothing to retain, and the method returns at once.
Retained(s) ==
    IF s.repository = None
    THEN s
    ELSE [s EXCEPT !.tabs[Find(s.tabs, s.repository)] =
                       [@ EXCEPT !.warm = s.repository, !.bookmarked = TRUE],
                   !.read = NoRead,
                   !.repository = None,
                   !.path = None]

\* The rest of open, once the tab is there.
Opening(s, p) ==
    [s EXCEPT !.repository = IF s.path = p THEN @ ELSE None,
              !.path = p,
              !.read = OpenRead(p)]

\* restore_warm_tab
Restored(s, i) ==
    [s EXCEPT !.active = i,
              !.repository = s.tabs[i].warm,
              !.path = s.tabs[i].warm,
              !.tabs[i].warm = None]

\* The cold branch of switch_repository_tab.
Reopened(s, i) ==
    Opening([s EXCEPT !.active = i, !.restoring = s.tabs[i].bookmarked], s.tabs[i].path)

IsLive(s, i) == s.active = i /\ s.repository = s.tabs[i].path

\* switch_repository_tab
Switched(s, i) ==
    IF IsLive(s, i)
    THEN s
    ELSE LET r == Retained(s)
             t == IF r.tabs[i].warm # None THEN Restored(r, i) ELSE Reopened(r, i)
         IN  [t EXCEPT !.saveDue = TRUE]

\* The new tab of tab_open_requested.
NewTab(s, p) ==
    LET r == Retained(s)
    IN  Opening([r EXCEPT !.tabs = Append(@, ColdTab(p, FALSE)),
                          !.active = Len(r.tabs) + 1,
                          !.restoring = FALSE], p)

\* tab_snapshot_accepted finds the repository in a tab that is not active:
\* the active tab, opened under another name, goes, and that tab is shown,
\* unless a dialog is in front at that time.
Redirected(s, existing) ==
    LET without == IF s.active = 0 THEN s.tabs ELSE RemoveAt(s.tabs, s.active)
        shown == IF s.active # 0 /\ s.active < existing THEN existing - 1 ELSE existing
        t == [s EXCEPT !.tabs = without, !.active = 0, !.path = None, !.repository = None]
    IN  {t, Switched(t, shown)}

\* tab_snapshot_accepted and receive install the snapshot in the active tab.
Installed(s, repo) ==
    LET named == IF s.active = 0
                 THEN s
                 ELSE [s EXCEPT !.tabs[s.active] = [@ EXCEPT !.path = repo, !.error = FALSE]]
    IN  [named EXCEPT !.repository = repo,
                      !.path = repo,
                      !.saveDue = @ \/ ~s.restoring]

\* Mutant: the path the user gave is not recognised in another tab.
AcceptedInPlace(s, repo) == {Installed([s EXCEPT !.read = NoRead], repo)}

Accepted(s, repo) ==
    LET t == [s EXCEPT !.read = NoRead]
        existing == Find(t.tabs, repo)
    IN  IF existing \notin {0, t.active} THEN Redirected(t, existing) ELSE {Installed(t, repo)}

\* The error branch of request.
Failed(s) ==
    IF s.active = 0
    THEN [s EXCEPT !.read = NoRead]
    ELSE [s EXCEPT !.read = NoRead, !.tabs[s.active].error = TRUE]

-----------------------------------------------------------------------------

\* from_session, and the opening of the active tab that follows it.
Launched(tabs, active) ==
    LET s == [tabs |-> tabs, active |-> 0, repository |-> None, path |-> None,
              read |-> NoRead, restoring |-> FALSE, saveDue |-> FALSE]
    IN  IF tabs = <<>> THEN s ELSE Switched([s EXCEPT !.active = active], active)

Groups == {group \in SeqOf(Paths, MaxGroup) : group # <<>> /\ IsInjective(group)}

Sessions == {tabs \in SeqOf({ColdTab(p, TRUE) : p \in Paths}, MaxTabs) :
                IsInjective(PathsOf(tabs))}

Init ==
    /\ \E tabs \in Sessions :
         /\ \E active \in DOMAIN tabs \cup {0} :
              /\ tabs # <<>> => active # 0
              /\ app = Launched(tabs, active)
         /\ session = PathsOf(tabs)
    /\ busy = NoOperation

\* open: a path that has a tab switches to it.
Opens(p) ==
    IF Find(app.tabs, p) # 0
    THEN app' = Switched(app, Find(app.tabs, p))
    ELSE Len(app.tabs) < MaxTabs /\ app' = NewTab(app, p)

\* open_repository_tab, and open from the project page.
OpenPath(p) ==
    /\ Opens(p)
    /\ UNCHANGED <<session, busy>>

\* The paths of a group that have no tab, in its order.
IsMissing(new, group) ==
    /\ ToSet(new) = {p \in ToSet(group) : Find(app.tabs, p) = 0}
    /\ \A i, j \in DOMAIN new : i < j =>
          \E k, l \in DOMAIN group : k < l /\ group[k] = new[i] /\ group[l] = new[j]

\* open_repository_group: its repositories get tabs, and the first is shown.
OpenGroup(group) ==
    \E new \in SeqOf(Paths, MaxGroup) :
        LET s == [app EXCEPT !.tabs = @ \o [i \in DOMAIN new |-> ColdTab(new[i], FALSE)],
                             !.saveDue = TRUE]
        IN  /\ IsMissing(new, group)
            /\ Len(s.tabs) <= MaxTabs
            /\ app' = Switched(s, Find(s.tabs, Head(group)))
            /\ UNCHANGED <<session, busy>>

SwitchTab(i) ==
    /\ app' = Switched(app, i)
    /\ UNCHANGED <<session, busy>>

\* refresh outside Working: open with the path on screen, which leads a tab
\* without its repository through a switch.
Refresh ==
    /\ app.path # None
    /\ Find(app.tabs, app.path) # 0
    /\ LET i == Find(app.tabs, app.path)
       IN  app' = IF IsLive(app, i) THEN Opening(app, app.path) ELSE Switched(app, i)
    /\ UNCHANGED <<session, busy>>

\* A selection in the live repository reads its files.
Select ==
    /\ app.repository # None
    /\ app' = [app EXCEPT !.read = ListRead(app.repository)]
    /\ UNCHANGED <<session, busy>>

\* The worker answers the open with the repository the path lies in.  Then the
\* selection is read; a bookmark being restored may also hold a comparison to
\* show, or name a selection that is gone.
OpenReply ==
    /\ app.read.kind = "open"
    /\ \E repo \in IF app.read.path \in Repositories THEN {app.read.path} ELSE Repositories :
       \E s \in Accepted(app, repo) :
            app' \in IF s.read # NoRead \/ s.repository = None
                      THEN {s}
                      ELSE {[s EXCEPT !.read = ListRead(s.repository)],
                            [s EXCEPT !.read = ListRead(s.repository), !.restoring = FALSE],
                            [s EXCEPT !.restoring = FALSE]}
    /\ UNCHANGED <<session, busy>>

\* restore_tab_file, when the read was part of a restoration.
ListReply ==
    /\ app.read.kind = "list"
    /\ app' = [app EXCEPT !.read = NoRead,
                          !.restoring = FALSE,
                          !.saveDue = @ \/ app.restoring]
    /\ UNCHANGED <<session, busy>>

ReadFails ==
    /\ app.read # NoRead
    /\ app' = Failed(app)
    /\ UNCHANGED <<session, busy>>

\* Mutant: the close is saved with the next change.
AfterCloseUnsaved(s, i) ==
    [s EXCEPT !.tabs = RemoveAt(@, i), !.active = IF @ > i THEN @ - 1 ELSE @]

\* A tab that is not active goes.
AfterClose(s, i) ==
    [s EXCEPT !.tabs = RemoveAt(@, i),
              !.active = IF @ > i THEN @ - 1 ELSE @,
              !.saveDue = TRUE]

\* The active tab goes, and its neighbour is shown.
AfterCloseActive(s, i) ==
    LET t == [s EXCEPT !.tabs = RemoveAt(@, i), !.active = 0,
                       !.read = NoRead, !.repository = None, !.path = None, !.saveDue = TRUE]
    IN  IF t.tabs = <<>> THEN t
        ELSE Switched(t, IF i <= Len(t.tabs) THEN i ELSE Len(t.tabs))

\* close_repository_tab, refused while an operation runs in it.
CloseTab(i) ==
    /\ busy.path # app.tabs[i].path
    /\ app' = IF app.active = i THEN AfterCloseActive(app, i) ELSE AfterClose(app, i)
    /\ UNCHANGED <<session, busy>>

\* move_repository_tab exchanges the active tab with a neighbour; at either end
\* it only saves the session.
MoveTab(next) ==
    /\ app.active # 0
    /\ next \in (app.active - 1 .. app.active + 1) \cap DOMAIN app.tabs
    /\ app' = [app EXCEPT !.tabs[app.active] = app.tabs[next],
                          !.tabs[next] = app.tabs[app.active],
                          !.active = next,
                          !.saveDue = TRUE]
    /\ UNCHANGED <<session, busy>>

\* The timer of save_repository_session: session_snapshot, which renews the
\* bookmark of a live tab, goes to the saver.
SaveSession ==
    /\ app.saveDue
    /\ session' = PathsOf(app.tabs)
    /\ app' = IF app.active # 0 /\ app.repository # None
              THEN [app EXCEPT !.saveDue = FALSE, !.tabs[app.active].bookmarked = TRUE]
              ELSE [app EXCEPT !.saveDue = FALSE]
    /\ UNCHANGED busy

BeginWrite ==
    /\ busy = NoOperation
    /\ app.repository # None
    /\ busy' = [kind |-> "write", path |-> app.repository, from |-> app.path]
    /\ UNCHANGED <<app, session>>

EndWrite ==
    /\ busy.kind = "write"
    /\ busy' = NoOperation
    /\ UNCHANGED <<app, session>>

\* create_project: clone or create a repository.
BeginCreate(repo) ==
    /\ busy = NoOperation
    /\ Find(app.tabs, repo) = 0
    /\ busy' = [kind |-> "create", path |-> repo, from |-> app.path]
    /\ UNCHANGED <<app, session>>

\* It failed, and only reports.
CreateFails ==
    /\ busy.kind = "create"
    /\ busy' = NoOperation
    /\ UNCHANGED <<app, session>>

\* The user waited for it: the new repository is opened.
CreateOpens ==
    /\ busy.kind = "create"
    /\ app.path = busy.from
    /\ Opens(busy.path)
    /\ busy' = NoOperation
    /\ UNCHANGED session

\* register_completed_repository: the user went to another repository or page.
CreateRegisters ==
    /\ busy.kind = "create"
    /\ app' = IF Find(app.tabs, busy.path) = 0 /\ Len(app.tabs) < MaxTabs
              THEN [app EXCEPT !.tabs = Append(@, ColdTab(busy.path, FALSE)), !.saveDue = TRUE]
              ELSE [app EXCEPT !.saveDue = TRUE]
    /\ busy' = NoOperation
    /\ UNCHANGED session

Next ==
    \/ \E p \in Paths : OpenPath(p)
    \/ \E group \in Groups : OpenGroup(group)
    \/ \E i \in DOMAIN app.tabs : SwitchTab(i) \/ CloseTab(i) \/ MoveTab(i)
    \/ Refresh \/ Select
    \/ OpenReply \/ ListReply \/ ReadFails
    \/ SaveSession
    \/ BeginWrite \/ EndWrite
    \/ \E repo \in Repositories : BeginCreate(repo)
    \/ CreateFails \/ CreateOpens \/ CreateRegisters

Spec == Init /\ [][Next]_vars

-----------------------------------------------------------------------------

(***************************************************************************)
(* No two tabs hold the same path, however a repository was named when it   *)
(* was opened: each repository has one live or warm state.                  *)
(***************************************************************************)
NoDuplicateTabs == IsInjective(PathsOf(app.tabs))

(***************************************************************************)
(* The live repository is the one of the active tab, which then has no      *)
(* retained state of its own; and a warm tab retains the repository it is   *)
(* labelled with.                                                           *)
(***************************************************************************)
LiveIsActive ==
    /\ app.repository # None =>
         /\ app.active # 0
         /\ app.tabs[app.active].path = app.repository
         /\ app.tabs[app.active].warm = None
         /\ app.path = app.repository
    /\ \A i \in DOMAIN app.tabs : app.tabs[i].warm \in {None, app.tabs[i].path}

(***************************************************************************)
(* A tab never stays blank without a reason: the active tab has its         *)
(* repository, or its opening is in flight, or it shows why that failed.    *)
(***************************************************************************)
BlankTabIsExplained ==
    app.active # 0 /\ app.repository = None =>
        app.read = OpenRead(app.tabs[app.active].path) \/ app.tabs[app.active].error

(***************************************************************************)
(* The tabs tell the truth about what is open, whatever replies, dialogs    *)
(* and redirects came in between.                                           *)
(***************************************************************************)
TabsAgree == TypeOK /\ NoDuplicateTabs /\ LiveIsActive /\ BlankTabIsExplained

(***************************************************************************)
(* A tab that went, closed by the user or found to be another name of a     *)
(* repository that is open, does not come back with the next start: the     *)
(* saved session holds no more tabs than are open unless a save is due.     *)
(* Only with a tab in front: a redirect takes the other name's tab away     *)
(* before it switches, and when a dialog refuses the switch no tab is in    *)
(* front and nothing is saved until one is (repository_tabs.rs:1109-1145).  *)
(***************************************************************************)
SessionForgetsTabs == app.active # 0 /\ Len(session) > Len(app.tabs) => app.saveDue

=============================================================================
