-------------------------- MODULE PreferencesStore --------------------------
(***************************************************************************)
(* preferences.json (preferences.rs): one file that holds the recent       *)
(* projects, the settings, the commit drafts, the project names, the       *)
(* project list and the custom themes.  Each writer replaces one section:  *)
(* it runs on the serialized preference executor, reads the file again,    *)
(* puts its section in place and replaces the file as a whole, which       *)
(* AtomicFile describes step by step.  A file that is refused (written by  *)
(* a newer program, or with a section that is out of bounds) is shown as   *)
(* defaults and is never written over.  The program may be killed at any   *)
(* step and started again; the file may come from an earlier version.      *)
(***************************************************************************)
EXTENDS Naturals, Sequences, FiniteSets, SequencesExt

CONSTANTS
    Projects,         \* canonical paths of projects
    Settings,         \* settings as a whole
    Texts,            \* drafts and names
    Themes,           \* custom themes
    MaxRecent,        \* MAX_RECENT, 10 in the code
    MaxProjectNames,  \* MAX_PROJECT_NAMES, 128 in the code
    MaxThemes,        \* MAX_CUSTOM_THEMES, 32 in the code
    MaxQueue,         \* bound of the checks: saves that wait
    MaxSaves,         \* bound of the checks: saves the user asks for
    EarlierFiles,     \* contents an earlier program may have left
    NoText,           \* no draft, no name
    Default           \* AppSettings::default

\* The sections of a file.
StoredPreferences ==
    [version : Nat, recents : Seq(Projects), settings : Settings, library : SUBSET Projects,
     names : [Projects -> Texts \cup {NoText}], drafts : [Projects -> Texts \cup {NoText}],
     themes : SUBSET Themes]

StoreAssumption ==
    /\ MaxRecent \in Nat \ {0} /\ MaxProjectNames \in Nat /\ MaxThemes \in Nat
    /\ MaxQueue \in Nat \ {0} /\ MaxSaves \in Nat
    /\ NoText \notin Texts /\ Default \in Settings
    /\ IsFiniteSet(Projects) /\ IsFiniteSet(Themes)
    /\ \A content \in EarlierFiles :    \* load_from drops the repeated ones
          content \in StoredPreferences /\ IsInjective(content.recents)

StoreVersion == 6     \* STORE_VERSION
ListVersion == 5      \* the first version with a project list

VARIABLES
    preferences,  \* the file: [kind |-> "absent" | "refused" | "store", ...]
    queue,        \* saves accepted by the preference executor
    job,          \* the save it runs
    asked         \* saves the user asked for

preferencesVars == <<preferences, queue, job, asked>>

Empty == [version |-> StoreVersion, recents |-> <<>>, settings |-> Default,
          library |-> {}, names |-> [p \in Projects |-> NoText],
          drafts |-> [p \in Projects |-> NoText], themes |-> {}]

Store(content) == [kind |-> "store", content |-> content]
NoStore == [kind |-> "absent", content |-> Empty]
RefusedStore == [kind |-> "refused", content |-> Empty]

FirstOf(seq, n) == SubSeq(seq, 1, IF Len(seq) < n THEN Len(seq) ELSE n)
Named(names) == {p \in DOMAIN names : names[p] # NoText}

(* validate_custom_themes, and the bound on names: load refuses the rest.  *)
ThemesAreValid(themes) == Cardinality(themes) <= MaxThemes
NamesAreValid(names) == Cardinality(Named(names)) <= MaxProjectNames

(* load_from: what the program finds in a store it accepts.                *)
Parse(content) ==
    LET recents == FirstOf(content.recents, MaxRecent)
    IN  [content EXCEPT
            !.version = StoreVersion,
            !.recents = recents,
            !.library = IF content.version < ListVersion
                        THEN @ \cup ToSet(recents) ELSE @]

Accepted(f) ==
    /\ f.kind = "store"
    /\ f.content.version \in 1 .. StoreVersion
    /\ NamesAreValid(f.content.names)
    /\ ThemesAreValid(f.content.themes)

(* Preferences::load: defaults stand for whatever cannot be read.          *)
Load(f) == IF Accepted(f) THEN Parse(f.content) ELSE Empty

----------------------------------------------------------------------------
Saves ==
    [kind : {"remember"}, path : Projects]
    \cup [kind : {"settings"}, settings : Settings]
    \cup [kind : {"name"}, path : Projects, name : Texts \cup {NoText}]
    \cup [kind : {"library"}, library : SUBSET Projects]
    \cup [kind : {"themes"}, themes : SUBSET Themes]
    \cup [kind : {"drafts"}, path : Projects, draft : Texts \cup {NoText}]

Resting == [step |-> "rest"]

StoreTypeOK ==
    /\ preferences \in [kind : {"absent", "refused", "store"}, content : StoredPreferences]
    /\ queue \in Seq(Saves) /\ Len(queue) <= MaxQueue
    /\ job \in {Resting} \cup [step : {"read"}, save : Saves]
                 \cup [step : {"replace"}, save : Saves, next : StoredPreferences]
    /\ asked \in 0 .. MaxSaves

StoreInit ==
    /\ preferences \in {NoStore, RefusedStore} \cup {Store(c) : c \in EarlierFiles}
    /\ queue = <<>>
    /\ job = Resting
    /\ asked = 0

(* The views submit a save to the preference executor.                     *)
Submit(save) ==
    /\ asked < MaxSaves /\ Len(queue) < MaxQueue
    /\ queue' = Append(queue, save)
    /\ asked' = asked + 1
    /\ UNCHANGED <<preferences, job>>

(* What the caller gave is checked before the file is read; a save that is *)
(* refused is answered at once.                                            *)
Take ==
    /\ job = Resting /\ queue # <<>>
    /\ queue' = Tail(queue)
    /\ \/ job' = Resting                     \* canonicalize, validate
       \/ /\ Head(queue).kind = "themes" => ThemesAreValid(Head(queue).themes)
          /\ job' = [step |-> "read", save |-> Head(queue)]
    /\ UNCHANGED <<preferences, asked>>

(* remember_at: the project comes first, and the oldest one drops out.     *)
Remembered(path, recents) == <<path>> \o FirstOf(RemoveFirst(recents, path), MaxRecent - 1)

\* Mutant: remember_at names the sections it carries over, and not the themes.
PutForgetting(save, old) ==
    CASE save.kind = "remember" -> [old EXCEPT !.recents = Remembered(save.path, @),
                                               !.library = @ \cup {save.path},
                                               !.themes = {}]
      [] save.kind = "settings" -> [old EXCEPT !.settings = save.settings]
      [] save.kind = "name" -> [old EXCEPT !.names[save.path] = save.name]
      [] save.kind = "library" -> [old EXCEPT !.library = save.library]
      [] save.kind = "themes" -> [old EXCEPT !.themes = save.themes]
      [] save.kind = "drafts" -> [old EXCEPT !.drafts[save.path] = save.draft]

(* The section each writer puts in place of the one it read.               *)
Put(save, old) ==
    CASE save.kind = "remember" -> [old EXCEPT !.recents = Remembered(save.path, @),
                                               !.library = @ \cup {save.path}]
      [] save.kind = "settings" -> [old EXCEPT !.settings = save.settings]
      [] save.kind = "name" -> [old EXCEPT !.names[save.path] = save.name]
      [] save.kind = "library" -> [old EXCEPT !.library = save.library]
      [] save.kind = "themes" -> [old EXCEPT !.themes = save.themes]
      [] save.kind = "drafts" -> [old EXCEPT !.drafts[save.path] = save.draft]

(* save_project_name_at refuses a name beyond the last one.                *)
Fits(save, old) ==
    save.kind = "name" /\ save.name # NoText =>
        save.path \in Named(old.names) \/ Cardinality(Named(old.names)) < MaxProjectNames

(* load_for_write: a file that is absent is an empty store; one that is    *)
(* refused, or cannot be read this time, fails the save.                   *)
Read ==
    /\ job.step = "read"
    /\ \/ job' = Resting
       \/ /\ preferences.kind = "absent" \/ Accepted(preferences)
          /\ Fits(job.save, Load(preferences))
          /\ job' = [step |-> "replace", save |-> job.save,
                     next |-> Put(job.save, Load(preferences))]
    /\ UNCHANGED <<preferences, queue, asked>>

(* save_to: the whole file is replaced, or the save fails (a store above   *)
(* MAX_SETTINGS_BYTES, a full disk) and the old file stays.                *)
Replace ==
    /\ job.step = "replace"
    /\ job' = Resting
    /\ preferences' \in {preferences, Store(job.next)}
    /\ UNCHANGED <<queue, asked>>

(* The program is killed and started again, before or after the rename.    *)
RestartStore ==
    /\ job' = Resting
    /\ queue' = <<>>
    /\ preferences' \in {preferences} \cup (IF job.step = "replace" THEN {Store(job.next)} ELSE {})
    /\ UNCHANGED asked

StoreNext ==
    \/ \E save \in Saves : Submit(save)
    \/ Take \/ Read \/ Replace \/ RestartStore

PreferencesSpec == StoreInit /\ [][StoreNext]_preferencesVars

----------------------------------------------------------------------------
Sections == {"recents", "settings", "library", "names", "drafts", "themes"}

Touches(save) ==
    CASE save.kind = "remember" -> {"recents", "library"}
      [] save.kind = "name" -> {"names"}
      [] OTHER -> {save.kind}

Replaces == preferences' # preferences /\ job.step = "replace"

KeepsOthers ==
    Replaces => \A s \in Sections \ Touches(job.save) :
            Load(preferences')[s] = Load(preferences)[s]

SaveIsFound ==
    Replaces =>
        /\ Accepted(preferences')
        /\ job.save.kind = "library" => Load(preferences').library = job.save.library
        /\ job.save.kind = "remember" => Head(Load(preferences').recents) = job.save.path
        /\ job.save.kind = "drafts" =>
               Load(preferences').drafts[job.save.path] = job.save.draft

KeepsRefused ==
    preferences.kind # "absent" /\ ~Accepted(preferences) => preferences' = preferences

(***************************************************************************)
(* A save changes its own section and no other, whatever was saved since   *)
(* its caller last looked (preferences.rs:604): the sections are compared  *)
(* as a program that loads the file sees them.  What was saved is what the *)
(* next load finds, and a file that is not understood stays.               *)
(***************************************************************************)
OthersSurvive == [][StoreTypeOK /\ KeepsOthers /\ SaveIsFound /\ KeepsRefused]_preferencesVars

=============================================================================
