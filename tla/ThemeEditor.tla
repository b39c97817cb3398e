----------------------------- MODULE ThemeEditor -----------------------------
(***************************************************************************)
(* Custom themes: the theme editor, the Your themes card, the theme picker *)
(* and the palette the window wears (crates/app/src/theme_editor.rs,       *)
(* settings.rs, platform_polish.rs, preferences.rs).                       *)
(*                                                                         *)
(* The window keeps the list of saved themes and the selection; both are   *)
(* saved as separate writes on the one preference executor, each theme     *)
(* save replacing the whole list with a copy the window made.  An open     *)
(* editor previews its draft in the whole window, at most once a frame.    *)
(* Names, the token rows beyond one colour and all wording are left out.   *)
(***************************************************************************)
EXTENDS Integers, Sequences, FiniteSets

CONSTANTS
    BuiltIn,         \* the built-in themes; each is also its own palette
    LightBuiltIn,    \* the light ones
    Daylight,        \* the built-in a light system appearance selects
    Midnight,        \* the default theme, and the dark fallback
    Edited,          \* palettes only an editor or a document makes (all dark)
    DesktopPalettes, \* palettes of the desktop's own theme
    MaxThemes,       \* MAX_CUSTOM_THEMES
    MaxSaves,        \* bound: theme saves submitted
    MaxSwitches,     \* bound: theme choices, appearance and desktop changes
    MaxEdits,        \* bound: colour edits
    MaxCrashes       \* bound: times the program stops

NoDraft == "no draft"

ThemeAssumption ==
    /\ LightBuiltIn \subseteq BuiltIn
    /\ Daylight \in LightBuiltIn
    /\ Midnight \in BuiltIn \ LightBuiltIn
    /\ BuiltIn \cap Edited = {} /\ BuiltIn \cap DesktopPalettes = {}
    /\ NoDraft \notin BuiltIn \cup Edited \cup DesktopPalettes   \* None
    /\ MaxThemes \in Nat \ {0}
    /\ {MaxSaves, MaxSwitches, MaxEdits, MaxCrashes} \subseteq Nat

VARIABLES
    themes,    \* custom_themes: id -> [base, palette], the window's copy
    settings,  \* the window's [theme, follow] settings
    disk,      \* the preference file: [themes, settings]
    writes,    \* writes waiting on the preference executor
    save,      \* the theme save in flight and its reply, or NoSave
    form,      \* the open editor, or NoForm
    confirm,   \* the theme whose deletion is being confirmed, or 0
    transfer,  \* "idle", or how far an import or export got
    preview,   \* the draft the editor shows, or NoDraft
    scheduled, \* a next-frame callback is registered
    dirty,     \* a draft waits for that callback
    palette,   \* the palette the window wears
    awaiting,  \* a choice of the desktop's theme waits for its read
    light,     \* the system appearance is light
    desktop,   \* the desktop theme last read
    spent      \* the bounds' counters

themeVars == <<themes, settings, disk, writes, save, form, confirm, transfer, preview,
               scheduled, dirty, palette, awaiting, light, desktop, spent>>

editing == <<form, confirm, transfer, preview, scheduled, dirty>>
outside == <<light, desktop>>

NoSave == [kind |-> "none"]
NoForm == [open |-> FALSE]
Palettes == BuiltIn \cup Edited \cup DesktopPalettes
EmptyThemes == [id \in {} |-> 0]

(***************************************************************************)
(* ThemeSelection: a built-in, a custom theme by id, the desktop's theme.  *)
(***************************************************************************)
Choice(b) == <<"builtin", b>>
Custom(id) == <<"custom", id>>
Omarchy == <<"omarchy">>

IsLight(p) == p \in LightBuiltIn

(* Resolve: a custom id that is not saved resolves to the default theme.   *)
Resolve(sel, saved) ==
    IF sel[1] = "custom"
    THEN IF sel[2] \in DOMAIN saved
         THEN [selection |-> sel, palette |-> saved[sel[2]].palette]
         ELSE [selection |-> Choice(Midnight), palette |-> Midnight]
    ELSE IF sel[1] = "omarchy"
         THEN [selection |-> Omarchy, palette |-> desktop]
         ELSE [selection |-> sel, palette |-> sel[2]]

(* effective_theme: what these settings mean under this appearance.        *)
EffectiveTheme(s, saved, lit) ==
    LET chosen == Resolve(s.theme, saved)
    IN  IF ~s.follow \/ chosen.selection = Omarchy THEN chosen
        ELSE IF lit THEN [selection |-> Choice(Daylight), palette |-> Daylight]
        ELSE IF IsLight(chosen.palette)
             THEN [selection |-> Choice(Midnight), palette |-> Midnight]
             ELSE chosen

(* apply_appearance with the draft, or without one the settings' theme.    *)
Apply(draft, s, saved) ==
    IF draft # NoDraft THEN draft ELSE EffectiveTheme(s, saved, light).palette

ActiveBase ==
    LET effective == EffectiveTheme(settings, themes, light)
        kind == effective.selection[1]
    IN  IF kind = "builtin" THEN effective.selection[2]
        ELSE IF kind = "custom" THEN themes[effective.selection[2]].base
        ELSE IF IsLight(effective.palette) THEN Daylight ELSE Midnight

(* next_custom_theme_id: one more than the largest id in use.              *)
NextThemeId(saved) ==
    IF DOMAIN saved = {} THEN 1
    ELSE 1 + CHOOSE id \in DOMAIN saved : \A other \in DOMAIN saved : other <= id

With(saved, id, theme) ==
    [i \in DOMAIN saved \cup {id} |-> IF i = id THEN theme ELSE saved[i]]
Without(saved, id) == [i \in DOMAIN saved \ {id} |-> saved[i]]

SavePending == save # NoSave
Full == Cardinality(DOMAIN themes) >= MaxThemes

(* One modal dialog, and the card's actions wait for a save or a transfer. *)
NoModal == ~form.open /\ confirm = 0
CardIdle == NoModal /\ ~SavePending /\ transfer = "idle"

Spend(what, bound) ==
    spent[what] < bound /\ spent' = [spent EXCEPT ![what] = @ + 1]

(***************************************************************************)
(* preview_theme_draft: the first draft of a frame applies at once, later  *)
(* ones wait for the next-frame callback.                                  *)
(***************************************************************************)
Preview(draft) ==
    /\ preview' = draft
    /\ scheduled' = TRUE
    /\ dirty' = scheduled
    /\ palette' = IF scheduled THEN palette ELSE draft

(* The next-frame callback applies what is still waiting, if any.          *)
NextFrame ==
    /\ scheduled
    /\ scheduled' = FALSE
    /\ dirty' = FALSE
    /\ palette' = IF dirty /\ preview # NoDraft THEN preview ELSE palette
    /\ UNCHANGED <<themes, settings, disk, writes, save, form, confirm, transfer,
                   preview, awaiting, outside, spent>>

(***************************************************************************)
(* The editor.                                                             *)
(***************************************************************************)
OpenEditor(id, base, draft) ==
    /\ CardIdle
    /\ form' = [open |-> TRUE, editing |-> id, base |-> base, pendingBase |-> NoDraft,
                draft |-> draft, invalid |-> FALSE, pending |-> FALSE]
    /\ Preview(draft)
    /\ UNCHANGED <<themes, settings, disk, writes, save, confirm, transfer, awaiting,
                   outside, spent>>

NewTheme == ~Full /\ OpenEditor(0, ActiveBase, ActiveBase)

EditTheme ==
    \E id \in DOMAIN themes : OpenEditor(id, themes[id].base, themes[id].palette)

Redraw(f) ==
    /\ form' = f
    /\ UNCHANGED <<themes, settings, disk, writes, save, confirm, transfer, awaiting,
                   outside>>

(* hex_changed, from a field that is disabled while a save is pending.     *)
TypeColor(color) ==
    /\ form.open /\ ~form.pending
    /\ Spend("edits", MaxEdits)
    /\ Redraw([form EXCEPT !.draft = color, !.invalid = FALSE])
    /\ IF color = form.draft THEN UNCHANGED <<preview, scheduled, dirty, palette>>
       ELSE Preview(color)

TypeNonsense ==
    /\ form.open /\ ~form.pending /\ ~form.invalid
    /\ Spend("edits", MaxEdits)
    /\ Redraw([form EXCEPT !.invalid = TRUE])
    /\ UNCHANGED <<preview, scheduled, dirty, palette>>

(* picker_changed: the colour picker is not disabled during a save.        *)
PickColor(color) ==
    /\ form.open
    /\ form.draft # color \/ form.invalid
    /\ Spend("edits", MaxEdits)
    /\ Redraw([form EXCEPT !.draft = color, !.invalid = FALSE])
    /\ Preview(color)

ResetToBase ==
    /\ form.open /\ ~form.pending
    /\ Spend("edits", MaxEdits)
    /\ Redraw([form EXCEPT !.pendingBase = NoDraft, !.draft = form.base, !.invalid = FALSE])
    /\ Preview(form.base)

ChooseBase(base) ==
    /\ form.open /\ ~form.pending
    /\ Spend("edits", MaxEdits)
    /\ IF base # form.base /\ form.draft = form.base /\ ~form.invalid
       THEN /\ Redraw([form EXCEPT !.base = base, !.pendingBase = NoDraft, !.draft = base])
            /\ Preview(base)
       ELSE /\ Redraw([form EXCEPT !.pendingBase =
                          IF base = form.base THEN NoDraft ELSE base])
            /\ UNCHANGED <<preview, scheduled, dirty, palette>>

(* resolve_base: Keep colors and Replace colors stay enabled too.          *)
ResolveBase(replace) ==
    /\ form.open /\ form.pendingBase # NoDraft
    /\ Spend("edits", MaxEdits)
    /\ LET base == form.pendingBase
           draft == IF replace THEN base ELSE form.draft
       IN  /\ Redraw([form EXCEPT !.base = base, !.pendingBase = NoDraft, !.draft = draft,
                                  !.invalid = @ /\ ~replace])
           /\ IF replace THEN Preview(draft)
              ELSE UNCHANGED <<preview, scheduled, dirty, palette>>

(* cancel and close_theme_editor: refused while a save is in flight.       *)
CloseEditor ==
    /\ form.open /\ ~form.pending
    /\ form' = NoForm
    /\ preview' = NoDraft
    /\ palette' = Apply(NoDraft, settings, themes)
    /\ UNCHANGED <<themes, settings, disk, writes, save, confirm, transfer,
                   scheduled, dirty, awaiting, outside, spent>>

(***************************************************************************)
(* Saving: the whole list goes to the executor, one save at a time.        *)
(***************************************************************************)
WriteThemes(list) == [kind |-> "themes", themes |-> list]
WriteSettings(s) == [kind |-> "settings", settings |-> s]

SubmitThemes(list, outcome) ==
    /\ Spend("saves", MaxSaves)
    /\ writes' = Append(writes, WriteThemes(list))
    /\ save' = outcome

SubmitForm ==
    /\ form.open /\ ~form.pending /\ ~form.invalid
    /\ ~SavePending
    /\ form.editing \in DOMAIN themes \cup {0}
    /\ form.editing = 0 => ~Full
    /\ LET id == IF form.editing = 0 THEN NextThemeId(themes) ELSE form.editing
       IN  SubmitThemes(With(themes, id, [base |-> form.base, palette |-> form.draft]),
                        [kind |-> "edited", id |-> id, reply |-> "none"])
    /\ form' = [form EXCEPT !.pending = TRUE]
    /\ UNCHANGED <<themes, settings, disk, confirm, transfer, preview, scheduled, dirty,
                   palette, awaiting, outside>>

ConfirmDelete ==
    /\ CardIdle
    /\ \E id \in DOMAIN themes : confirm' = id
    /\ UNCHANGED <<themes, settings, disk, writes, save, form, transfer, preview,
                   scheduled, dirty, palette, awaiting, outside, spent>>

KeepTheme ==
    /\ confirm # 0
    /\ confirm' = 0
    /\ UNCHANGED <<themes, settings, disk, writes, save, form, transfer, preview,
                   scheduled, dirty, palette, awaiting, outside, spent>>

DeleteTheme ==
    /\ confirm # 0
    /\ ~SavePending
    /\ confirm \in DOMAIN themes
    /\ confirm' = 0
    /\ SubmitThemes(Without(themes, confirm),
                    [kind |-> "deleted", id |-> confirm, base |-> themes[confirm].base,
                     reply |-> "none"])
    /\ UNCHANGED <<themes, settings, disk, form, transfer, preview, scheduled, dirty,
                   palette, awaiting, outside>>

(* import_custom_theme: a native dialog, then a read on the executor.      *)
Import ==
    /\ CardIdle /\ ~Full
    /\ transfer' = "dialog"
    /\ UNCHANGED <<themes, settings, disk, writes, save, form, confirm, preview,
                   scheduled, dirty, palette, awaiting, outside, spent>>

(* export_custom_theme: a native dialog, then a write beside the store.    *)
Export ==
    /\ CardIdle /\ themes # EmptyThemes
    /\ transfer' = "naming"
    /\ UNCHANGED <<themes, settings, disk, writes, save, form, confirm, preview,
                   scheduled, dirty, palette, awaiting, outside, spent>>

(* The dialog answers; a cancelled one ends the transfer quietly.          *)
AnswerDialog ==
    /\ transfer \in {"dialog", "naming"}
    /\ \/ transfer' = "idle" /\ UNCHANGED writes
       \/ /\ transfer' = IF transfer = "dialog" THEN "reading" ELSE "writing"
          /\ writes' = Append(writes, [kind |-> "document"])
    /\ UNCHANGED <<themes, settings, disk, save, form, confirm, preview,
                   scheduled, dirty, palette, awaiting, outside, spent>>

(* add_imported_theme, when the document reached the window.               *)
AddImported ==
    /\ transfer = "read"
    /\ transfer' = "idle"
    /\ IF Full THEN UNCHANGED <<writes, save, spent>>
       ELSE LET id == NextThemeId(themes)
            IN  \E base \in BuiltIn, color \in Edited :
                   SubmitThemes(With(themes, id, [base |-> base, palette |-> color]),
                                [kind |-> "imported", id |-> id, reply |-> "none"])
    /\ UNCHANGED <<themes, settings, disk, form, confirm, preview, scheduled, dirty,
                   palette, awaiting, outside>>

EndTransfer ==
    /\ transfer \in {"read", "written"}
    /\ transfer' = "idle"
    /\ UNCHANGED <<themes, settings, disk, writes, save, form, confirm, preview,
                   scheduled, dirty, palette, awaiting, outside, spent>>

(***************************************************************************)
(* The preference executor: one job at a time, in order.  A write replaces *)
(* its own section of the file, or fails and leaves the file alone.        *)
(***************************************************************************)
RunJob ==
    /\ writes # <<>>
    /\ writes' = Tail(writes)
    /\ LET job == Head(writes)
       IN  \/ /\ job.kind = "themes"
              /\ \E ok \in BOOLEAN :
                    /\ disk' = IF ok THEN [disk EXCEPT !.themes = job.themes] ELSE disk
                    /\ save' = [save EXCEPT !.reply = IF ok THEN "saved" ELSE "failed"]
              /\ UNCHANGED transfer
           \/ /\ job.kind = "settings"
              /\ \/ disk' = [disk EXCEPT !.settings = job.settings]
                 \/ UNCHANGED disk
              /\ UNCHANGED <<save, transfer>>
           \/ /\ job.kind = "document"
              /\ transfer' = IF transfer = "reading" THEN "read" ELSE "written"
              /\ UNCHANGED <<disk, save>>
    /\ UNCHANGED <<themes, settings, form, confirm, preview, scheduled, dirty, palette,
                   awaiting, outside, spent>>

(***************************************************************************)
(* finish_custom_theme_save.  The window's list becomes the one the store  *)
(* now holds: what was written.                                            *)
(***************************************************************************)
FinishEdited ==
    /\ save.kind = "edited" /\ save.reply = "saved"
    /\ save' = NoSave
    /\ themes' = disk.themes
    /\ form' = NoForm
    /\ preview' = NoDraft
    /\ settings' = [theme |-> Custom(save.id), follow |-> FALSE]
    /\ palette' = Apply(NoDraft, settings', themes')
    /\ writes' = Append(writes, WriteSettings(settings'))
    /\ UNCHANGED <<disk, confirm, transfer, scheduled, dirty, awaiting, outside, spent>>

FinishImported ==
    /\ save.kind = "imported" /\ save.reply = "saved"
    /\ save' = NoSave
    /\ themes' = disk.themes
    /\ UNCHANGED <<settings, disk, writes, palette, awaiting, outside, spent, editing>>

FinishDeleted ==
    /\ save.kind = "deleted" /\ save.reply = "saved"
    /\ save' = NoSave
    /\ themes' = disk.themes
    /\ IF settings.theme = Custom(save.id)
       THEN /\ settings' = [settings EXCEPT !.theme = Choice(save.base)]
            /\ palette' = Apply(preview, settings', themes')
            /\ writes' = Append(writes, WriteSettings(settings'))
       ELSE UNCHANGED <<settings, palette, writes>>
    /\ UNCHANGED <<disk, awaiting, outside, spent, editing>>

(* A failed save changes nothing: the editor, its draft and preview stay.  *)
FinishFailed ==
    /\ SavePending /\ save.reply = "failed"
    /\ save' = NoSave
    /\ form' = IF save.kind = "edited" THEN [form EXCEPT !.pending = FALSE] ELSE form
    /\ UNCHANGED <<themes, settings, disk, writes, confirm, transfer, preview,
                   scheduled, dirty, palette, awaiting, outside, spent>>

(***************************************************************************)
(* The theme picker, the follow switch, and what happens outside.          *)
(***************************************************************************)
(* choose_theme: a card's click.  The desktop's theme first reads what the *)
(* desktop wears now and applies nothing until that read or a timeout.     *)
ChooseTheme(sel) ==
    /\ NoModal
    /\ Spend("choices", MaxSwitches)
    /\ settings.theme # sel \/ settings.follow
    /\ sel[1] = "custom" => sel[2] \in DOMAIN themes
    /\ settings' = [theme |-> sel, follow |-> FALSE]
    /\ writes' = Append(writes, WriteSettings(settings'))
    /\ awaiting' = (sel = Omarchy)
    /\ palette' = IF sel = Omarchy THEN palette ELSE Apply(preview, settings', themes)
    /\ UNCHANGED <<themes, disk, save, editing, outside>>

(* apply_omarchy_choice, once the read landed or the wait ended.           *)
ApplyOmarchyChoice ==
    /\ awaiting
    /\ awaiting' = FALSE
    /\ palette' = Apply(preview, settings, themes)
    /\ UNCHANGED <<themes, settings, disk, writes, save, editing, outside, spent>>

SetFollow(on) ==
    /\ NoModal
    /\ settings.theme # Omarchy
    /\ settings.follow # on
    /\ Spend("choices", MaxSwitches)
    /\ settings' = [settings EXCEPT !.follow = on]
    /\ writes' = Append(writes, WriteSettings(settings'))
    /\ palette' = Apply(preview, settings', themes)
    /\ UNCHANGED <<themes, disk, save, awaiting, editing, outside>>

(* The system appearance changes; only a window that follows it applies.   *)
AppearanceChanges ==
    /\ Spend("choices", MaxSwitches)
    /\ light' = ~light
    /\ palette' = IF ~settings.follow THEN palette
                  ELSE IF preview # NoDraft THEN preview
                  ELSE EffectiveTheme(settings, themes, light').palette
    /\ UNCHANGED <<themes, settings, disk, writes, save, awaiting, editing, desktop>>

(* omarchy_changed: the desktop's theme was read and differs.              *)
\* Mutant: an open editor's preview is overwritten by the desktop's theme
DesktopChangesOverDraft ==
    /\ Spend("choices", MaxSwitches)
    /\ \E p \in DesktopPalettes \ {desktop} :
          /\ desktop' = p
          /\ palette' = IF settings.theme = Omarchy /\ ~awaiting THEN p ELSE palette
    /\ UNCHANGED <<themes, settings, disk, writes, save, awaiting, editing, light>>
DesktopChanges ==
    /\ Spend("choices", MaxSwitches)
    /\ \E p \in DesktopPalettes \ {desktop} :
          /\ desktop' = p
          /\ palette' = IF settings.theme = Omarchy /\ ~awaiting /\ preview = NoDraft
                        THEN p ELSE palette
    /\ UNCHANGED <<themes, settings, disk, writes, save, awaiting, editing, light>>

(* The program stops, losing what the executor had not run, and starts.    *)
Restart ==
    /\ Spend("crashes", MaxCrashes)
    /\ themes' = disk.themes
    /\ settings' = disk.settings
    /\ writes' = <<>>
    /\ save' = NoSave
    /\ form' = NoForm /\ confirm' = 0 /\ transfer' = "idle"
    /\ preview' = NoDraft /\ scheduled' = FALSE /\ dirty' = FALSE
    /\ awaiting' = FALSE
    /\ palette' = Apply(NoDraft, settings', themes')
    /\ UNCHANGED <<disk, outside>>

-----------------------------------------------------------------------------
ThemeInit ==
    /\ themes = EmptyThemes
    /\ settings = [theme |-> Choice(Midnight), follow |-> FALSE]
    /\ disk = [themes |-> themes, settings |-> settings]
    /\ writes = <<>> /\ save = NoSave
    /\ form = NoForm /\ confirm = 0 /\ transfer = "idle"
    /\ preview = NoDraft /\ scheduled = FALSE /\ dirty = FALSE
    /\ light \in BOOLEAN /\ desktop \in DesktopPalettes
    /\ palette = Midnight /\ awaiting = FALSE
    /\ spent = [saves |-> 0, choices |-> 0, edits |-> 0, crashes |-> 0]

Selections == {Choice(b) : b \in BuiltIn} \cup {Custom(id) : id \in DOMAIN themes} \cup {Omarchy}

ThemeUser ==
    \/ NewTheme \/ EditTheme \/ TypeNonsense \/ ResetToBase \/ CloseEditor \/ SubmitForm
    \/ ConfirmDelete \/ KeepTheme \/ DeleteTheme \/ Import \/ Export
    \/ AnswerDialog
    \/ \E color \in Edited : TypeColor(color) \/ PickColor(color)
    \/ \E base \in BuiltIn : ChooseBase(base)
    \/ \E replace \in BOOLEAN : ResolveBase(replace)
    \/ \E sel \in Selections : ChooseTheme(sel)
    \/ \E on \in BOOLEAN : SetFollow(on)

ThemeReplies ==
    \/ FinishEdited \/ FinishImported \/ FinishDeleted \/ FinishFailed
    \/ AddImported \/ EndTransfer \/ ApplyOmarchyChoice

ThemeNext ==
    \/ ThemeUser \/ ThemeReplies \/ NextFrame \/ RunJob
    \/ AppearanceChanges \/ DesktopChanges \/ Restart

ThemeSpec == ThemeInit /\ [][ThemeNext]_themeVars

-----------------------------------------------------------------------------
ThemeTypeOK ==
    /\ \A list \in {themes, disk.themes} :
          /\ DOMAIN list \subseteq 1 .. MaxThemes + MaxSaves
          /\ \A id \in DOMAIN list : list[id] \in [base : BuiltIn, palette : Palettes]
    /\ Cardinality(DOMAIN themes) <= MaxThemes
    /\ \A s \in {settings, disk.settings} :
          /\ s.follow \in BOOLEAN
          /\ s.theme[1] \in {"builtin", "custom", "omarchy"}
    /\ transfer \in {"idle", "dialog", "reading", "read", "naming", "writing", "written"}
    /\ {scheduled, dirty, awaiting, light} \subseteq BOOLEAN
    /\ palette \in Palettes
    /\ form.open <=> preview # NoDraft

(***************************************************************************)
(* Whenever no frame callback and no read of the desktop's theme is        *)
(* outstanding, the window wears the open editor's draft or, without an    *)
(* editor, exactly what the current settings and the current list of       *)
(* themes mean, whatever was saved, deleted, imported, chosen, cancelled   *)
(* or changed on the desktop meanwhile (theme_editor.rs:723, :894, :1358,  *)
(* settings.rs:841, :893).                                                 *)
(***************************************************************************)
WearsTheTheme ==
    (~dirty /\ (~awaiting \/ form.open)) => palette = Apply(preview, settings, themes)

(***************************************************************************)
(* The window never selects a theme it does not list, though cards can be  *)
(* chosen while a deletion is being written (settings.rs:893,              *)
(* theme_editor.rs:1409).                                                  *)
(***************************************************************************)
SelectionIsListed ==
    settings.theme[1] = "custom" => settings.theme[2] \in DOMAIN themes

(***************************************************************************)
(* The store and the window agree on the list except while a save is in    *)
(* flight: after a failed write and a restart as well                      *)
(* (theme_editor.rs:1358).                                                 *)
(***************************************************************************)
ListMatchesStore == ~SavePending => themes = disk.themes

(***************************************************************************)
(* The list shown is the one saved, the selection is in it, and the window *)
(* wears what both mean.  A program that stops between the two writes of a *)
(* deletion finds a selection it does not list, and the next import may be *)
(* given its number: of the last two nothing is said after a stop.         *)
(***************************************************************************)
WindowWearsTheTheme ==
    /\ ThemeTypeOK /\ ListMatchesStore
    /\ spent.crashes = 0 => SelectionIsListed /\ WearsTheTheme

=============================================================================
