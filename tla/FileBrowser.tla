---------------------------- MODULE FileBrowser ----------------------------
(***************************************************************************)
(* The file browser of the desktop application (crates/gui/src/app.rs from *)
(* render_file_browser on, with the state of screens.rs): the folder       *)
(* shown, the entries it lists, the selection, and the context menu and    *)
(* dialogs that remember files chosen earlier.                             *)
(*                                                                         *)
(* The dialogs are windows beside the list, which stays usable under them: *)
(* only the keyboard is blocked.  A folder is there because a file is in   *)
(* it, and its entry has no uuid.  One session is open throughout.         *)
(***************************************************************************)
EXTENDS Naturals, FiniteSets, SequencesExt

CONSTANTS
  Files,    \* uuids, in the vault or to be imported
  Folder,   \* the name every folder bears
  Depth,    \* bound: nesting of folders that hold files
  Gone,     \* not in the vault
  Lost      \* in a keystore, with metadata its KEK does not decrypt

ASSUME BrowserAssumption == Depth \in Nat /\ Gone # Lost

VARIABLES
  at,       \* the folder each file is in
  currentPath, \* current_path, as its breadcrumbs
  sorting,  \* sort_column and sort_direction
  entries,  \* the files and folders listed, and how they are sorted
  selected,
  menu,     \* context_menu: its target_file_uuids
  deleting, \* the files of a DeleteConfirmation
  renaming, \* rename_state
  changing, \* change_access_level_state
  imports,  \* import_status, with the number of pending_imports
  exports,  \* export_status: how many were exported
  unread    \* history: files a failed import or rename left changed since the list was read

browserVars == <<at, currentPath, sorting, entries, selected, menu, deleting, renaming,
                 changing, imports, exports, unread>>
dialogs == <<menu, deleting, renaming, changing, imports, exports>>

Places  == BoundedSeq({Folder}, Depth)
Columns == {"Name", "Level"}  \* Size and Modified are further ones
NoFiles == [shown |-> FALSE, files |-> {}]
Idle    == [status |-> "Idle", pending |-> 0]

\* The path of a file at loc goes through the folder in p.
Below(loc, p) == loc \in Places /\ IsPrefix(Append(p, Folder), loc)

\* list_files, with the files at loc: those whose path is in the folder, and a
\* folder if some file is further below.
ListFiles(loc, p) ==
  [files  |-> {f \in Files : loc[f] = p},
   folder |-> \E f \in Files : Below(loc[f], p),
   by     |-> sorting]

\* refresh_entries, which sorts them.
RefreshEntries(loc, p) == entries' = ListFiles(loc, p) /\ unread' = {}

\* initialize, of a session that has just been opened.
BrowserInit ==
  /\ at \in [Files -> Places \cup {Gone}]
  /\ currentPath = <<>>
  /\ sorting = [column |-> "Name", ascending |-> TRUE]
  /\ entries = ListFiles(at, <<>>)
  /\ selected = {}
  /\ menu = NoFiles /\ deleting = NoFiles /\ renaming = NoFiles /\ changing = NoFiles
  /\ imports = Idle /\ exports = 0 /\ unread = {}

-----------------------------------------------------------------------------
(***************************************************************************)
(* Going from folder to folder.                                            *)
(***************************************************************************)
NavigateTo(p) ==
  /\ currentPath' = p
  /\ selected' = {}
  /\ RefreshEntries(at, p)
  /\ UNCHANGED <<at, sorting, dialogs>>

NavigateUp == currentPath # <<>> /\ NavigateTo(Front(currentPath))

NavigateToBreadcrumb ==
  \E i \in 0 .. Len(currentPath) - 1 : NavigateTo(SubSeq(currentPath, 1, i))

ClickFolder == entries.folder /\ NavigateTo(Append(currentPath, Folder))

\* The second click of a double click is a click as well: it goes into the folder,
\* and then once more into one of that name inside it.
DoubleClickFolder == entries.folder /\ NavigateTo(currentPath \o <<Folder, Folder>>)

Refresh ==
  /\ RefreshEntries(at, currentPath)
  /\ UNCHANGED <<at, currentPath, sorting, selected, dialogs>>

ToggleSort(c) ==
  /\ sorting' = [column |-> c,
                 ascending |-> IF sorting.column = c THEN ~sorting.ascending ELSE TRUE]
  /\ entries' = [entries EXCEPT !.by = sorting']
  /\ UNCHANGED <<at, currentPath, selected, dialogs, unread>>

-----------------------------------------------------------------------------
(***************************************************************************)
(* Selecting: clicks, the context menu and the keyboard.                   *)
(***************************************************************************)
Select(s) == selected' = s /\ UNCHANGED <<at, currentPath, sorting, entries, dialogs, unread>>

HandleEntryClick(f, ctrl) ==
  /\ f \in entries.files
  /\ Select(IF ~ctrl THEN {f}
            ELSE IF f \in selected THEN selected \ {f} ELSE selected \cup {f})

\* The menu is for all that is selected: for a folder, which cannot be selected,
\* too.
OpenContextMenu ==
  /\ \/ \E f \in entries.files :
          selected' = IF f \in selected THEN selected ELSE {f}
     \/ entries.folder /\ UNCHANGED selected
  /\ menu' = [shown |-> TRUE, files |-> selected']
  /\ UNCHANGED <<at, currentPath, sorting, entries, deleting, renaming, changing, imports,
                 exports, unread>>

ListStays == UNCHANGED <<at, currentPath, sorting, entries, selected, imports, unread>>

StartDelete(s) ==
  /\ deleting' = [shown |-> TRUE, files |-> s]
  /\ UNCHANGED <<renaming, changing, exports>>

StartRename(s) ==
  /\ \E f \in s \cap entries.files : renaming' = [shown |-> TRUE, files |-> {f}]
  /\ UNCHANGED <<deleting, changing, exports>>

\* start_export_process, with files of one name written over each other: an error
\* is counted, and the others go on.
StartExport ==
  /\ selected # {}
  /\ exports' = Cardinality({f \in selected : at[f] \in Places})
  /\ UNCHANGED <<deleting, renaming, changing>>

StartChangeLevel(s) ==
  /\ changing' = [shown |-> TRUE, files |-> s]
  /\ UNCHANGED <<deleting, renaming, exports>>

\* handle_context_action, among available_actions; Open is in Desktop (Preview).
RenderContextMenu ==
  /\ menu.shown
  /\ menu' = NoFiles
  /\ \/ UNCHANGED <<deleting, renaming, changing, exports>>  \* a click outside it
     \/ /\ menu.files # {}
        /\ \/ StartExport \/ StartDelete(menu.files) \/ StartChangeLevel(menu.files)
           \/ Cardinality(menu.files) = 1 /\ StartRename(menu.files)
  /\ ListStays

DialogOpen == menu.shown \/ deleting.shown \/ renaming.shown \/ changing.shown

HandleKeyboardShortcuts ==
  /\ ~DialogOpen
  /\ \/ /\ selected # {}
        /\ \/ StartDelete(selected) \/ StartExport
           \/ Cardinality(selected) = 1 /\ StartRename(selected)
        /\ UNCHANGED menu
        /\ ListStays
     \/ Select(selected \cup entries.files)  \* Ctrl+A
     \/ Select({})                           \* Escape

-----------------------------------------------------------------------------
(***************************************************************************)
(* What the dialogs do once they are confirmed.  Any file may fail.        *)
(***************************************************************************)
ExecuteDelete ==
  /\ deleting.shown
  /\ \E done \in SUBSET {f \in deleting.files : at[f] # Gone} :
       at' = [f \in Files |-> IF f \in done THEN Gone ELSE at[f]]
  /\ selected' = {}
  /\ RefreshEntries(at', currentPath)
  /\ deleting' = NoFiles
  /\ UNCHANGED <<currentPath, sorting, menu, renaming, changing, imports, exports>>

\* What set_access_level makes of the place of a file: nothing at the level the file
\* has; at any other the file moves to a keystore whose key does not decrypt its
\* metadata, and back at the old level it is where it was (here: anywhere).
Relevelled(f) ==
  IF at[f] = Gone THEN {Gone} ELSE IF at[f] = Lost THEN Places \cup {Lost} ELSE {at[f], Lost}

\* To a level chosen in the dialog.
ChangeFiles ==
  /\ changing.shown
  /\ at' \in {loc \in [Files -> Places \cup {Gone, Lost}] :
                \A f \in Files : loc[f] \in IF f \in changing.files THEN Relevelled(f) ELSE {at[f]}}
  /\ changing' = NoFiles
  /\ UNCHANGED <<currentPath, sorting, selected, menu, deleting, renaming, imports, exports>>

\* Mutated form: the list is left as it is.
ExecuteChangeAccessLevel_NotShown == ChangeFiles /\ UNCHANGED <<entries, unread>>

ExecuteChangeAccessLevel == ChangeFiles /\ RefreshEntries(at', currentPath)

\* rename_file: where the file is afterwards.  A name with a "/" in it moves the file
\* further down.
Renamed(f) == {loc \in {at[f], Append(at[f], Folder)} : loc \in Places}

MovedTo(f, loc) == [g \in Files |-> IF g = f THEN loc ELSE at[g]]

\* A rename that fails (of a file deleted or lost since, too) leaves the dialog and
\* the list as they are; the metadata may be cut off where it was written in place,
\* or written and not synced.
ExecuteRename ==
  /\ \E f \in renaming.files :
       \/ /\ at[f] \in Places /\ \E loc \in Renamed(f) : at' = MovedTo(f, loc)
          /\ renaming' = NoFiles
          /\ RefreshEntries(at', currentPath)
       \/ /\ \/ UNCHANGED at
             \/ at[f] \in Places /\ \E loc \in Renamed(f) \cup {Lost} : at' = MovedTo(f, loc)
          /\ unread' = IF at' = at THEN unread ELSE unread \cup {f}
          /\ UNCHANGED <<renaming, entries>>
  /\ UNCHANGED <<currentPath, sorting, selected, menu, deleting, changing, imports, exports>>

CancelDelete ==
  /\ deleting' = NoFiles
  /\ UNCHANGED <<menu, renaming, changing, exports>> /\ ListStays

CancelRename ==
  /\ renaming' = NoFiles
  /\ UNCHANGED <<menu, deleting, changing, exports>> /\ ListStays

CancelChangeLevel ==
  /\ changing' = NoFiles
  /\ UNCHANGED <<menu, deleting, renaming, exports>> /\ ListStays

-----------------------------------------------------------------------------
(***************************************************************************)
(* Importing and exporting.  Files are dropped, or chosen in a dialog of   *)
(* the system; unreadable ones are left out.                               *)
(***************************************************************************)
RestStays == UNCHANGED <<at, currentPath, sorting, entries, selected, menu, deleting,
                         renaming, changing, unread>>

\* How many there can be pending: files of the host that get a uuid once imported.
Importable == Cardinality({f \in Files : at[f] = Gone})

\* Nothing readable was dropped: the pending ones are gone, and a dialog that was
\* shown stays.
HandleDroppedFiles ==
  /\ \E n \in 0 .. Importable :
       imports' = IF n = 0 THEN [imports EXCEPT !.pending = 0]
                  ELSE [imports EXCEPT !.status = "ShowingDialog", !.pending = n]
  /\ RestStays /\ UNCHANGED exports

OpenImportDialog ==
  /\ \E n \in 1 .. Importable :
       imports' = [imports EXCEPT !.status = "ShowingDialog", !.pending = n]
  /\ RestStays /\ UNCHANGED exports

RenderImportDialog ==
  /\ imports.status = "ShowingDialog"
  /\ imports' = Idle  \* cancel_import
  /\ RestStays /\ UNCHANGED exports

\* start_import_process: each file on its own, into the folder that is shown now.
\* One whose keystore could not be saved has failed, and is in the session's keystore:
\* kept.  The list is refreshed if one of them succeeded.
StartImportProcess ==
  /\ imports.status = "ShowingDialog" /\ imports.pending > 0
  /\ \E new, kept \in SUBSET {f \in Files : at[f] = Gone} :
       /\ new \cap kept = {} /\ Cardinality(new \cup kept) <= imports.pending
       /\ Len(currentPath) <= Depth
       /\ at' = [f \in Files |-> IF f \in new \cup kept THEN currentPath ELSE at[f]]
       /\ IF new = {} THEN UNCHANGED entries /\ unread' = unread \cup kept
          ELSE RefreshEntries(at', currentPath)
  /\ imports' = [imports EXCEPT !.status = "Completed", !.pending = 0]
  /\ UNCHANGED <<currentPath, sorting, selected, menu, deleting, renaming, changing, exports>>

DismissImportResult ==
  /\ imports.status = "Completed"
  /\ imports' = [imports EXCEPT !.status = "Idle"]
  /\ RestStays /\ UNCHANGED exports

\* Export in the toolbar.
OpenExportDialog == StartExport /\ UNCHANGED menu /\ ListStays

DismissExportResult ==
  /\ exports' = 0
  /\ RestStays /\ UNCHANGED imports

-----------------------------------------------------------------------------
BrowserNext ==
  \/ NavigateUp \/ NavigateToBreadcrumb \/ ClickFolder \/ DoubleClickFolder
  \/ Refresh \/ \E c \in Columns : ToggleSort(c)
  \/ \E f \in Files, ctrl \in BOOLEAN : HandleEntryClick(f, ctrl)
  \/ OpenContextMenu \/ RenderContextMenu \/ HandleKeyboardShortcuts
  \/ ExecuteDelete \/ ExecuteRename \/ ExecuteChangeAccessLevel
  \/ CancelDelete \/ CancelRename \/ CancelChangeLevel
  \/ HandleDroppedFiles \/ OpenImportDialog \/ RenderImportDialog
  \/ StartImportProcess \/ DismissImportResult
  \/ OpenExportDialog \/ DismissExportResult

BrowserSpec == BrowserInit /\ [][BrowserNext]_browserVars

-----------------------------------------------------------------------------
(***************************************************************************)
(* Properties.                                                             *)
(***************************************************************************)
\* The list is what is in the folder shown, sorted as its header says, after every
\* operation; an import or a rename that failed does not refresh it, and until it is
\* read again it is wrong about no other file than those the failure changed.
ShowsWhatIsStored ==
  /\ entries.by = sorting
  /\ \A f \in Files \ unread :
       /\ f \in entries.files <=> at[f] = currentPath
       /\ Below(at[f], currentPath) => entries.folder
  /\ entries.folder => \E f \in Files : Below(at[f], currentPath) \/ f \in unread
=============================================================================
