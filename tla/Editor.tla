------------------------------- MODULE Editor -------------------------------
(***************************************************************************)
(* AmnesiaIDE (prog/AmnesiaIDE/src): one text and the file it belongs to,  *)
(* the tree of the workspace, and the dialogs.                             *)
(*                                                                         *)
(* No window is modal: while a dialog, the context menu or the rename      *)
(* window is open, every other widget works, and what they captured may    *)
(* be out of date when they act.  A click or a key is one step; a frame    *)
(* handles them one after the other.  Other programs change the disk.      *)
(***************************************************************************)
EXTENDS Integers, Sequences, FiniteSets, SequencesExt

CONSTANTS
  Names,      (* Names of files and directories,                             *)
  Hidden,     (* those that begin with a dot.                                *)
  Texts,      (* What a text file may hold,                                  *)
  Empty,      (* nothing,                                                    *)
  Hello,      (* what a new project's sources and HOWTO_BUILD.txt hold.      *)
  Dir, Binary, Missing,   (* A directory; no UTF-8; no such path.            *)
  Cwd, Home,  (* The process's directory, and ~/Amnesia.                     *)
  Typed, TypedDirs,   (* Paths a user types for files, and for workspaces,   *)
  NewNames,   (* names a user types into the rename window,                  *)
  Projects,   (* names of projects,                                          *)
  Sources,    (* names of a project's files, one for each language.          *)
  Howto,      (* HOWTO_BUILD.txt                                             *)
  Src,        (* src                                                         *)
  Disk0,      (* The disk at the start,                                      *)
  Foreign,    (* the paths other programs change,                            *)
  MaxForeign, (* bound: how often they do.                                   *)
  MaxWindows  (* Bound: how many windows a user keeps open.                  *)

(* A path is what lies between its slashes: an absolute one begins with "", *)
(* and a second slash is one "" more, which Abs drops as the system does.  *)
ROOT == ""
Paths == Seq(Names \cup {ROOT})
IsAbsolute(s) == s # <<>> /\ s[1] = ROOT
Resolved(s) ==
  LET kept[i \in 0..Len(s)] ==
        IF i = 0 THEN <<ROOT>>
        ELSE IF s[i] = ROOT THEN kept[i - 1] ELSE Append(kept[i - 1], s[i])
  IN  kept[Len(s)]
Abs(s) == Resolved(IF IsAbsolute(s) THEN s ELSE Cwd \o s)

(* A path from the root by names alone, as the disk has them.              *)
IsResolved(p) == IsAbsolute(p) /\ \A i \in 2..Len(p) : p[i] \in Names

ASSUME EditorAssumption ==
  /\ ROOT \notin Names /\ Hidden \subseteq Names
  /\ {Empty, Hello} \subseteq Texts /\ {Dir, Binary, Missing} \cap Texts = {}
  /\ Dir # Binary /\ Dir # Missing /\ Binary # Missing
  /\ Typed \cup TypedDirs \subseteq Paths \ {<<>>}
  /\ {Cwd, Home} \cup Foreign \cup DOMAIN Disk0 \subseteq Paths
  /\ \A p \in Foreign \cup DOMAIN Disk0 : IsResolved(p)
  /\ NewNames \subseteq Names /\ Projects \subseteq Names /\ Sources \subseteq Names /\ {Howto, Src} \subseteq Names
  /\ \A p \in DOMAIN Disk0 : Disk0[p] \in Texts \cup {Dir, Binary}
  /\ MaxForeign \in Nat /\ MaxWindows \in Nat \ {0}

LEVELS == 5     \* scan_dir goes down while max_depth is at most 4
NoWs == [path |-> <<>>, files |-> {}]
None == <<>>

VARIABLES
  disk,           (* Each absolute path that exists: a text, Binary or Dir.  *)
  ws, screen,     (* The workspace, kept behind the welcome screen.          *)
  file_path, text, dirty,     (* The file of the editor, <<>> without one.   *)
  dialog,         (* The path dialog shown,                                  *)
  ctx_file,       (* what the context menu,                                  *)
  rename_target,  (* and the rename window were opened for,                  *)
  new_project,    (* whether the New Project window is up.                   *)
  touched,    (* History: the editor's file changed since it was read or     *)
              (* written, and not by that.                                   *)
  behind,     (* History: paths may have gone since the tree was scanned.    *)
  changes     (* How often other programs changed the disk.                  *)

editor == <<file_path, text, dirty>>
windows == <<dialog, ctx_file, rename_target, new_project>>
vars == <<disk, ws, screen, editor, windows, touched, behind, changes>>

Init ==
  /\ disk = Disk0
  /\ ws = NoWs /\ screen = "welcome"
  /\ file_path = None /\ text = Empty /\ dirty = FALSE
  /\ dialog = "none" /\ ctx_file = None /\ rename_target = None /\ new_project = FALSE
  /\ touched = FALSE /\ behind = FALSE
  /\ changes = 0

(***************************************************************************)
(* The file system                                                         *)
(***************************************************************************)
Entry(d, p) == IF p \in DOMAIN d THEN d[p] ELSE Missing
IsDir(d, p) == Entry(d, p) = Dir
IsFile(d, p) == Entry(d, p) \notin {Dir, Missing}
Tree(d, p) == {q \in DOMAIN d : IsPrefix(p, q)}

Put(d, p, c) == [q \in DOMAIN d \cup {p} |-> IF q = p THEN c ELSE d[q]]
Without(d, S) == [q \in DOMAIN d \ S |-> d[q]]

CanWrite(d, p) == IsDir(d, Front(p)) /\ ~IsDir(d, p)

(* std::fs::write: done; refused; or out of room after it truncated.       *)
Written(d, p, c) == {[ok |-> FALSE, disk |-> d]} \cup
  (IF CanWrite(d, p)
   THEN {[ok |-> TRUE, disk |-> Put(d, p, c)]} \cup
        {[ok |-> FALSE, disk |-> Put(d, p, Empty)] : full \in {c} \ {Empty}}
   ELSE {})

(* create_dir_all, unless a file is in the way.                            *)
MadeDirs(d, p) ==
  IF \E q \in Prefixes(p) : IsFile(d, q) THEN d
  ELSE [q \in DOMAIN d \cup (Prefixes(p) \ {<<>>}) |-> IF q \in DOMAIN d THEN d[q] ELSE Dir]

(* delete_file: a directory that cannot be removed may have lost some of   *)
(* what is in it.                                                          *)
Removed(d, p) ==
  {[ok |-> FALSE, disk |-> Without(d, gone)] : gone \in
     {g \in SUBSET (Tree(d, p) \ {p}) : \A q \in g : Tree(d, q) \subseteq g}} \cup
  {[ok |-> TRUE, disk |-> Without(d, Tree(d, p))] : x \in {p} \cap DOMAIN d}

(* rename(2): over a file a file, over an empty directory a directory.     *)
CanRename(d, p, q) ==
  /\ p \in DOMAIN d /\ IsDir(d, Front(q))
  /\ \/ q \notin DOMAIN d \/ p = q
     \/ IsFile(d, p) /\ IsFile(d, q)
     \/ IsDir(d, p) /\ Tree(d, q) = {q}
Moved(d, p, q) ==
  LET new == {q \o SubSeq(x, Len(p) + 1, Len(x)) : x \in Tree(d, p)}
  IN [x \in (DOMAIN d \ Tree(d, p)) \cup new |->
        IF x \in new THEN d[p \o SubSeq(x, Len(q) + 1, Len(x))] ELSE d[x]]

(* scan_dir: nothing hidden, or in a hidden directory, or too deep.        *)
Scan(d, s) ==
  LET top == Abs(s)
      Below(q) == SubSeq(q, Len(top) + 1, Len(q))
      Seen(q) == /\ IsStrictPrefix(top, q) /\ Len(Below(q)) <= LEVELS
                 /\ \A i \in 1..Len(Below(q)) : Below(q)[i] \notin Hidden
  IN {[path |-> s \o Below(q), is_dir |-> IsDir(d, q)] : q \in {q \in DOMAIN d : Seen(q)}}

(***************************************************************************)
(* AmnesiaApp (editor/actions.rs)                                          *)
(***************************************************************************)
Refreshed(d, w) == IF w = NoWs THEN w ELSE [w EXCEPT !.files = Scan(d, w.path)]

(* Faulty variant: the disk is read before the step has changed it.        *)
RefreshEarly == ws' = Refreshed(disk, ws) /\ behind' = FALSE

(* The tree of ws is what is on the disk now, if there is a workspace.     *)
Refresh == ws' = Refreshed(disk', ws) /\ behind' = FALSE

(* A step that neither opens nor saves may change the editor's file.       *)
Watch == touched' = \/ touched
                    \/ file_path # None /\ Entry(disk', Abs(file_path)) # Entry(disk, Abs(file_path))

(* Faulty variant: the text comes before the file is known to be one.      *)
OpenFileFirst(s) ==
  /\ file_path' = s /\ dirty' = FALSE
  /\ text' = IF Entry(disk', Abs(s)) \in Texts THEN disk'[Abs(s)] ELSE text
  /\ touched' = FALSE

(* open_file, of the disk the step leaves.                                 *)
OpenFile(s) ==
  IF Entry(disk', Abs(s)) \in Texts
  THEN /\ file_path' = s /\ text' = disk'[Abs(s)] /\ dirty' = FALSE
       /\ touched' = FALSE
  ELSE UNCHANGED editor /\ Watch

(* Faulty variant: what was to be written counts as written.               *)
SaveFileUnchecked(s) == \E w \in Written(disk, Abs(s), text) :
  /\ disk' = w.disk
  /\ file_path' = s /\ dirty' = FALSE /\ touched' = FALSE /\ UNCHANGED <<text, ws, behind>>

(* save_file: the tree is scanned again when the text had no file before.  *)
SaveFile(s) == \E w \in Written(disk, Abs(s), text) :
  /\ disk' = w.disk
  /\ IF w.ok
     THEN /\ file_path' = s /\ dirty' = FALSE /\ UNCHANGED text
          /\ touched' = FALSE
          /\ IF file_path = None THEN Refresh ELSE UNCHANGED <<ws, behind>>
     ELSE UNCHANGED <<editor, ws, behind>> /\ Watch

(* open_workspace                                                          *)
OpenWorkspace(s) ==
  IF IsDir(disk', Abs(s))
  THEN /\ ws' = [path |-> s, files |-> Scan(disk', s)] /\ behind' = FALSE
       /\ screen' = "workspace"
  ELSE UNCHANGED <<ws, behind, screen>>

(* new_file: below the workspace, "{}/{}".                                 *)
InWorkspace(s) == IF ws = NoWs THEN s ELSE ws.path \o s
NewFile(s) ==
  LET p == InWorkspace(s)
  IN \/ /\ Abs(p) \notin DOMAIN disk
        /\ \E w \in {x \in Written(disk, Abs(p), Empty) : x.ok} : disk' = w.disk
        /\ OpenFile(p)
        /\ Refresh
     \/ UNCHANGED <<disk, editor, ws, touched, behind>>

(***************************************************************************)
(* The editor, the menus and the keys (editor/views.rs)                    *)
(***************************************************************************)
InEditor == screen = "workspace"
MayShow ==
  LET shown == <<dialog # "none", new_project, InEditor /\ ctx_file # None, InEditor /\ rename_target # None>>
  IN Cardinality({i \in DOMAIN shown : shown[i]}) < MaxWindows

Edit ==
  /\ InEditor
  /\ \E t \in Texts \ {text} : text' = t
  /\ dirty' = TRUE
  /\ UNCHANGED <<disk, ws, screen, file_path, windows, touched, behind, changes>>

(* Ctrl+S and File > Save.                                                 *)
Save ==
  /\ InEditor
  /\ IF file_path = None
     THEN dialog' = "SaveAs" /\ UNCHANGED <<disk, editor, ws, touched, behind>>
     ELSE SaveFile(file_path) /\ UNCHANGED dialog
  /\ UNCHANGED <<screen, ctx_file, rename_target, new_project, changes>>

(* F5 saves first; what the shell then compiles is not modelled.           *)
CompileRun ==
  /\ InEditor
  /\ IF file_path = None
     THEN UNCHANGED <<disk, editor, ws, touched, behind>>
     ELSE SaveFile(file_path)
  /\ UNCHANGED <<screen, windows, changes>>

(* The menus and "+": any path dialog, or the New Project window.          *)
ShowDialog ==
  /\ MayShow
  /\ \/ /\ \/ InEditor /\ dialog' \in {"Open", "SaveAs", "NewFile", "OpenWorkspace", "NewWorkspace"}
           \/ ~InEditor /\ dialog' \in {"OpenWorkspace", "NewWorkspace"}
        /\ UNCHANGED new_project
     \/ new_project' = TRUE /\ UNCHANGED dialog
  /\ UNCHANGED <<disk, ws, screen, editor, ctx_file, rename_target, touched, behind, changes>>

CloseWorkspace ==
  /\ InEditor
  /\ screen' = "welcome"
  /\ UNCHANGED <<disk, ws, editor, windows, touched, behind, changes>>

Reopen ==
  /\ ~InEditor /\ ws # NoWs
  /\ UNCHANGED disk
  /\ OpenWorkspace(ws.path)
  /\ UNCHANGED <<editor, windows, touched, changes>>

RefreshFiles ==
  /\ InEditor
  /\ UNCHANGED disk
  /\ Refresh
  /\ UNCHANGED <<screen, editor, windows, touched, changes>>

(* The cancel buttons and ESC; the welcome screen keeps the menu open.     *)
Escape ==
  /\ dialog' = "none" /\ new_project' = FALSE
  /\ IF InEditor THEN ctx_file' = None /\ rename_target' = None
                 ELSE UNCHANGED <<ctx_file, rename_target>>
  /\ UNCHANGED <<disk, ws, screen, editor, touched, behind, changes>>
Cancel ==
  /\ \/ dialog' = "none" /\ UNCHANGED <<ctx_file, rename_target, new_project>>
     \/ new_project' = FALSE /\ UNCHANGED <<dialog, ctx_file, rename_target>>
     \/ InEditor /\ ctx_file' = None /\ UNCHANGED <<dialog, rename_target, new_project>>
     \/ InEditor /\ rename_target' = None /\ UNCHANGED <<dialog, ctx_file, new_project>>
  /\ UNCHANGED <<disk, ws, screen, editor, touched, behind, changes>>

(* The button of the path dialog; the path in it is whatever was typed.    *)
ConfirmFile == \E s \in Typed :
  /\ dialog \in {"Open", "SaveAs", "NewFile"} /\ dialog' = "none"
  /\ \/ dialog = "Open" /\ UNCHANGED <<disk, ws, behind>> /\ OpenFile(s)
     \/ dialog = "SaveAs" /\ SaveFile(s)
     \/ dialog = "NewFile" /\ NewFile(s)
  /\ UNCHANGED <<screen, ctx_file, rename_target, new_project, changes>>
ConfirmWorkspace == \E s \in TypedDirs :
  /\ dialog \in {"OpenWorkspace", "NewWorkspace"} /\ dialog' = "none"
  /\ \/ dialog = "OpenWorkspace" /\ UNCHANGED disk
     \/ dialog = "NewWorkspace" /\ disk' \in {disk, MadeDirs(disk, Abs(s))}
  /\ OpenWorkspace(s) /\ Watch
  /\ UNCHANGED <<editor, ctx_file, rename_target, new_project, changes>>

(***************************************************************************)
(* The tree: a click opens, the other button brings up a menu              *)
(***************************************************************************)
ClickFile == \E e \in ws.files :
  /\ InEditor /\ ~e.is_dir
  /\ UNCHANGED disk
  /\ OpenFile(e.path)
  /\ UNCHANGED <<ws, screen, windows, behind, changes>>

ShowMenu == \E e \in ws.files :
  /\ InEditor /\ MayShow
  /\ ctx_file' = e.path
  /\ UNCHANGED <<disk, ws, screen, editor, dialog, rename_target, new_project, touched, behind, changes>>

MenuOpen ==
  /\ InEditor /\ ctx_file # None
  /\ ctx_file' = None
  /\ UNCHANGED disk
  /\ OpenFile(ctx_file)
  /\ UNCHANGED <<ws, screen, dialog, rename_target, new_project, behind, changes>>

MenuDelete ==
  /\ InEditor /\ ctx_file # None
  /\ ctx_file' = None
  /\ \E r \in Removed(disk, Abs(ctx_file)) :
       /\ disk' = r.disk
       /\ IF r.ok
          THEN /\ Refresh
               /\ IF file_path = ctx_file
                  THEN file_path' = None /\ text' = Empty /\ touched' = FALSE /\ UNCHANGED dirty
                  ELSE Watch /\ UNCHANGED editor
          ELSE /\ behind' = (behind \/ disk' # disk)
               /\ Watch /\ UNCHANGED <<editor, ws>>
  /\ UNCHANGED <<screen, dialog, rename_target, new_project, changes>>

MenuRename ==
  /\ InEditor /\ ctx_file # None
  /\ ctx_file' = None /\ rename_target' = ctx_file
  /\ UNCHANGED <<disk, ws, screen, editor, dialog, new_project, touched, behind, changes>>

(* The button of the rename window.                                        *)
Rename == \E n \in NewNames :
  LET new_path == Front(rename_target) \o <<n>>
  IN /\ InEditor /\ rename_target # None
     /\ rename_target' = None
     /\ \/ /\ CanRename(disk, Abs(rename_target), Abs(new_path))
           /\ disk' = Moved(disk, Abs(rename_target), Abs(new_path))
           /\ Refresh
           /\ IF file_path = rename_target THEN OpenFile(new_path)
                                           ELSE Watch /\ UNCHANGED editor
        \/ UNCHANGED <<disk, ws, editor, touched, behind>>
     /\ UNCHANGED <<screen, dialog, ctx_file, new_project, changes>>

(***************************************************************************)
(* New Project (dialog/mod.rs, scaffold.rs): whatever exists is written    *)
(* over, whatever fails is ignored                                         *)
(***************************************************************************)
Planned(dir, langs) == {dir \o <<Src, l>> : l \in langs} \cup {dir \o <<Howto>>}
CreateProject == \E n \in Projects, langs \in (SUBSET Sources) \ {{}} :
  LET dir == Home \o <<n>>
  IN /\ new_project /\ new_project' = FALSE
     /\ \E made \in {disk, MadeDirs(disk, Abs(dir)), MadeDirs(disk, Abs(dir) \o <<Src>>)} :
        \E opened \in SUBSET {p \in Planned(Abs(dir), langs) : CanWrite(made, p)} :
        \E done \in SUBSET opened :
          disk' = [p \in DOMAIN made \cup opened |->
                     IF p \in done THEN Hello ELSE IF p \in opened THEN Empty ELSE made[p]]
     /\ OpenWorkspace(dir) /\ Watch
     /\ UNCHANGED <<editor, dialog, ctx_file, rename_target, changes>>

(* Another program writes or removes a file.                               *)
OtherProgram == \E p \in Foreign :
  /\ changes < MaxForeign /\ changes' = changes + 1
  /\ ~IsDir(disk, p)
  /\ \/ p \in DOMAIN disk /\ disk' = Without(disk, {p})
     \/ CanWrite(disk, p) /\ \E c \in {Hello, Binary} : disk' = Put(disk, p, c)
  /\ behind' = TRUE /\ Watch
  /\ UNCHANGED <<ws, screen, editor, windows>>

Next ==
  \/ Edit \/ Save \/ CompileRun
  \/ ShowDialog \/ ConfirmFile \/ ConfirmWorkspace \/ Cancel \/ Escape
  \/ CloseWorkspace \/ Reopen \/ RefreshFiles
  \/ ClickFile \/ ShowMenu \/ MenuOpen \/ MenuDelete \/ MenuRename \/ Rename
  \/ CreateProject \/ OtherProgram

Spec == Init /\ [][Next]_vars

(***************************************************************************)
(* Properties                                                              *)
(***************************************************************************)
(* Without the mark of unsaved changes the editor shows what is in its     *)
(* file, unless that changed since, by another program, New Project, a     *)
(* rename over it or a save that failed half way: after every sequence of  *)
(* opening, saving, naming, renaming and deleting (open_file, save_file,   *)
(* and the windows of views.rs).                                           *)
CleanMatchesDisk ==
  ~dirty /\ file_path # None /\ ~touched => Entry(disk, Abs(file_path)) = text

(* The tree lists nothing that the program itself removed or renamed away, *)
(* with windows that act on a workspace that has been replaced meanwhile,  *)
(* until another program or a removal that failed half way changes the     *)
(* disk.                                                                   *)
TreeEntriesExist ==
  ~behind => \A e \in ws.files :
    /\ Abs(e.path) \in DOMAIN disk
    /\ e.is_dir = IsDir(disk, Abs(e.path))

(* What is in the editor is marked as unsaved until it is on the disk: the *)
(* mark goes, and a text that was not typed comes, only with a file that   *)
(* holds this text, or with the file of the editor removed; so a save, an  *)
(* opening or a renaming that fails costs nothing (save_file, open_file).  *)
UnsavedIsMarked ==
  [][ (dirty \/ text' # text) /\ ~dirty' =>
        \/ file_path' # None /\ Entry(disk', Abs(file_path')) = text'
        \/ file_path' = None /\ Abs(file_path) \notin DOMAIN disk' ]_vars
=============================================================================
