------------------------------ MODULE Desktop ------------------------------
(***************************************************************************)
(* The framebuffer desktop of src/synth3x/synth3x.c, which the Wayland     *)
(* compositor replaced.  Its windows, icons, dock and dialog are those of  *)
(* Shell and the state is Shell's; its loop is not.  A press decides at    *)
(* once, in the batch, whether a selection starts; a release ends every    *)
(* gesture at once; the pointer is clamped only after the batch; and a     *)
(* click on a title bar RAISES the window: it moves to the end of the      *)
(* array, so the indices of the others (aw is one) change under them.      *)
(* Launchers, title bars and the Guide's buttons are tested one after the  *)
(* other on what the test before left behind.                              *)
(*                                                                         *)
(* VSCodium is installed by threads of their own, two if asked twice.      *)
(***************************************************************************)
EXTENDS Integers, Sequences, FiniteSetsExt, SequencesExt

CONSTANTS
  FbW, FbH,      (* Size of the display, in pixels.                          *)
  AbsX, AbsY,    (* Positions absolute events may report, off it or on it.   *)
  RelX, RelY,    (* Values that relative pointer events may report.          *)
  Keys,          (* Key codes that may be pressed.                           *)
  Installable,   (* Programs that may be installed: {"VSCodium"} or none.    *)
  TermMax,       (* Characters the terminal's input line holds (48).         *)
  WORKSPACES,    (* Workspaces (4).                                          *)
  GUIDE_PAGES,   (* GUIDE_MAX_PAGES (8).                                     *)
  MaxInstalls    (* Bound: installer threads running at once.                *)

ASSUME DesktopAssumption ==
  /\ FbW \in Nat /\ FbW > 600 /\ FbH \in Nat /\ FbH > 470
  /\ AbsX \subseteq Int /\ AbsY \subseteq Int
  /\ RelX \subseteq Int /\ RelY \subseteq Int
  /\ Keys \subseteq Nat /\ TermMax \in Nat
  /\ Installable \subseteq {"VSCodium"}
  /\ WORKSPACES \in Nat \ {0} /\ GUIDE_PAGES \in Nat \ {0}
  /\ MaxInstalls \in Nat

VARIABLES
  wins, aw, current_ws, guide_page, mx, my, mclick, mouse_pressed,
  selecting, sel_start, show_copy_dialog, selected_text,
  super_pressed, term_len, running,
  pc,                  (* Phase of main's loop: poll, click, frame, exit.    *)
  vscodium_installed,
  installing           (* async_vscodium_install threads under way.          *)

S == INSTANCE Shell

desktop == <<wins, aw, current_ws, guide_page>>
pointer == <<mx, my, mclick, mouse_pressed>>
selection == <<selecting, sel_start, show_copy_dialog, selected_text>>
keyboard == <<super_pressed, term_len, running>>
packages == <<vscodium_installed, installing>>
vars == <<desktop, pointer, selection, keyboard, packages, pc>>

PANEL_H == 30
MAX_WIN == 16

(***************************************************************************)
(* Windows                                                                 *)
(***************************************************************************)
NewWin(t, n, ws) == S!NewWin(t, n, ws)
Shown(w) == S!Shown(w)

OnHide(w) == S!OnHide(w)                          \* win_close, win_minimize
OnMaximize(w) == S!OnMaximize(w)
OnTitle(w) == ~w.maximized /\ S!OnTitle(w)
OnFrame(w) == OnHide(w) \/ OnMaximize(w) \/ OnTitle(w)
Covers(w) == /\ S!In(mx, w.x, w.w)                \* with its title strip
             /\ S!In(my, w.y - 24, w.h + 24)

ToggleMaximize(w) == S!ToggleMaximize(w)
Grabbed(w) == S!Grabbed(w)
Dragged(w) == S!Dragged(w, mx, my)

(* A click works on a desk: the windows and the focused index, as the test *)
(* before left them.                                                       *)
Desk == [wins |-> wins, aw |-> aw]

(* A launcher, or the command, for a window: shown here and focused; made  *)
(* if there is none (VSCodium) and the array has room.                     *)
OpenWin(d, t) ==
  LET same == {i \in DOMAIN d.wins : d.wins[i].title = t} IN
  CASE same # {} -> LET i == Min(same) IN
                    [wins |-> [d.wins EXCEPT ![i] = S!Reopened(d.wins[i])],
                     aw |-> i]
    [] same = {} /\ Len(d.wins) < MAX_WIN ->
         [wins |-> Append(d.wins, NewWin(t, Len(d.wins) + 1, current_ws)),
          aw |-> Len(d.wins) + 1]
    [] OTHER -> d

(* Faulty variants: the focus keeps its index; the window raised keeps its *)
(* place too.                                                              *)
RaiseOnly(d, j) ==
  [wins |-> Append(RemoveAt(d.wins, j), Grabbed(d.wins[j])), aw |-> d.aw]
RaiseCopy(d, j) ==
  [wins |-> [Append(Tail(d.wins), Grabbed(d.wins[j])) EXCEPT ![1] = d.wins[1]],
   aw |-> Len(d.wins)]
(* The memmove of the windows above j, and j put last, focused, dragged.   *)
Raise(d, j) ==
  [wins |-> Append(RemoveAt(d.wins, j), Grabbed(d.wins[j])),
   aw |-> Len(d.wins)]

Init ==
  /\ wins = << NewWin("Terminal", 1, 0), NewWin("SysInfo", 2, 0),
               NewWin("Handbook", 3, 0), NewWin("Guide", 4, 0) >>
  /\ aw = 4 /\ current_ws = 0 /\ guide_page = 0
  /\ mx = 400 /\ my = 300
  /\ mclick = FALSE /\ mouse_pressed = FALSE
  /\ selecting = FALSE /\ sel_start = <<0, 0>>
  /\ show_copy_dialog = FALSE /\ selected_text = "none"
  /\ super_pressed = FALSE /\ term_len = 0
  /\ running = TRUE /\ pc = "poll"
  /\ vscodium_installed = FALSE /\ installing = 0

(***************************************************************************)
(* The batch of events                                                     *)
(***************************************************************************)

(* Relative motion is not followed further than one event off the display  *)
(* (a bound): the clamp comes only after the batch.                        *)
OnDisplay == mx \in 0..(FbW - 1) /\ my \in 0..(FbH - 1)

MouseEvent ==
  /\ pc = "poll"
  /\ \/ \E x \in AbsX : mx' = x /\ my' = my
     \/ \E y \in AbsY : my' = y /\ mx' = mx
     \/ OnDisplay /\ \E d \in RelX : mx' = mx + 2 * d /\ my' = my
     \/ OnDisplay /\ \E d \in RelY : my' = my + 2 * d /\ mx' = mx
  /\ UNCHANGED <<desktop, mclick, mouse_pressed, selection, keyboard,
                 packages, pc>>

(* Anywhere but on the dock, a title bar or the modal dialog.              *)
StartsSelection ==
  /\ ~show_copy_dialog /\ my < FbH - 40
  /\ ~\E j \in DOMAIN wins : Shown(wins[j]) /\ OnFrame(wins[j])

ButtonDown ==
  /\ pc = "poll"
  /\ mclick' = TRUE /\ mouse_pressed' = TRUE
  /\ IF StartsSelection THEN selecting' = TRUE /\ sel_start' = <<mx, my>>
                        ELSE UNCHANGED <<selecting, sel_start>>
  /\ UNCHANGED <<desktop, mx, my, show_copy_dialog, selected_text, keyboard,
                 packages, pc>>

(* extract_selected_text: what the rectangle covers of the focused         *)
(* window's text, perhaps nothing; the Handbook's and VSCodium's text      *)
(* cannot be selected.                                                     *)
Selectable == {"Terminal", "Guide", "SysInfo"}
Extracted == {"none"} \cup ({wins[aw].title} \cap Selectable)

EndSelection ==
  /\ selecting' = FALSE /\ sel_start' = <<0, 0>>
  /\ IF selecting /\ S!MovedFrom(sel_start)
     THEN /\ selected_text' \in Extracted
          /\ show_copy_dialog' = (show_copy_dialog \/ selected_text' # "none")
     ELSE UNCHANGED <<show_copy_dialog, selected_text>>

DropAll == wins' = [i \in DOMAIN wins |-> S!Dropped(wins[i])]

(* Faulty variant: a press made in the same batch is still dispatched.     *)
ButtonUpKeepsClick ==
  /\ pc = "poll"
  /\ mouse_pressed' = FALSE
  /\ DropAll /\ EndSelection
  /\ UNCHANGED <<aw, current_ws, guide_page, mx, my, mclick, keyboard,
                 packages, pc>>
ButtonUp ==
  /\ pc = "poll"
  /\ mouse_pressed' = FALSE /\ mclick' = FALSE
  /\ DropAll /\ EndSelection
  /\ UNCHANGED <<aw, current_ws, guide_page, mx, my, keyboard, packages, pc>>

(* handle_key, in the order of its tests.  Super with a digit returns      *)
(* early; Up and Down change the workspace also while typing.              *)
WorkspaceKey(k) == super_pressed /\ k \in 2..5 /\ k - 2 < WORKSPACES
OnTerminal == wins[aw].title = "Terminal"

KeyEscape(k) ==
  /\ k = 1 /\ running' = FALSE
  /\ UNCHANGED <<desktop, super_pressed, term_len, installing>>

KeyWorkspace(k) ==
  /\ \/ WorkspaceKey(k) /\ current_ws' = k - 2
     \/ k = 103 /\ current_ws' = (current_ws - 1 + WORKSPACES) % WORKSPACES
     \/ k = 108 /\ current_ws' = (current_ws + 1 + WORKSPACES) % WORKSPACES
  /\ UNCHANGED <<wins, aw, guide_page, keyboard, installing>>

KeyHide(k) ==
  /\ k = 58
  /\ wins' = [wins EXCEPT ![aw].hidden = TRUE]
  /\ UNCHANGED <<aw, current_ws, guide_page, keyboard, installing>>

KeyTab(k) == S!KeyTab(k) /\ UNCHANGED installing

Chars == S!Chars

KeyType(k) ==
  /\ OnTerminal /\ ~WorkspaceKey(k)
  /\ \/ k = 14 /\ term_len > 0 /\ term_len' = term_len - 1
     \/ k \in Chars /\ term_len < TermMax /\ term_len' = term_len + 1
  /\ UNCHANGED <<desktop, super_pressed, running, installing>>

(* exec_term_cmd.  Commands that only log or start a program leave the     *)
(* desktop alone; "pkg install vscodium" starts a thread each time it is   *)
(* typed before one has finished.                                          *)
KeyEnter(k) ==
  /\ k = 28 /\ OnTerminal /\ term_len > 0
  /\ term_len' = 0
  /\ \/ /\ vscodium_installed
        /\ wins' = OpenWin(Desk, "VSCodium").wins
        /\ aw' = OpenWin(Desk, "VSCodium").aw
        /\ UNCHANGED installing
     \/ /\ ~vscodium_installed /\ Installable # {}
        /\ installing < MaxInstalls
        /\ installing' = installing + 1
        /\ UNCHANGED <<wins, aw>>
     \/ UNCHANGED <<wins, aw, installing>>
  /\ UNCHANGED <<current_ws, guide_page, super_pressed, running>>

KeyDown ==
  /\ pc = "poll"
  /\ \E k \in Keys :
       KeyEscape(k) \/ KeyWorkspace(k) \/ KeyHide(k) \/ KeyTab(k)
         \/ KeyEnter(k) \/ KeyType(k)
  /\ UNCHANGED <<pointer, selection, vscodium_installed, pc>>

SuperKey ==
  /\ pc = "poll" /\ Keys \cap {125, 126} # {}
  /\ super_pressed' \in BOOLEAN
  /\ UNCHANGED <<desktop, pointer, selection, term_len, running, packages, pc>>

(* The end of the batch: the pointer is put back on the display.           *)
EndPoll ==
  /\ pc = "poll" /\ pc' = "click"
  /\ mx' = S!AtMost(S!AtLeast(mx, 0), FbW - 1)
  /\ my' = S!AtMost(S!AtLeast(my, PANEL_H), FbH - 1)
  /\ UNCHANGED <<desktop, mclick, mouse_pressed, selection, keyboard, packages>>

(***************************************************************************)
(* A pending click                                                         *)
(***************************************************************************)
OnDialogButton == S!OnDialogButton

(* The icons answer where no window is; VSCodium's once installed.         *)
Icons == <<"Terminal", "SysInfo", "Web", "Handbook", "Guide", "VSCodium",
           "Install">>
IconHits ==
  IF my >= FbH - 40 \/ \E j \in DOMAIN wins : Shown(wins[j]) /\ Covers(wins[j])
  THEN {}
  ELSE {Icons[i] : i \in {k \in DOMAIN Icons :
          S!In(mx, 20, 48) /\ S!In(my, 60 + 78 * (k - 1), 48)}}

OnDock == my >= FbH - 40 /\ my <= FbH - 6
DockHits ==
  {s[2] : s \in {d \in S!DockSlots :
                   OnDock /\ S!In(mx, FbW \div 2 - 250 + d[1], 60)}}

Openable == {"Terminal", "SysInfo", "Handbook", "Guide"}
              \cup (IF vscodium_installed THEN {"VSCodium"} ELSE {})
AfterLaunch(d) ==
  LET hits == (IconHits \cup DockHits) \cap Openable IN
  IF hits = {} THEN d ELSE OpenWin(d, CHOOSE t \in hits : TRUE)

(* The topmost title bar under the pointer, covered or not.                *)
AfterFrame(d) ==
  LET hit == {j \in DOMAIN d.wins : Shown(d.wins[j]) /\ OnFrame(d.wins[j])}
      j == Max(hit)
      w == d.wins[j]
  IN CASE hit = {} -> d
       [] hit # {} /\ OnHide(w) -> [d EXCEPT !.wins[j].hidden = TRUE]
       [] hit # {} /\ ~OnHide(w) /\ OnMaximize(w) ->
            [d EXCEPT !.wins[j] = ToggleMaximize(w)]
       [] OTHER -> Raise(d, j)

(* The Guide's page after its Prev and Next buttons; the button that sets  *)
(* the network up, tested last, starts a thread that leaves the desktop    *)
(* alone.                                                                  *)
PageAfter(d) ==
  LET shown == {g \in DOMAIN d.wins : d.wins[g].title = "Guide" /\ Shown(d.wins[g])}
  IN CASE \E g \in shown : S!OnPrev(d.wins[g]) ->
            (guide_page - 1 + GUIDE_PAGES) % GUIDE_PAGES
       [] \E g \in shown : S!OnNext(d.wins[g]) -> (guide_page + 1) % GUIDE_PAGES
       [] OTHER -> guide_page

Click ==
  LET after == AfterFrame(AfterLaunch(Desk)) IN
  /\ wins' = after.wins /\ aw' = after.aw
  /\ guide_page' = PageAfter(after)
  /\ UNCHANGED <<current_ws, selection>>

(* COPY and CANCEL take the dialog down; a click it swallows goes on with  *)
(* the next iteration: nothing is dragged or drawn in this one.            *)
ClickDialog ==
  /\ show_copy_dialog' = ~OnDialogButton
  /\ UNCHANGED <<desktop, selecting, sel_start, selected_text>>

LoopTest == IF running THEN "poll" ELSE "exit"

Dispatch ==
  /\ pc = "click"
  /\ mclick' = FALSE
  /\ \/ mclick /\ show_copy_dialog /\ ClickDialog /\ pc' = LoopTest
     \/ mclick /\ ~show_copy_dialog /\ Click /\ pc' = "frame"
     \/ ~mclick /\ UNCHANGED <<desktop, selection>> /\ pc' = "frame"
  /\ UNCHANGED <<mx, my, mouse_pressed, keyboard, packages>>

(* Dragged windows follow the pointer, the frame is drawn, and the loop    *)
(* tests running; past it the framebuffer is given back and main pauses    *)
(* for ever.                                                               *)
Frame ==
  /\ pc = "frame" /\ pc' = LoopTest
  /\ wins' = [i \in DOMAIN wins |-> IF wins[i].drag THEN Dragged(wins[i])
                                                    ELSE wins[i]]
  /\ UNCHANGED <<aw, current_ws, guide_page, pointer, selection, keyboard,
                 packages>>

(* A thread of async_vscodium_install reaches its end.                     *)
Installed ==
  /\ installing > 0
  /\ installing' = installing - 1 /\ vscodium_installed' = TRUE
  /\ UNCHANGED <<desktop, pointer, selection, keyboard, pc>>

Input == MouseEvent \/ ButtonDown \/ ButtonUp \/ KeyDown \/ SuperKey
Loop == EndPoll \/ Dispatch \/ Frame
Next == Input \/ Loop \/ Installed

Spec == Init /\ [][Next]_vars

(***************************************************************************)
(* Properties                                                              *)
(***************************************************************************)

(* No window follows the pointer, no selection grows and no click waits    *)
(* once the button is up, however presses, moves and releases fall into    *)
(* batches: main clears all three in the release itself.                   *)
GestureHasButton ==
  mclick \/ selecting \/ (\E i \in DOMAIN wins : wins[i].drag)
    => mouse_pressed

TitlesOf(s) == [i \in DOMAIN s |-> s[i].title]

(* Raising loses, doubles or reorders no window: a step leaves the windows *)
(* in their order, or moves one of them to the end, or adds one there.     *)
StackKept ==
  [][LET s == TitlesOf(wins)
         t == TitlesOf(wins')
     IN \/ t = s
        \/ \E j \in DOMAIN s : t = Append(RemoveAt(s, j), s[j])
        \/ t = Append(s, "VSCodium") /\ "VSCodium" \notin ToSet(s)]_vars

(* The focus is an index, and raising shifts the windows under it: still   *)
(* the focused WINDOW changes only by Tab, or to one the user can see.     *)
(* The one exception is a click that reopens a hidden window whose own     *)
(* hide button lies under the launcher: the same click hides it again.     *)
FocusFollows ==
  [][wins'[aw'].title # wins[aw].title =>
       \/ wins' = wins /\ pc = "poll"
       \/ ~wins'[aw'].hidden /\ wins'[aw'].ws = current_ws
       \/ pc = "click" /\ OnHide(wins'[aw'])]_vars
=============================================================================
