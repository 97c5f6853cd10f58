------------------------------- MODULE Shell -------------------------------
(***************************************************************************)
(* The AmnesiaDE desktop: the windows of src/compositor/shell.c, the evdev *)
(* events input.c feeds them, and the iterations of compositor_run in      *)
(* main.c that dispatch a pending click, end a drag or a text selection    *)
(* and draw a frame.                                                       *)
(*                                                                         *)
(* One thread runs all of it, but the kernel queues events while an        *)
(* iteration is busy and input_poll then handles the whole batch before    *)
(* any click is dispatched: what the user did in order reaches the two     *)
(* halves of the loop out of order.  Each event is therefore an action of  *)
(* its own, enabled in the "poll" phase only.                              *)
(*                                                                         *)
(* Coordinates are the pixels of the source.  Windows are numbered from 1. *)
(* drag/dx/dy and orig_* are read by the code only while drag (maximized)  *)
(* is set; the model keeps them 0 otherwise.                               *)
(***************************************************************************)
EXTENDS Integers, Sequences

CONSTANTS
  FbW, FbH,      (* Size of the display, in pixels.                          *)
  AbsX, AbsY,    (* Positions that absolute pointer events may report.       *)
  RelX, RelY,    (* Values that relative pointer events may report.          *)
  Keys,          (* Key codes that may be pressed.                           *)
  Installable,   (* Optional programs that may be found installed.           *)
  TermMax,       (* Characters the terminal's input line holds (64).         *)
  WORKSPACES,    (* Workspaces (4).                                          *)
  GUIDE_PAGES    (* Pages of the Guide (8).                                  *)

(* wnew takes a remainder by FbW - w - 80 and FbH - PANEL_H - h - 100: the *)
(* display is larger than the largest window by those margins.             *)
ASSUME DisplayAssumption ==
  /\ FbW \in Nat /\ FbW > 600
  /\ FbH \in Nat /\ FbH > 470

ASSUME InputAssumption ==
  /\ AbsX \subseteq Nat /\ AbsY \subseteq Nat
  /\ RelX \subseteq Int /\ RelY \subseteq Int
  /\ Keys \subseteq Nat
  /\ Installable \subseteq {"VSCodium", "Firefox", "Telegram"}
  /\ TermMax \in Nat

ASSUME CountAssumption ==
  WORKSPACES \in Nat \ {0} /\ GUIDE_PAGES \in Nat \ {0}

PANEL_H == 30
TITLE_H == 24
MAX_WIN == 32

VARIABLES
  wins,              (* The windows, in the order they are drawn.            *)
  aw,                (* Index of the focused window.                         *)
  current_ws,        (* Workspace shown.                                     *)
  guide_page,        (* Page the Guide shows.                                *)
  mx, my,            (* Pointer position.                                    *)
  mclick,            (* A press waits for compositor_run to dispatch it.     *)
  mouse_pressed,     (* The button is down.                                  *)
  selecting,         (* A text selection is being dragged out ...            *)
  sel_start,         (* ... from this point (<<0, 0>> when none is).         *)
  show_copy_dialog,  (* The modal COPY/CANCEL dialog is up.                  *)
  selected_text,     (* Window the selected text came from, "none" if no text.   *)
  super_pressed,     (* The Super modifier is down.                          *)
  term_len,          (* Characters typed on the terminal's input line.       *)
  running,           (* Cleared by ESC.                                      *)
  pc                 (* Phase of compositor_run.                             *)

desktop == <<wins, aw, current_ws, guide_page>>
pointer == <<mx, my, mclick, mouse_pressed>>
selection == <<selecting, sel_start, show_copy_dialog, selected_text>>
keyboard == <<super_pressed, term_len, running>>
vars == <<desktop, pointer, selection, keyboard, pc>>

Titles == {"Terminal", "SysInfo", "Handbook", "Guide", "VSCodium"}

Width(t) == CASE t = "Terminal" -> 480 [] t = "SysInfo"  -> 400
              [] t = "Handbook" -> 500 [] t = "Guide"    -> 520
              [] t = "VSCodium" -> 500
Height(t) == CASE t = "Terminal" -> 280 [] t = "SysInfo"  -> 260
               [] t = "Handbook" -> 340 [] t = "Guide"    -> 340
               [] t = "VSCodium" -> 320

Phases == {"poll", "click", "settle", "frame", "exit"}

(***************************************************************************)
(* Windows                                                                 *)
(***************************************************************************)

(* wnew: the n-th window made, placed by its number.                       *)
NewWin(t, n, ws) ==
  [title |-> t,
   x |-> 60 + ((n * 40) % (FbW - Width(t) - 80)),
   y |-> PANEL_H + 40 + ((n * 30) % (FbH - PANEL_H - Height(t) - 100)),
   w |-> Width(t), h |-> Height(t),
   hidden |-> FALSE, ws |-> ws, drag |-> FALSE, dx |-> 0, dy |-> 0,
   maximized |-> FALSE, orig_x |-> 0, orig_y |-> 0, orig_w |-> 0, orig_h |-> 0]

Shown(w) == ~w.hidden /\ w.ws = current_ws

In(v, lo, len) == lo <= v /\ v <= lo + len

OnButton(w, left) == In(mx, w.x + left, 12) /\ In(my, w.y - 22, 18)
OnHide(w) == OnButton(w, 8) \/ OnButton(w, 24)   \* close, minimize
OnMaximize(w) == OnButton(w, 40)
OnTitle(w) == In(mx, w.x, w.w) /\ In(my, w.y - TITLE_H, TITLE_H)
OnClient(w) == In(mx, w.x, w.w) /\ In(my, w.y, w.h)
OnFrame(w) == OnHide(w) \/ OnMaximize(w) \/ OnTitle(w)

Maximized(w) ==
  [w EXCEPT !.orig_x = w.x, !.orig_y = w.y, !.orig_w = w.w, !.orig_h = w.h,
            !.x = 0, !.y = PANEL_H + TITLE_H,
            !.w = FbW, !.h = FbH - PANEL_H - TITLE_H - 45,
            !.maximized = TRUE]
Restored(w) ==
  [w EXCEPT !.x = w.orig_x, !.y = w.orig_y, !.w = w.orig_w, !.h = w.orig_h,
            !.orig_x = 0, !.orig_y = 0, !.orig_w = 0, !.orig_h = 0,
            !.maximized = FALSE]
(* Faulty variant: a second click on the button maximizes again.           *)
MaximizeAlways(w) == Maximized(w)
ToggleMaximize(w) == IF w.maximized THEN Restored(w) ELSE Maximized(w)

AtLeast(v, lo) == IF v < lo THEN lo ELSE v
(* Faulty variant: no upper clamp.                                         *)
Unclamped(v, hi) == v
AtMost(v, hi) == IF v > hi THEN hi ELSE v

(* shell_handle_mouse's placement of a dragged window for a pointer at     *)
(* <<px, py>>: kept right of 0 and below the panel, then left of the right *)
(* edge and above the dock.                                                *)
Dragged(w, px, py) ==
  [w EXCEPT !.x = AtMost(AtLeast(px - w.dx, 0), FbW - w.w),
            !.y = AtMost(AtLeast(py - w.dy + TITLE_H, PANEL_H + TITLE_H),
                         FbH - 42 - w.h)]

Grabbed(w) == [w EXCEPT !.drag = TRUE, !.dx = mx - w.x,
                        !.dy = my - (w.y - TITLE_H)]
Hidden(w) == [w EXCEPT !.hidden = TRUE]
Reopened(w) == [w EXCEPT !.hidden = FALSE, !.ws = current_ws]
Dropped(w) == [w EXCEPT !.drag = FALSE, !.dx = 0, !.dy = 0]

(* Faulty variants: the window stays on the workspace it was left on; a    *)
(* window is made whether or not one of the title exists.                  *)
OpenWhereItWas(t) ==
  \/ \E i \in DOMAIN wins :
       wins[i].title = t /\ wins' = [wins EXCEPT ![i].hidden = FALSE] /\ aw' = i
  \/ /\ \A i \in DOMAIN wins : wins[i].title # t
     /\ wins' = Append(wins, NewWin(t, Len(wins) + 1, current_ws))
     /\ aw' = Len(wins) + 1
OpenAnother(t) ==
  /\ Len(wins) < MAX_WIN
  /\ wins' = Append(wins, NewWin(t, Len(wins) + 1, current_ws))
  /\ aw' = Len(wins) + 1

(* find_win, or wnew when there is none, then the window is shown on the   *)
(* current workspace and focused.  Only VSCodium is ever missing.          *)
OpenWin(t) ==
  \/ \E i \in DOMAIN wins :
       /\ wins[i].title = t
       /\ wins' = [wins EXCEPT ![i] = Reopened(wins[i])]
       /\ aw' = i
  \/ /\ \A i \in DOMAIN wins : wins[i].title # t
     /\ Len(wins) < MAX_WIN
     /\ wins' = Append(wins, NewWin(t, Len(wins) + 1, current_ws))
     /\ aw' = Len(wins) + 1

(***************************************************************************)
(* shell_init                                                              *)
(***************************************************************************)
Init ==
  /\ wins = << NewWin("Terminal", 1, 0), NewWin("SysInfo", 2, 0),
               NewWin("Handbook", 3, 0), NewWin("Guide", 4, 0) >>
  /\ aw = 4
  /\ current_ws = 0
  /\ guide_page = 0
  /\ mx = FbW \div 2 /\ my = FbH \div 2
  /\ mclick = FALSE /\ mouse_pressed = FALSE
  /\ selecting = FALSE /\ sel_start = <<0, 0>>
  /\ show_copy_dialog = FALSE /\ selected_text = "none"
  /\ super_pressed = FALSE /\ term_len = 0
  /\ running = TRUE
  /\ pc = "poll"

(***************************************************************************)
(* input_poll: one event of the batch                                      *)
(***************************************************************************)

(* shell_handle_mouse: the pointer stays on the display below the panel,   *)
(* and every window being dragged follows it.                              *)
HandleMouse(x, y) ==
  LET px == AtMost(AtLeast(x, 0), FbW - 1)
      py == AtMost(AtLeast(y, PANEL_H), FbH - 1)
  IN /\ mx' = px /\ my' = py
     /\ wins' = [i \in DOMAIN wins |-> IF wins[i].drag
                                       THEN Dragged(wins[i], px, py)
                                       ELSE wins[i]]

(* evdev reports one axis per event.                                       *)
MouseEvent ==
  /\ pc = "poll"
  /\ \/ \E d \in RelX : HandleMouse(mx + 2 * d, my)
     \/ \E d \in RelY : HandleMouse(mx, my + 2 * d)
     \/ \E x \in AbsX : HandleMouse(x, my)
     \/ \E y \in AbsY : HandleMouse(mx, y)
  /\ UNCHANGED <<aw, current_ws, guide_page, mclick, mouse_pressed,
                 selection, keyboard, pc>>

ButtonDown ==
  /\ pc = "poll"
  /\ mclick' = TRUE /\ mouse_pressed' = TRUE
  /\ UNCHANGED <<desktop, mx, my, selection, keyboard, pc>>

(* A release also forgets a press that waits to be dispatched.             *)
ButtonUp ==
  /\ pc = "poll"
  /\ mclick' = FALSE /\ mouse_pressed' = FALSE
  /\ UNCHANGED <<desktop, mx, my, selection, keyboard, pc>>

(* shell_handle_key, in the order of its tests.                            *)
Focused(t) == wins[aw].title = t
GuideArrow(k) == Focused("Guide") /\ k \in {105, 106}
WorkspaceKey(k) == super_pressed /\ k \in 2..(WORKSPACES + 1)   \* 2..5

KeyEscape(k) ==
  /\ k = 1
  /\ running' = FALSE
  /\ UNCHANGED <<desktop, super_pressed, term_len>>

KeySuper(k) ==
  /\ k \in {125, 126}
  /\ super_pressed' = TRUE
  /\ UNCHANGED <<desktop, term_len, running>>

KeyGuidePage(k) ==
  /\ GuideArrow(k)
  /\ guide_page' = IF k = 105 THEN (guide_page + GUIDE_PAGES - 1) % GUIDE_PAGES
                              ELSE (guide_page + 1) % GUIDE_PAGES
  /\ UNCHANGED <<wins, aw, current_ws, keyboard>>

KeyWorkspace(k) ==
  /\ \/ WorkspaceKey(k) /\ current_ws' = k - 2
     \/ k = 103 /\ current_ws' = (current_ws + WORKSPACES - 1) % WORKSPACES
     \/ k = 108 /\ current_ws' = (current_ws + 1) % WORKSPACES
  /\ UNCHANGED <<wins, aw, guide_page, keyboard>>

KeyHide(k) ==
  /\ k = 58
  /\ wins' = [wins EXCEPT ![aw] = Hidden(wins[aw])]
  /\ UNCHANGED <<aw, current_ws, guide_page, keyboard>>

Following(i) == ((aw - 1 + i) % Len(wins)) + 1
(* Tab: the next window that is not hidden, on whatever workspace.         *)
KeyTab(k) ==
  /\ k = 15
  /\ \/ \E i \in 1..Len(wins) :
          /\ ~wins[Following(i)].hidden
          /\ \A l \in 1..(i - 1) : wins[Following(l)].hidden
          /\ aw' = Following(i)
     \/ (\A i \in DOMAIN wins : wins[i].hidden) /\ aw' = aw
  /\ UNCHANGED <<wins, current_ws, guide_page, keyboard>>

(* The terminal's input line; scancode_to_ascii knows the codes in Chars.  *)
Chars == (2..13) \cup (16..27) \cup (30..41) \cup (43..53) \cup {57}

KeyEnter(k) ==
  /\ k = 28 /\ Focused("Terminal") /\ term_len > 0
  /\ term_len' = 0
  /\ \/ "VSCodium" \in Installable /\ OpenWin("VSCodium")
     \/ UNCHANGED <<wins, aw>>      \* any other command
  /\ UNCHANGED <<current_ws, guide_page, super_pressed, running>>

KeyType(k) ==
  /\ Focused("Terminal") /\ ~WorkspaceKey(k)
  /\ \/ k = 14 /\ term_len > 0 /\ term_len' = term_len - 1
     \/ k \in Chars /\ term_len < TermMax /\ term_len' = term_len + 1
  /\ UNCHANGED <<desktop, super_pressed, running>>

KeyDown ==
  /\ pc = "poll"
  /\ \E k \in Keys :
       \/ KeyEscape(k) \/ KeySuper(k) \/ KeyGuidePage(k) \/ KeyWorkspace(k)
       \/ KeyHide(k) \/ KeyTab(k) \/ KeyEnter(k) \/ KeyType(k)
  /\ UNCHANGED <<pointer, selection, pc>>

SuperUp ==
  /\ pc = "poll"
  /\ Keys \cap {125, 126} # {}
  /\ super_pressed' = FALSE
  /\ UNCHANGED <<desktop, pointer, selection, term_len, running, pc>>

(* The queue is drained; wl_server_poll, which follows, leaves the desktop *)
(* alone.                                                                  *)
EndPoll ==
  /\ pc = "poll"
  /\ pc' = "click"
  /\ UNCHANGED <<desktop, pointer, selection, keyboard>>

(***************************************************************************)
(* shell_handle_click, dispatched by compositor_run once per iteration     *)
(***************************************************************************)

(* The modal dialog: COPY (the first button) and CANCEL both take it down. *)
OnDialogButton ==
  /\ \E left \in {30, 190} : In(mx, FbW \div 2 - 160 + left, 100)
  /\ In(my, FbH \div 2 - 70 + 94, 24)

ClickDialog ==
  /\ show_copy_dialog
  /\ show_copy_dialog' = ~OnDialogButton
  /\ UNCHANGED <<desktop, selecting, sel_start, selected_text>>

(* The Guide's buttons, tested before any window on top of them.           *)
GuideWindows == {g \in DOMAIN wins : wins[g].title = "Guide" /\ Shown(wins[g])}
OnPrev(w) == In(mx, w.x + 120, 80) /\ In(my, w.y + 280, 24)
OnNext(w) == In(mx, w.x + 280, 80) /\ In(my, w.y + 280, 24)
OnNet(w) == guide_page = 0 /\ In(mx, w.x + 24, 180) /\ In(my, w.y + 168, 24)
OnGuideButton ==
  \E g \in GuideWindows : OnPrev(wins[g]) \/ OnNext(wins[g]) \/ OnNet(wins[g])

ClickGuideButton ==
  /\ \E g \in GuideWindows :
       \/ /\ OnPrev(wins[g])
          /\ guide_page' = (guide_page + GUIDE_PAGES - 1) % GUIDE_PAGES
       \/ /\ OnNext(wins[g])
          /\ guide_page' = (guide_page + 1) % GUIDE_PAGES
       \/ OnNet(wins[g]) /\ UNCHANGED guide_page   \* starts async_net_setup
  /\ UNCHANGED <<wins, aw, current_ws, selection>>

(* The loop over the windows, last drawn first.  A hit on a title bar or   *)
(* its buttons ends it; a hit on a client area focuses the window and the  *)
(* loop goes on, so the last one it meets keeps the focus.                 *)
StopsAt(j) ==
  /\ Shown(wins[j]) /\ OnFrame(wins[j])
  /\ \A k \in DOMAIN wins : k > j => ~(Shown(wins[k]) /\ OnFrame(wins[k]))
Stops == \E j \in DOMAIN wins : StopsAt(j)
ClientHits(above) ==
  {k \in DOMAIN wins : k > above /\ Shown(wins[k]) /\ OnClient(wins[k])}
FocusLast(hits) ==
  \/ hits = {} /\ aw' = aw
  \/ \E k \in hits : (\A l \in hits : k <= l) /\ aw' = k

ClickHide(j) ==
  /\ OnHide(wins[j])
  /\ wins' = [wins EXCEPT ![j] = Hidden(wins[j])]
  /\ FocusLast(ClientHits(j))

ClickMaximize(j) ==
  /\ OnMaximize(wins[j])
  /\ wins' = [wins EXCEPT ![j] = ToggleMaximize(wins[j])]
  /\ FocusLast(ClientHits(j))

ClickTitle(j) ==
  /\ OnTitle(wins[j]) /\ ~OnHide(wins[j]) /\ ~OnMaximize(wins[j])
  /\ aw' = j
  /\ wins' = [wins EXCEPT ![j] = Grabbed(wins[j])]

ClickFrame ==
  /\ \E j \in DOMAIN wins :
       StopsAt(j) /\ (ClickHide(j) \/ ClickMaximize(j) \/ ClickTitle(j))
  /\ UNCHANGED <<current_ws, guide_page, selection>>

(* get_visible_icons for the programs found installed, and the dock.       *)
Optional(inst, t) == IF t \in inst THEN <<t>> ELSE << >>
Icons(inst) ==
  <<"Terminal", "SysInfo", "Web", "Handbook", "Guide">>
    \o Optional(inst, "VSCodium") \o Optional(inst, "Firefox")
    \o Optional(inst, "Telegram") \o <<"Install">>
IconHits(inst) ==
  {Icons(inst)[i] : i \in {k \in DOMAIN Icons(inst) :
                             In(mx, 20, 48) /\ In(my, 60 + 78 * (k - 1), 48)}}

OnDock == In(mx, FbW \div 2 - 250, 500) /\ In(my, FbH - 40, 34)
DockSlots == {<<10, "Terminal">>, <<75, "SysInfo">>, <<140, "Web">>,
              <<205, "VSCodium">>, <<270, "Handbook">>, <<335, "Guide">>}
DockHits(inst) ==
  {s[2] : s \in {d \in DockSlots : /\ In(mx, FbW \div 2 - 250 + d[1], 60)
                                   /\ d[2] = "VSCodium" => "VSCodium" \in inst}}

(* A launcher that stands for a window opens it; any other only logs or    *)
(* starts a program, and a client hit of the loop above keeps its focus.   *)
Launch(hits) ==
  \/ \E t \in hits \cap Titles : OpenWin(t)
  \/ hits \cap Titles = {} /\ FocusLast(ClientHits(0)) /\ UNCHANGED wins

ClickLauncher(inst) ==
  /\ \/ IconHits(inst) # {} /\ Launch(IconHits(inst))
     \/ IconHits(inst) = {} /\ OnDock /\ Launch(DockHits(inst))
  /\ UNCHANGED <<current_ws, guide_page, selection>>

ClickClient(inst) ==
  /\ IconHits(inst) = {} /\ ~OnDock
  /\ FocusLast(ClientHits(0))
  /\ IF ClientHits(0) # {} /\ my < FbH - 40
     THEN selecting' = TRUE /\ sel_start' = <<mx, my>>
     ELSE UNCHANGED <<selecting, sel_start>>
  /\ UNCHANGED <<wins, current_ws, guide_page, show_copy_dialog, selected_text>>

Click ==
  \/ ClickDialog
  \/ /\ ~show_copy_dialog
     /\ \/ ClickGuideButton
        \/ ~OnGuideButton /\ ClickFrame
        \/ /\ ~OnGuideButton /\ ~Stops
           /\ \E inst \in SUBSET Installable :
                ClickLauncher(inst) \/ ClickClient(inst)

Dispatch ==
  /\ pc = "click"
  /\ pc' = "settle"
  /\ mclick' = FALSE
  /\ \/ mclick /\ Click
     \/ ~mclick /\ UNCHANGED <<desktop, selection>>
  /\ UNCHANGED <<mx, my, mouse_pressed, keyboard>>

(***************************************************************************)
(* The rest of an iteration of compositor_run                              *)
(***************************************************************************)
Distance(a, b) == IF a < b THEN b - a ELSE a - b
MovedFrom(p) == Distance(mx, p[1]) > 8 \/ Distance(my, p[2]) > 8

(* Faulty variant: the selection goes on under the dialog.                 *)
EndSelectionStillSelecting ==
  /\ UNCHANGED <<selecting, sel_start>>
  /\ IF selecting /\ MovedFrom(sel_start)
     THEN /\ selected_text' \in {"none", wins[aw].title}
          /\ show_copy_dialog' = (show_copy_dialog \/ selected_text' # "none")
     ELSE UNCHANGED <<show_copy_dialog, selected_text>>

(* A finished selection: extract_selected_text takes what the rectangle    *)
(* covers of the focused window's text, which may be nothing.              *)
EndSelection ==
  /\ selecting' = FALSE /\ sel_start' = <<0, 0>>
  /\ IF selecting /\ MovedFrom(sel_start)
     THEN /\ selected_text' \in {"none", wins[aw].title}
          /\ show_copy_dialog' = (show_copy_dialog \/ selected_text' # "none")
     ELSE UNCHANGED <<show_copy_dialog, selected_text>>

(* Faulty variant: only the focused window is let go.                      *)
DropFocused == wins' = [wins EXCEPT ![aw] = Dropped(wins[aw])]
DropAll == wins' = [i \in DOMAIN wins |-> Dropped(wins[i])]

Settle ==
  /\ pc = "settle"
  /\ pc' = "frame"
  /\ IF mouse_pressed THEN UNCHANGED <<wins, selection>>
                      ELSE DropAll /\ EndSelection
  /\ UNCHANGED <<aw, current_ws, guide_page, pointer, keyboard>>

(* Faulty variant: the limiter's continue skips the test of running.       *)
EndFrameForever ==
  /\ pc = "frame" /\ pc' = "poll"
  /\ UNCHANGED <<desktop, pointer, selection, keyboard>>

(* The frame limiter and the drawing; then the loop tests running.         *)
EndFrame ==
  /\ pc = "frame"
  /\ pc' = IF running THEN "poll" ELSE "exit"
  /\ UNCHANGED <<desktop, pointer, selection, keyboard>>

Input == MouseEvent \/ ButtonDown \/ ButtonUp \/ KeyDown \/ SuperUp
Loop == EndPoll \/ Dispatch \/ Settle \/ EndFrame
Next == Input \/ Loop

(* The compositor's thread keeps running, and a batch of events ends: they *)
(* arrive more slowly than input_poll reads them.                          *)
Spec == Init /\ [][Next]_vars /\ WF_vars(Loop)

(***************************************************************************)
(* Properties                                                              *)
(***************************************************************************)

WinType == [title : Titles, x : Int, y : Int, w : Int, h : Int,
            hidden : BOOLEAN, ws : 0..(WORKSPACES - 1),
            drag : BOOLEAN, dx : Int, dy : Int, maximized : BOOLEAN,
            orig_x : Int, orig_y : Int, orig_w : Int, orig_h : Int]

(* The types of the state; the focus is always the index of a window, so   *)
(* that wins[aw] in shell_handle_key and extract_selected_text is one.     *)
TypeOK ==
  /\ wins \in Seq(WinType)
  /\ aw \in DOMAIN wins
  /\ current_ws \in 0..(WORKSPACES - 1)
  /\ guide_page \in 0..(GUIDE_PAGES - 1)
  /\ mx \in 0..(FbW - 1) /\ my \in PANEL_H..(FbH - 1)
  /\ mclick \in BOOLEAN /\ mouse_pressed \in BOOLEAN
  /\ selecting \in BOOLEAN /\ sel_start \in Int \X Int
  /\ show_copy_dialog \in BOOLEAN
  /\ selected_text \in Titles \cup {"none"}
  /\ super_pressed \in BOOLEAN /\ term_len \in 0..TermMax
  /\ running \in BOOLEAN
  /\ pc \in Phases

RectOnScreen(x, y, w, h) ==
  /\ 0 <= x /\ x + w <= FbW
  /\ PANEL_H + TITLE_H <= y /\ y + h <= FbH - 42

(* No order of drags, maximizations, restorations and reopenings leaves a  *)
(* window, or the place a maximized window returns to, outside the display *)
(* or under the panel or the dock, where its title bar cannot be grabbed.  *)
WindowsOnScreen ==
  \A i \in DOMAIN wins :
    LET w == wins[i] IN
    /\ RectOnScreen(w.x, w.y, w.w, w.h)
    /\ w.maximized => RectOnScreen(w.orig_x, w.orig_y, w.orig_w, w.orig_h)

(* A window is never stuck at the maximized size: whatever was clicked, a  *)
(* window that is not maximized has the size it was made with, and a       *)
(* maximized one still knows it.                                           *)
SizeKept ==
  \A i \in DOMAIN wins :
    LET w == wins[i] IN
    IF w.maximized THEN w.orig_w = Width(w.title) /\ w.orig_h = Height(w.title)
                   ELSE w.w = Width(w.title) /\ w.h = Height(w.title)

(* find_win identifies windows by title: no icon, dock slot or command     *)
(* opens a second window of a title, so the array never fills up.          *)
OneWindowPerTitle ==
  \A i, j \in DOMAIN wins : wins[i].title = wins[j].title => i = j

Idle == ~selecting /\ \A i \in DOMAIN wins : ~wins[i].drag

(* The COPY/CANCEL dialog is modal and never empty: while it is up no      *)
(* window is being dragged and no other selection is under way, although   *)
(* presses, moves and releases keep arriving.                              *)
DialogIsModal == show_copy_dialog => Idle /\ selected_text # "none"

(* A click gives the focus only to a window the user can see.              *)
ClickFocusesShown ==
  [][pc = "click" /\ aw' # aw =>
       ~wins'[aw'].hidden /\ wins'[aw'].ws = current_ws]_vars

(* "Handle drag end on mouse release" (main.c): a button that stays up     *)
(* ends every drag and selection.                                          *)
ReleaseEndsGesture == ~mouse_pressed ~> (mouse_pressed \/ Idle)

(* "[ ESC ] Exit to TTY shell": the key ends the loop, at the test of      *)
(* running that follows the iteration in progress.                         *)
EscapeExits == ~running ~> pc = "exit"
=============================================================================
