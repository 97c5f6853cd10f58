---------------------------- MODULE ShellProofs ----------------------------
(***************************************************************************)
(* Theorems about Shell, for every display, every set of pointer positions *)
(* and keys, and every number of windows and events.                       *)
(***************************************************************************)
EXTENDS Shell, TLAPS

(* What holds of every window on its own, and is kept by every operator of *)
(* Shell that makes a window from a window.                                *)
Placed(w) ==
  /\ RectOnScreen(w.x, w.y, w.w, w.h)
  /\ w.maximized => RectOnScreen(w.orig_x, w.orig_y, w.orig_w, w.orig_h)
Sized(w) ==
  IF w.maximized
  THEN w.orig_w = Width(w.title) /\ w.orig_h = Height(w.title)
  ELSE w.w = Width(w.title) /\ w.h = Height(w.title)
GoodWin == {w \in WinType : Placed(w) /\ Sized(w)}

(* The rest of the type invariant. *)
TypeRest ==
  /\ aw \in DOMAIN wins
  /\ current_ws \in 0..(WORKSPACES - 1)
  /\ guide_page \in 0..(GUIDE_PAGES - 1)
  /\ mx \in 0..(FbW - 1) /\ my \in PANEL_H..(FbH - 1)
  /\ mclick \in BOOLEAN /\ mouse_pressed \in BOOLEAN
  /\ selecting \in BOOLEAN /\ sel_start \in Int \X Int
  /\ show_copy_dialog \in BOOLEAN
  /\ selected_text \in Titles \cup {"none"}
  /\ super_pressed \in BOOLEAN /\ term_len \in 0..TermMax
  /\ running \in BOOLEAN
  /\ pc \in Phases

(* The inductive invariant: a clamped window fits the display only because *)
(* its size does, so placement, size and type have to be kept together.    *)
IInv == wins \in Seq(GoodWin) /\ TypeRest

(* Sizes of the windows shell_init and OpenWin make.                       *)
LEMMA SizeBounds ==
  ASSUME NEW t \in Titles
  PROVE  /\ Width(t) \in 1..520
         /\ Height(t) \in 1..340
<1>1. t \in {"Terminal", "SysInfo", "Handbook", "Guide", "VSCodium"}
  BY DEF Titles
<1>2. QED
  BY <1>1 DEF Width, Height

LEMMA Remainder ==
  ASSUME NEW a \in Int, NEW m \in Nat, m > 0
  PROVE  a % m \in 0..(m - 1)
OBVIOUS

(* wnew places a window on the display.                                    *)
LEMMA NewWinGood ==
  ASSUME NEW t \in Titles, NEW n \in Nat, NEW ws \in 0..(WORKSPACES - 1)
  PROVE  NewWin(t, n, ws) \in GoodWin
<1> DEFINE p == FbW - Width(t) - 80
           q == FbH - PANEL_H - Height(t) - 100
<1>0. Width(t) \in 1..520 /\ Height(t) \in 1..340
  BY SizeBounds
<1>1. p \in Nat /\ p > 0 /\ q \in Nat /\ q > 0
  <2>1. p \in Nat /\ p > 0
    <3>1. Width(t) \in Int /\ Width(t) <= 520
      BY ONLY <1>0
    <3>2. QED
      BY ONLY <3>1, DisplayAssumption
  <2>2. q \in Nat /\ q > 0
    <3>1. Height(t) \in Int /\ Height(t) <= 340
      BY ONLY <1>0
    <3>2. QED
      BY ONLY <3>1, DisplayAssumption DEF PANEL_H
  <2>3. QED
    BY <2>1, <2>2
<1>2. (n * 40) % p \in 0..(p - 1) /\ (n * 30) % q \in 0..(q - 1)
  <2> HIDE DEF p, q
  <2>1. n * 40 \in Int /\ n * 30 \in Int
    OBVIOUS
  <2>2. QED
    BY <1>1, <2>1, Remainder, Zenon
<1>3. NewWin(t, n, ws) \in WinType
  BY <1>0, <1>1, <1>2 DEF NewWin, WinType, PANEL_H
<1>4. Sized(NewWin(t, n, ws))
  BY DEF Sized, NewWin
<1>5. Placed(NewWin(t, n, ws))
  <2> DEFINE x == (n * 40) % p
             y == (n * 30) % q
             v == NewWin(t, n, ws)
  <2>1. /\ v.x = 60 + x /\ v.y = PANEL_H + 40 + y
        /\ v.w = Width(t) /\ v.h = Height(t) /\ v.maximized = FALSE
    BY DEF NewWin
  <2>2. /\ x \in Int /\ 0 <= x /\ x <= FbW - Width(t) - 81
        /\ y \in Int /\ 0 <= y /\ y <= FbH - PANEL_H - Height(t) - 101
    <3>1. Width(t) \in Int /\ Height(t) \in Int /\ FbW \in Int /\ FbH \in Int
      BY <1>0, DisplayAssumption
    <3>2. p = FbW - Width(t) - 80 /\ q = FbH - PANEL_H - Height(t) - 100
      OBVIOUS
    <3> HIDE DEF p, q
    <3>3. QED
      BY <1>1, <1>2, <3>1, <3>2 DEF PANEL_H
  <2> HIDE DEF x, y, v, p, q
  <2>3. RectOnScreen(v.x, v.y, v.w, v.h)
    BY <1>0, <2>1, <2>2, DisplayAssumption DEF RectOnScreen, PANEL_H, TITLE_H
  <2>4. QED
    BY <2>1, <2>3 DEF Placed, v
<1>6. QED
  BY <1>3, <1>4, <1>5 DEF GoodWin

(* A window stays a window: the provers decide the membership of a record  *)
(* in a set of records one updated field at a time.                        *)
LEMMA DroppedType ==
  ASSUME NEW w \in WinType
  PROVE  Dropped(w) \in WinType
<1> DEFINE a == [w EXCEPT !.drag = FALSE]
           b == [a EXCEPT !.dx = 0]
           c == [b EXCEPT !.dy = 0]
<1> HIDE DEF a, b, c
<1>1. a \in WinType
  BY DEF a, WinType
<1>2. b \in WinType
  BY <1>1 DEF b, WinType
<1>3. c \in WinType
  BY <1>2 DEF c, WinType
<1>4. Dropped(w) = c
  BY DEF Dropped, a, b, c
<1>5. QED
  BY <1>3, <1>4

LEMMA GrabbedType ==
  ASSUME NEW w \in WinType, mx \in Int, my \in Int
  PROVE  Grabbed(w) \in WinType
<1> DEFINE a == [w EXCEPT !.drag = TRUE]
           b == [a EXCEPT !.dx = mx - w.x]
           c == [b EXCEPT !.dy = my - (w.y - TITLE_H)]
<1> HIDE DEF a, b, c
<1>0. mx - w.x \in Int /\ my - (w.y - TITLE_H) \in Int
  BY DEF WinType, TITLE_H
<1>1. a \in WinType
  BY <1>0 DEF a, WinType
<1>2. b \in WinType
  BY <1>0, <1>1 DEF b, WinType
<1>3. c \in WinType
  BY <1>0, <1>2 DEF c, WinType
<1>4. Grabbed(w) = c
  BY DEF Grabbed, a, b, c
<1>5. QED
  BY <1>3, <1>4

LEMMA RestoredType ==
  ASSUME NEW w \in WinType
  PROVE  Restored(w) \in WinType
<1> DEFINE a == [w EXCEPT !.x = w.orig_x]
           b == [a EXCEPT !.y = w.orig_y]
           c == [b EXCEPT !.w = w.orig_w]
           d == [c EXCEPT !.h = w.orig_h]
           e == [d EXCEPT !.orig_x = 0]
           f == [e EXCEPT !.orig_y = 0]
           g == [f EXCEPT !.orig_w = 0]
           i == [g EXCEPT !.orig_h = 0]
           j == [i EXCEPT !.maximized = FALSE]
<1> HIDE DEF a, b, c, d, e, f, g, i, j
<1>0. /\ w.orig_x \in Int /\ w.orig_y \in Int
      /\ w.orig_w \in Int /\ w.orig_h \in Int
  BY DEF WinType
<1>1. a \in WinType
  BY <1>0 DEF a, WinType
<1>2. b \in WinType
  BY <1>0, <1>1 DEF b, WinType
<1>3. c \in WinType
  BY <1>0, <1>2 DEF c, WinType
<1>4. d \in WinType
  BY <1>0, <1>3 DEF d, WinType
<1>5. e \in WinType
  BY <1>0, <1>4 DEF e, WinType
<1>6. f \in WinType
  BY <1>0, <1>5 DEF f, WinType
<1>7. g \in WinType
  BY <1>0, <1>6 DEF g, WinType
<1>8. i \in WinType
  BY <1>0, <1>7 DEF i, WinType
<1>9. j \in WinType
  BY <1>0, <1>8 DEF j, WinType
<1>10. Restored(w) = j
  BY DEF Restored, a, b, c, d, e, f, g, i, j
<1>11. QED
  BY <1>9, <1>10

LEMMA MaximizedType ==
  ASSUME NEW w \in WinType
  PROVE  Maximized(w) \in WinType
<1> DEFINE a == [w EXCEPT !.orig_x = w.x]
           b == [a EXCEPT !.orig_y = w.y]
           c == [b EXCEPT !.orig_w = w.w]
           d == [c EXCEPT !.orig_h = w.h]
           e == [d EXCEPT !.x = 0]
           f == [e EXCEPT !.y = PANEL_H + TITLE_H]
           g == [f EXCEPT !.w = FbW]
           i == [g EXCEPT !.h = FbH - PANEL_H - TITLE_H - 45]
           j == [i EXCEPT !.maximized = TRUE]
<1> HIDE DEF a, b, c, d, e, f, g, i, j
<1>0. /\ w.x \in Int /\ w.y \in Int /\ w.w \in Int /\ w.h \in Int
      /\ FbW \in Int /\ FbH \in Int
  BY DisplayAssumption DEF WinType
<1>1. a \in WinType
  BY <1>0 DEF a, WinType
<1>2. b \in WinType
  BY <1>0, <1>1 DEF b, WinType
<1>3. c \in WinType
  BY <1>0, <1>2 DEF c, WinType
<1>4. d \in WinType
  BY <1>0, <1>3 DEF d, WinType
<1>5. e \in WinType
  BY <1>0, <1>4 DEF e, WinType
<1>6. f \in WinType
  BY <1>0, <1>5 DEF f, WinType, PANEL_H, TITLE_H
<1>7. g \in WinType
  BY <1>0, <1>6 DEF g, WinType
<1>8. i \in WinType
  BY <1>0, <1>7 DEF i, WinType, PANEL_H, TITLE_H
<1>9. j \in WinType
  BY <1>0, <1>8 DEF j, WinType
<1>10. Maximized(w) = j
  BY DEF Maximized, a, b, c, d, e, f, g, i, j
<1>11. QED
  BY <1>9, <1>10

LEMMA DraggedType ==
  ASSUME NEW w \in WinType, NEW px \in Int, NEW py \in Int
  PROVE  Dragged(w, px, py) \in WinType
<1> DEFINE a == [w EXCEPT !.x = AtMost(AtLeast(px - w.dx, 0), FbW - w.w)]
           b == [a EXCEPT !.y = AtMost(AtLeast(py - w.dy + TITLE_H, PANEL_H + TITLE_H), FbH - 42 - w.h)]
<1> HIDE DEF a, b
<1>0. /\ AtMost(AtLeast(px - w.dx, 0), FbW - w.w) \in Int
      /\ AtMost(AtLeast(py - w.dy + TITLE_H, PANEL_H + TITLE_H), FbH - 42 - w.h) \in Int
  BY DisplayAssumption DEF WinType, AtMost, AtLeast, PANEL_H, TITLE_H
<1>1. a \in WinType
  BY <1>0 DEF a, WinType
<1>2. b \in WinType
  BY <1>0, <1>1 DEF b, WinType
<1>3. Dragged(w, px, py) = b
  BY DEF Dragged, a, b
<1>4. QED
  BY <1>2, <1>3

(* The fields that decide where a window is and returns to.                *)
SameRects(v, w) ==
  /\ v.title = w.title /\ v.maximized = w.maximized
  /\ v.x = w.x /\ v.y = w.y /\ v.w = w.w /\ v.h = w.h
  /\ v.orig_x = w.orig_x /\ v.orig_y = w.orig_y
  /\ v.orig_w = w.orig_w /\ v.orig_h = w.orig_h

LEMMA SameRectsGood ==
  ASSUME NEW w \in GoodWin, NEW v \in WinType, SameRects(v, w)
  PROVE  v \in GoodWin
BY DEF GoodWin, Placed, Sized, SameRects

(* Showing, hiding, dropping and grabbing a window do not move it.         *)
LEMMA StillGood ==
  ASSUME NEW w \in GoodWin, TypeRest
  PROVE  /\ Reopened(w) \in GoodWin
         /\ Hidden(w) \in GoodWin
         /\ Dropped(w) \in GoodWin
         /\ Grabbed(w) \in GoodWin
<1>1. w \in WinType
  BY DEF GoodWin
<1>2. mx \in Int /\ my \in Int /\ current_ws \in 0..(WORKSPACES - 1)
  BY DisplayAssumption DEF TypeRest, PANEL_H
<1>3. Reopened(w) \in WinType /\ SameRects(Reopened(w), w)
  BY <1>1, <1>2 DEF Reopened, WinType, SameRects
<1>4. Hidden(w) \in WinType /\ SameRects(Hidden(w), w)
  BY <1>1 DEF Hidden, WinType, SameRects
<1>5. SameRects(Dropped(w), w)
  BY <1>1 DEF Dropped, WinType, SameRects
<1>6. SameRects(Grabbed(w), w)
  BY <1>1 DEF Grabbed, WinType, SameRects
<1>7. QED
  BY <1>1, <1>2, <1>3, <1>4, <1>5, <1>6, DroppedType, GrabbedType, SameRectsGood

(* The maximize button, both ways.                                         *)
LEMMA ToggleGood ==
  ASSUME NEW w \in GoodWin
  PROVE  ToggleMaximize(w) \in GoodWin
<1>1. w \in WinType /\ Placed(w) /\ Sized(w)
  BY DEF GoodWin
<1>2. CASE w.maximized
  <2> DEFINE v == Restored(w)
  <2>1. v \in WinType
    BY <1>1, RestoredType
  <2>2. /\ v.x = w.orig_x /\ v.y = w.orig_y /\ v.w = w.orig_w /\ v.h = w.orig_h
        /\ v.title = w.title /\ v.maximized = FALSE
    BY <1>1 DEF Restored, WinType
  <2>3. v \in GoodWin
    BY <1>1, <1>2, <2>1, <2>2 DEF GoodWin, Placed, Sized
  <2>4. QED
    BY <1>2, <2>3 DEF ToggleMaximize
<1>3. CASE ~w.maximized
  <2> DEFINE v == Maximized(w)
  <2>1. v \in WinType
    BY <1>1, MaximizedType
  <2>2. /\ v.x = 0 /\ v.y = 54 /\ v.w = FbW /\ v.h = FbH - 99
        /\ v.orig_x = w.x /\ v.orig_y = w.y /\ v.orig_w = w.w /\ v.orig_h = w.h
        /\ v.title = w.title /\ v.maximized = TRUE
    BY <1>1, DisplayAssumption DEF Maximized, WinType, PANEL_H, TITLE_H
  <2>3. Sized(v)
    BY <1>1, <1>3, <2>2 DEF Sized
  <2>4. Placed(v)
    <3>1. RectOnScreen(v.orig_x, v.orig_y, v.orig_w, v.orig_h)
      BY <1>1, <2>2 DEF Placed
    <3>2. RectOnScreen(v.x, v.y, v.w, v.h)
      BY <2>2, DisplayAssumption DEF RectOnScreen, PANEL_H, TITLE_H
    <3>3. QED
      BY <3>1, <3>2 DEF Placed
  <2>5. QED
    BY <1>3, <2>1, <2>3, <2>4 DEF ToggleMaximize, GoodWin
<1>4. QED
  BY <1>2, <1>3, <1>1 DEF WinType

(* The clamps of shell_handle_mouse, applied in the order of the code,     *)
(* leave both edges on the display: the first never undoes the second      *)
(* because the window is no larger than the room between them.             *)
LEMMA DraggedGood ==
  ASSUME NEW w \in GoodWin, NEW px \in Int, NEW py \in Int
  PROVE  Dragged(w, px, py) \in GoodWin
<1> DEFINE v == Dragged(w, px, py)
<1>1. w \in WinType /\ Placed(w) /\ Sized(w)
  BY DEF GoodWin
<1>2. /\ w.x \in Int /\ w.y \in Int /\ w.w \in Int /\ w.h \in Int
      /\ w.dx \in Int /\ w.dy \in Int
  BY <1>1 DEF WinType
<1>3. v \in WinType
  BY <1>1, DraggedType
<1>4. /\ v.x = AtMost(AtLeast(px - w.dx, 0), FbW - w.w)
      /\ v.y = AtMost(AtLeast(py - w.dy + TITLE_H, PANEL_H + TITLE_H), FbH - 42 - w.h)
      /\ v.w = w.w /\ v.h = w.h
      /\ v.orig_x = w.orig_x /\ v.orig_y = w.orig_y
      /\ v.orig_w = w.orig_w /\ v.orig_h = w.orig_h
      /\ v.title = w.title /\ v.maximized = w.maximized
  BY <1>1 DEF Dragged, WinType
<1>5. w.w <= FbW /\ w.h <= FbH - 42 - 54
  BY <1>1, <1>2, DisplayAssumption DEF Placed, RectOnScreen, PANEL_H, TITLE_H
<1>6. RectOnScreen(v.x, v.y, v.w, v.h)
  <2>1. 0 <= v.x /\ v.x + v.w <= FbW
    BY <1>2, <1>4, <1>5, DisplayAssumption DEF AtLeast, AtMost
  <2>2. 54 <= v.y /\ v.y + v.h <= FbH - 42
    BY <1>2, <1>4, <1>5, DisplayAssumption DEF AtLeast, AtMost, PANEL_H, TITLE_H
  <2>3. QED
    BY <2>1, <2>2 DEF RectOnScreen, PANEL_H, TITLE_H
<1>7. Placed(v) /\ Sized(v)
  BY <1>1, <1>4, <1>6 DEF Placed, Sized
<1>8. QED
  BY <1>3, <1>7 DEF GoodWin

(***************************************************************************)
(* The windows after a step                                                *)
(***************************************************************************)
LEMMA UpdateOne ==
  ASSUME NEW S, NEW s \in Seq(S), NEW j \in DOMAIN s, NEW g \in S
  PROVE  /\ [s EXCEPT ![j] = g] \in Seq(S)
         /\ DOMAIN [s EXCEPT ![j] = g] = DOMAIN s
OBVIOUS

LEMMA UpdateAll ==
  ASSUME NEW S, NEW s \in Seq(S), NEW t,
         t = [i \in DOMAIN s |-> t[i]], \A i \in DOMAIN s : t[i] \in S
  PROVE  t \in Seq(S) /\ DOMAIN t = DOMAIN s
<1>1. DOMAIN s = 1..Len(s) /\ Len(s) \in Nat
  OBVIOUS
<1>2. t \in [1..Len(s) -> S]
  BY <1>1
<1>3. QED
  BY <1>1, <1>2

(* A window of the sequence is a good one.                                 *)
LEMMA OneGood ==
  ASSUME wins \in Seq(GoodWin), NEW i \in DOMAIN wins
  PROVE  wins[i] \in GoodWin /\ wins[i] \in WinType /\ wins[i].title \in Titles
<1>1. wins[i] \in GoodWin
  OBVIOUS
<1>2. wins[i] \in WinType
  BY <1>1 DEF GoodWin
<1>3. QED
  BY <1>1, <1>2 DEF WinType

(* Hiding, showing, grabbing or toggling one window.                       *)
LEMMA OneChanged ==
  ASSUME IInv, NEW j \in DOMAIN wins,
         \/ wins' = [wins EXCEPT ![j] = Hidden(wins[j])]
         \/ wins' = [wins EXCEPT ![j] = Reopened(wins[j])]
         \/ wins' = [wins EXCEPT ![j] = Grabbed(wins[j])]
         \/ wins' = [wins EXCEPT ![j] = ToggleMaximize(wins[j])]
  PROVE  wins' \in Seq(GoodWin) /\ DOMAIN wins' = DOMAIN wins
<1>1. wins[j] \in GoodWin /\ wins \in Seq(GoodWin) /\ TypeRest
  BY OneGood DEF IInv
<1>2. /\ Hidden(wins[j]) \in GoodWin /\ Reopened(wins[j]) \in GoodWin
      /\ Grabbed(wins[j]) \in GoodWin /\ ToggleMaximize(wins[j]) \in GoodWin
  BY <1>1, StillGood, ToggleGood
<1>3. PICK g \in GoodWin : wins' = [wins EXCEPT ![j] = g]
  BY <1>2
<1>4. QED
  BY <1>1, <1>3, UpdateOne

LEMMA OpenWinGood ==
  ASSUME IInv, NEW t \in Titles, OpenWin(t)
  PROVE  wins' \in Seq(GoodWin) /\ aw' \in DOMAIN wins'
<1>1. CASE \E i \in DOMAIN wins :
             wins' = [wins EXCEPT ![i] = Reopened(wins[i])] /\ aw' = i
  BY <1>1, OneChanged
<1>2. CASE /\ wins' = Append(wins, NewWin(t, Len(wins) + 1, current_ws))
           /\ aw' = Len(wins) + 1
  <2>1. wins \in Seq(GoodWin) /\ Len(wins) \in Nat
        /\ current_ws \in 0..(WORKSPACES - 1)
    BY DEF IInv, TypeRest
  <2>2. PICK g \in GoodWin : wins' = Append(wins, g)
    BY <1>2, <2>1, NewWinGood
  <2>3. QED
    BY <1>2, <2>1, <2>2
<1>3. QED
  BY <1>1, <1>2 DEF OpenWin

(***************************************************************************)
(* The inductive invariant                                                 *)
(***************************************************************************)
LEMMA InitIInv ==
  ASSUME Init PROVE IInv
<1>1. \A t \in Titles, n \in 1..4 : NewWin(t, n, 0) \in GoodWin
  BY NewWinGood, CountAssumption
<1>2. wins \in Seq(GoodWin) /\ DOMAIN wins = 1..4
  BY <1>1 DEF Init, Titles
<1>3. FbW \div 2 \in 0..(FbW - 1) /\ FbH \div 2 \in 30..(FbH - 1)
  BY DisplayAssumption
<1>4. TypeRest
  <2>1. aw \in DOMAIN wins /\ current_ws \in 0..(WORKSPACES - 1)
        /\ guide_page \in 0..(GUIDE_PAGES - 1)
    BY <1>2, CountAssumption DEF Init
  <2>2. mx \in 0..(FbW - 1) /\ my \in PANEL_H..(FbH - 1)
    BY <1>3 DEF Init, PANEL_H
  <2>3. sel_start \in Int \X Int /\ term_len \in 0..TermMax
    BY InputAssumption DEF Init
  <2>4. selected_text \in Titles \cup {"none"} /\ pc \in Phases
    BY DEF Init, Phases
  <2>5. QED
    BY <2>1, <2>2, <2>3, <2>4 DEF Init, TypeRest
<1>5. QED
  BY <1>2, <1>4 DEF IInv

LEMMA MouseEventKeeps ==
  ASSUME IInv, MouseEvent PROVE IInv'
<1>1. PICK x \in Int, y \in Int : HandleMouse(x, y)
  <2>1. mx \in Int /\ my \in Int
    BY DisplayAssumption DEF IInv, TypeRest, PANEL_H
  <2>2. /\ \A d \in RelX : mx + 2 * d \in Int
        /\ \A d \in RelY : my + 2 * d \in Int
        /\ AbsX \subseteq Int /\ AbsY \subseteq Int
    BY <2>1, InputAssumption
  <2>3. QED
    BY <2>1, <2>2 DEF MouseEvent
<1> DEFINE px == AtMost(AtLeast(x, 0), FbW - 1)
           py == AtMost(AtLeast(y, PANEL_H), FbH - 1)
<1>2. px \in 0..(FbW - 1) /\ py \in PANEL_H..(FbH - 1)
  BY DisplayAssumption DEF AtMost, AtLeast, PANEL_H
<1>3. px \in Int /\ py \in Int
  BY <1>2, DisplayAssumption DEF PANEL_H
<1>4. /\ mx' = px /\ my' = py
      /\ wins' = [i \in DOMAIN wins |-> IF wins[i].drag
                                        THEN Dragged(wins[i], px, py)
                                        ELSE wins[i]]
  BY <1>1 DEF HandleMouse
<1> HIDE DEF px, py
<1>5. wins' \in Seq(GoodWin) /\ DOMAIN wins' = DOMAIN wins
  <2>1. \A i \in DOMAIN wins : wins'[i] \in GoodWin
    BY <1>3, <1>4, OneGood, DraggedGood DEF IInv
  <2>2. wins' = [i \in DOMAIN wins |-> wins'[i]]
    BY <1>4
  <2>3. QED
    BY <2>1, <2>2, UpdateAll DEF IInv
<1>6. QED
  BY <1>2, <1>4, <1>5 DEF MouseEvent, IInv, TypeRest, selection, keyboard

(* shell_handle_key: the focus, the workspace and the page keep their      *)
(* ranges, and a command opens a window as a launcher does.                *)
LEMMA KeyDownKeeps ==
  ASSUME IInv, KeyDown PROVE IInv'
<1>1. PICK k \in Nat :
        \/ KeyEscape(k) \/ KeySuper(k) \/ KeyGuidePage(k) \/ KeyWorkspace(k)
        \/ KeyHide(k) \/ KeyTab(k) \/ KeyEnter(k) \/ KeyType(k)
  BY InputAssumption DEF KeyDown
<1>2. UNCHANGED <<pointer, selection, pc>>
  BY DEF KeyDown
<1>3. CASE KeyEscape(k)
  BY <1>2, <1>3 DEF KeyEscape, IInv, TypeRest, desktop, pointer, selection
<1>4. CASE KeySuper(k)
  BY <1>2, <1>4 DEF KeySuper, IInv, TypeRest, desktop, pointer, selection
<1>5. CASE KeyGuidePage(k)
  <2>1. guide_page' \in 0..(GUIDE_PAGES - 1)
    BY <1>5, CountAssumption DEF KeyGuidePage, IInv, TypeRest
  <2>2. QED
    BY <1>2, <1>5, <2>1
       DEF KeyGuidePage, IInv, TypeRest, keyboard, pointer, selection
<1>6. CASE KeyWorkspace(k)
  <2>1. current_ws' \in 0..(WORKSPACES - 1)
    <3>1. current_ws \in Nat
      BY CountAssumption DEF IInv, TypeRest
    <3>2. CASE WorkspaceKey(k) /\ current_ws' = k - 2
      BY <3>2, CountAssumption DEF WorkspaceKey
    <3>3. CASE current_ws' = (current_ws + WORKSPACES - 1) % WORKSPACES
      BY <3>1, <3>3, CountAssumption, Remainder
    <3>4. CASE current_ws' = (current_ws + 1) % WORKSPACES
      BY <3>1, <3>4, CountAssumption, Remainder
    <3>5. QED
      BY <1>6, <3>2, <3>3, <3>4 DEF KeyWorkspace
  <2>2. QED
    BY <1>2, <1>6, <2>1
       DEF KeyWorkspace, IInv, TypeRest, keyboard, pointer, selection
<1>7. CASE KeyHide(k)
  <2>1. wins' \in Seq(GoodWin) /\ DOMAIN wins' = DOMAIN wins
    BY <1>7, OneChanged DEF KeyHide, IInv, TypeRest
  <2>2. QED
    BY <1>2, <1>7, <2>1
       DEF KeyHide, IInv, TypeRest, keyboard, pointer, selection
<1>8. CASE KeyTab(k)
  <2>1. DOMAIN wins = 1..Len(wins) /\ Len(wins) \in Nat /\ aw \in 1..Len(wins)
    BY DEF IInv, TypeRest
  <2>2. \A i \in 1..Len(wins) : Following(i) \in 1..Len(wins)
    BY <2>1 DEF Following
  <2>3. wins' = wins /\ aw' \in DOMAIN wins
    BY <1>8, <2>1, <2>2 DEF KeyTab
  <2>4. QED
    BY <1>2, <1>8, <2>3
       DEF KeyTab, IInv, TypeRest, keyboard, pointer, selection
<1>9. CASE KeyEnter(k)
  <2>1. wins' \in Seq(GoodWin) /\ aw' \in DOMAIN wins'
    <3>1. CASE OpenWin("VSCodium")
      BY <3>1, OpenWinGood DEF Titles
    <3>2. CASE UNCHANGED <<wins, aw>>
      BY <3>2 DEF IInv, TypeRest
    <3>3. QED
      BY <1>9, <3>1, <3>2 DEF KeyEnter
  <2>2. QED
    BY <1>2, <1>9, <2>1, InputAssumption
       DEF KeyEnter, IInv, TypeRest, pointer, selection
<1>10. CASE KeyType(k)
  <2>1. term_len' \in 0..TermMax
    BY <1>10, InputAssumption DEF KeyType, IInv, TypeRest
  <2>2. QED
    BY <1>2, <1>10, <2>1
       DEF KeyType, IInv, TypeRest, desktop, pointer, selection
<1>11. QED
  BY <1>1, <1>3, <1>4, <1>5, <1>6, <1>7, <1>8, <1>9, <1>10

(* shell_handle_click.                                                     *)
LEMMA FocusLastType ==
  ASSUME aw \in DOMAIN wins, NEW above, FocusLast(ClientHits(above))
  PROVE  aw' \in DOMAIN wins
BY DEF FocusLast, ClientHits

LEMMA ClickFrameKeeps ==
  ASSUME IInv, ClickFrame
  PROVE  wins' \in Seq(GoodWin) /\ aw' \in DOMAIN wins'
<1>1. PICK j \in DOMAIN wins : ClickHide(j) \/ ClickMaximize(j) \/ ClickTitle(j)
  BY DEF ClickFrame
<1>2. aw \in DOMAIN wins
  BY DEF IInv, TypeRest
<1>3. aw' \in DOMAIN wins
  BY <1>1, <1>2, FocusLastType DEF ClickHide, ClickMaximize, ClickTitle
<1>4. wins' \in Seq(GoodWin) /\ DOMAIN wins' = DOMAIN wins
  BY <1>1, OneChanged DEF ClickHide, ClickMaximize, ClickTitle
<1>5. QED
  BY <1>3, <1>4

LEMMA LaunchKeeps ==
  ASSUME IInv, NEW hits, Launch(hits)
  PROVE  wins' \in Seq(GoodWin) /\ aw' \in DOMAIN wins'
<1>1. CASE \E t \in hits \cap Titles : OpenWin(t)
  BY <1>1, OpenWinGood
<1>2. CASE FocusLast(ClientHits(0)) /\ UNCHANGED wins
  BY <1>2, FocusLastType DEF IInv, TypeRest
<1>3. QED
  BY <1>1, <1>2 DEF Launch

LEMMA ClickKeeps ==
  ASSUME IInv, Click, UNCHANGED <<mx, my, mouse_pressed, keyboard>>,
         mclick' = FALSE, pc' = "settle"
  PROVE  IInv'
<1>1. CASE ClickDialog
  BY <1>1 DEF ClickDialog, IInv, TypeRest, desktop, keyboard, Phases
<1>2. CASE ClickGuideButton
  <2>1. guide_page' \in 0..(GUIDE_PAGES - 1)
    <3>1. guide_page \in 0..(GUIDE_PAGES - 1)
      BY DEF IInv, TypeRest
    <3>2. \/ guide_page' = (guide_page + GUIDE_PAGES - 1) % GUIDE_PAGES
          \/ guide_page' = (guide_page + 1) % GUIDE_PAGES
          \/ guide_page' = guide_page
      BY <1>2 DEF ClickGuideButton
    <3>3. QED
      BY ONLY <3>1, <3>2, CountAssumption
  <2>2. QED
    BY <1>2, <2>1
       DEF ClickGuideButton, IInv, TypeRest, selection, keyboard, Phases
<1>3. CASE ClickFrame
  <2>1. wins' \in Seq(GoodWin) /\ aw' \in DOMAIN wins'
    BY <1>3, ClickFrameKeeps
  <2>2. QED
    BY <1>3, <2>1 DEF ClickFrame, IInv, TypeRest, selection, keyboard, Phases
<1>4. ASSUME NEW inst \in SUBSET Installable, ClickLauncher(inst) PROVE IInv'
  <2>1. wins' \in Seq(GoodWin) /\ aw' \in DOMAIN wins'
    BY <1>4, LaunchKeeps DEF ClickLauncher
  <2>2. QED
    BY <1>4, <2>1 DEF ClickLauncher, IInv, TypeRest, selection, keyboard, Phases
<1>5. ASSUME NEW inst \in SUBSET Installable, ClickClient(inst) PROVE IInv'
  <2>1. aw' \in DOMAIN wins
    BY <1>5, FocusLastType DEF ClickClient, IInv, TypeRest
  <2>2. sel_start' \in Int \X Int /\ selecting' \in BOOLEAN
    <3>1. /\ sel_start \in Int \X Int /\ selecting \in BOOLEAN
          /\ <<mx, my>> \in Int \X Int
      BY DisplayAssumption DEF IInv, TypeRest, PANEL_H
    <3>2. \/ selecting' = TRUE /\ sel_start' = <<mx, my>>
          \/ selecting' = selecting /\ sel_start' = sel_start
      BY <1>5 DEF ClickClient
    <3>3. QED
      BY ONLY <3>1, <3>2
  <2>3. QED
    BY <1>5, <2>1, <2>2 DEF ClickClient, IInv, TypeRest, keyboard, Phases
<1>6. QED
  BY <1>1, <1>2, <1>3, <1>4, <1>5 DEF Click

(* The end of an iteration: the drags dropped and the selection ended.     *)
LEMMA SettleKeeps ==
  ASSUME IInv, Settle PROVE IInv'
<1>1. CASE mouse_pressed
  BY <1>1 DEF Settle, IInv, TypeRest, selection, pointer, keyboard, Phases
<1>2. CASE ~mouse_pressed
  <2>1. wins' \in Seq(GoodWin) /\ DOMAIN wins' = DOMAIN wins
    <3>1. \A i \in DOMAIN wins : wins'[i] \in GoodWin
      BY <1>2, OneGood, StillGood DEF Settle, DropAll, IInv
    <3>2. wins' = [i \in DOMAIN wins |-> wins'[i]]
      BY <1>2 DEF Settle, DropAll
    <3>3. QED
      BY <3>1, <3>2, UpdateAll DEF IInv
  <2>2. wins[aw].title \in Titles
    BY OneGood DEF IInv, TypeRest
  <2>3. /\ selecting' \in BOOLEAN /\ sel_start' \in Int \X Int
        /\ show_copy_dialog' \in BOOLEAN
        /\ selected_text' \in Titles \cup {"none"}
    <3>1. selecting' = FALSE /\ sel_start' = <<0, 0>>
      BY <1>2 DEF Settle, EndSelection
    <3>2. \/ /\ selected_text' \in {"none", wins[aw].title}
             /\ show_copy_dialog' = (show_copy_dialog \/ selected_text' # "none")
          \/ UNCHANGED <<show_copy_dialog, selected_text>>
      BY <1>2 DEF Settle, EndSelection
    <3>3. show_copy_dialog \in BOOLEAN /\ selected_text \in Titles \cup {"none"}
      BY DEF IInv, TypeRest
    <3>4. QED
      <4>1. show_copy_dialog' \in BOOLEAN
        BY <3>2, <3>3, Zenon
      <4>2. selected_text' \in {selected_text, "none", wins[aw].title}
        BY <3>2
      <4>3. sel_start' \in Int \X Int
        BY <3>1
      <4>4. QED
        BY <2>2, <3>1, <3>3, <4>1, <4>2, <4>3
  <2>4. QED
    BY <1>2, <2>1, <2>3 DEF Settle, IInv, TypeRest, pointer, keyboard, Phases
<1>3. QED
  BY <1>1, <1>2 DEF IInv, TypeRest

LEMMA NextIInv ==
  ASSUME IInv, [Next]_vars PROVE IInv'
<1>1. CASE MouseEvent
  BY <1>1, MouseEventKeeps
<1>2. CASE ButtonDown \/ ButtonUp \/ SuperUp \/ EndPoll \/ EndFrame
  <2> USE DEF IInv, TypeRest, desktop, pointer, selection, keyboard, Phases
  <2>1. CASE ButtonDown
    BY <2>1 DEF ButtonDown
  <2>2. CASE ButtonUp
    BY <2>2 DEF ButtonUp
  <2>3. CASE SuperUp
    BY <2>3 DEF SuperUp
  <2>4. CASE EndPoll
    BY <2>4 DEF EndPoll
  <2>5. CASE EndFrame
    BY <2>5 DEF EndFrame
  <2>6. QED
    BY <1>2, <2>1, <2>2, <2>3, <2>4, <2>5
<1>3. CASE KeyDown
  BY <1>3, KeyDownKeeps
<1>4. CASE Dispatch
  <2>1. CASE mclick
    BY <1>4, <2>1, ClickKeeps DEF Dispatch
  <2>2. CASE ~mclick
    BY <1>4, <2>2 DEF Dispatch, IInv, TypeRest, desktop, selection, keyboard, Phases
  <2>3. QED
    BY <2>1, <2>2
<1>5. CASE Settle
  BY <1>5, SettleKeeps
<1>6. CASE UNCHANGED vars
  BY <1>6 DEF vars, desktop, pointer, selection, keyboard, IInv, TypeRest
<1>7. QED
  BY <1>1, <1>2, <1>3, <1>4, <1>5, <1>6 DEF Next, Input, Loop

LEMMA AlwaysIInv == Spec => []IInv
BY InitIInv, NextIInv, PTL DEF Spec

(***************************************************************************)
(* Theorems                                                                *)
(***************************************************************************)

(* The state of the desktop has its types, and the focus is an index of a  *)
(* window, after any keys, clicks and moves (shell_handle_key and          *)
(* extract_selected_text read wins[aw] without a test).                    *)
THEOREM TypeCorrect == Spec => []TypeOK
<1>1. IInv => TypeOK
  <2>1. GoodWin \subseteq WinType
    BY DEF GoodWin
  <2>2. wins \in Seq(GoodWin) => wins \in Seq(WinType)
    BY <2>1
  <2>3. QED
    BY <2>2 DEF IInv, TypeRest, TypeOK
<1>2. QED
  BY <1>1, AlwaysIInv, PTL

(* On a display of any size above the largest window's, no events take a   *)
(* window, or the place it returns to, off the display or under the panel  *)
(* and the dock (shell_handle_mouse, shell_handle_click, wnew).            *)
THEOREM OnScreen == Spec => []WindowsOnScreen
<1>1. IInv => WindowsOnScreen
  BY OneGood DEF IInv, GoodWin, Placed, WindowsOnScreen
<1>2. QED
  BY <1>1, AlwaysIInv, PTL

(* Maximizing and restoring, in any order with drags, never loses the size *)
(* a window was made with (shell_handle_click).                            *)
THEOREM SizesKept == Spec => []SizeKept
<1>1. IInv => SizeKept
  BY OneGood DEF IInv, GoodWin, Sized, SizeKept
<1>2. QED
  BY <1>1, AlwaysIInv, PTL

(***************************************************************************)
(* One window per title                                                    *)
(***************************************************************************)
SameTitles ==
  /\ DOMAIN wins' = DOMAIN wins
  /\ \A i \in DOMAIN wins : wins'[i].title = wins[i].title
Opened(t) ==
  /\ \A i \in DOMAIN wins : wins[i].title # t
  /\ wins' = Append(wins, NewWin(t, Len(wins) + 1, current_ws))

(* Operators of Shell that keep a window's title, or whether it is dragged. *)
LEMMA TitleKept ==
  ASSUME NEW w \in WinType, NEW px, NEW py
  PROVE  /\ Hidden(w).title = w.title /\ Reopened(w).title = w.title
         /\ Grabbed(w).title = w.title /\ Dropped(w).title = w.title
         /\ ToggleMaximize(w).title = w.title
         /\ Dragged(w, px, py).title = w.title
BY DEF WinType, Hidden, Reopened, Grabbed, Dropped, ToggleMaximize, Maximized,
       Restored, Dragged

LEMMA DragKept ==
  ASSUME NEW w \in WinType, NEW px, NEW py
  PROVE  /\ Hidden(w).drag = w.drag /\ Reopened(w).drag = w.drag
         /\ Dragged(w, px, py).drag = w.drag
         /\ Dropped(w).drag = FALSE
BY DEF WinType, Hidden, Reopened, Dropped, Dragged

LEMMA OneChangedTitle ==
  ASSUME IInv, NEW j \in DOMAIN wins,
         \/ wins' = [wins EXCEPT ![j] = Hidden(wins[j])]
         \/ wins' = [wins EXCEPT ![j] = Reopened(wins[j])]
         \/ wins' = [wins EXCEPT ![j] = Grabbed(wins[j])]
         \/ wins' = [wins EXCEPT ![j] = ToggleMaximize(wins[j])]
  PROVE  SameTitles
<1>1. wins[j] \in WinType
  BY OneGood DEF IInv
<1>2. PICK g : wins' = [wins EXCEPT ![j] = g] /\ g.title = wins[j].title
  BY <1>1, TitleKept
<1>3. QED
  BY <1>2 DEF SameTitles, IInv

LEMMA OpenWinTitles ==
  ASSUME IInv, NEW t \in Titles, OpenWin(t)
  PROVE  SameTitles \/ Opened(t)
BY OneChangedTitle DEF OpenWin, Opened

(* A step keeps the titles or appends a window of a title that was absent. *)
LEMMA StepTitles ==
  ASSUME IInv, [Next]_vars
  PROVE  SameTitles \/ \E t \in Titles : Opened(t)
<1>1. CASE UNCHANGED wins
  BY <1>1 DEF SameTitles
<1>2. CASE MouseEvent
  <2>1. PICK px, py :
          wins' = [i \in DOMAIN wins |-> IF wins[i].drag
                                         THEN Dragged(wins[i], px, py)
                                         ELSE wins[i]]
    BY <1>2 DEF MouseEvent, HandleMouse
  <2>2. QED
    BY <2>1, OneGood, TitleKept DEF SameTitles, IInv
<1>3. CASE KeyDown
  <2>1. CASE \E k \in Keys : KeyHide(k)
    BY <2>1, OneChangedTitle DEF KeyHide, IInv, TypeRest
  <2>2. CASE OpenWin("VSCodium")
    BY <2>2, OpenWinTitles DEF Titles
  <2>3. QED
    BY <1>1, <1>3, <2>1, <2>2
       DEF KeyDown, KeyEscape, KeySuper, KeyGuidePage, KeyWorkspace, KeyTab,
           KeyEnter, KeyType, desktop
<1>4. CASE Dispatch
  <2>1. CASE ClickFrame
    BY <2>1, OneChangedTitle
       DEF ClickFrame, ClickHide, ClickMaximize, ClickTitle
  <2>2. CASE \E hits : Launch(hits)
    BY <1>1, <2>2, OpenWinTitles DEF Launch
  <2>3. QED
    BY <1>1, <1>4, <2>1, <2>2
       DEF Dispatch, Click, ClickDialog, ClickGuideButton, ClickLauncher,
           ClickClient, desktop
<1>5. CASE Settle
  <2>1. CASE DropAll
    BY <2>1, OneGood, TitleKept DEF DropAll, SameTitles, IInv
  <2>2. QED
    BY <1>1, <1>5, <2>1 DEF Settle
<1>6. QED
  BY <1>1, <1>2, <1>3, <1>4, <1>5
     DEF Next, Input, Loop, ButtonDown, ButtonUp, SuperUp, EndPoll, EndFrame,
         vars, desktop

(* However many windows there are, no icon, dock slot or command makes a   *)
(* second window of a title (find_win in shell_handle_click and            *)
(* cmd_launch_codium).                                                     *)
THEOREM OneOfEach == Spec => []OneWindowPerTitle
<1>1. Init => OneWindowPerTitle
  <2>1. ASSUME Init PROVE OneWindowPerTitle
    <3>1. DOMAIN wins = 1..4
      BY <2>1 DEF Init
    <3>2. /\ wins[1].title = "Terminal" /\ wins[2].title = "SysInfo"
          /\ wins[3].title = "Handbook" /\ wins[4].title = "Guide"
      BY <2>1 DEF Init, NewWin
    <3>3. QED
      BY <3>1, <3>2 DEF OneWindowPerTitle
  <2>2. QED
    BY <2>1
<1>2. ASSUME IInv, OneWindowPerTitle, [Next]_vars PROVE OneWindowPerTitle'
  <2>1. CASE SameTitles
    BY <1>2, <2>1 DEF SameTitles, OneWindowPerTitle
  <2>2. ASSUME NEW t \in Titles, Opened(t) PROVE OneWindowPerTitle'
    <3>1. Len(wins) \in Nat /\ DOMAIN wins = 1..Len(wins)
      BY <1>2 DEF IInv
    <3>2. /\ DOMAIN wins' = 1..(Len(wins) + 1)
          /\ \A i \in DOMAIN wins : wins'[i] = wins[i]
          /\ wins'[Len(wins) + 1].title = t
      BY <1>2, <2>2, <3>1 DEF Opened, NewWin, IInv
    <3>3. \A i \in DOMAIN wins' : i \in DOMAIN wins \/ i = Len(wins) + 1
      BY <3>1, <3>2
    <3>4. QED
      BY <1>2, <2>2, <3>2, <3>3 DEF Opened, OneWindowPerTitle
  <2>3. QED
    BY <1>2, <2>1, <2>2, StepTitles
<1>3. QED
  BY <1>1, <1>2, AlwaysIInv, PTL DEF Spec

(***************************************************************************)
(* The modal dialog                                                        *)
(***************************************************************************)

LEMMA OneChangedDrag ==
  ASSUME IInv, NEW j \in DOMAIN wins,
         \/ wins' = [wins EXCEPT ![j] = Hidden(wins[j])]
         \/ wins' = [wins EXCEPT ![j] = Reopened(wins[j])]
  PROVE  /\ DOMAIN wins' = DOMAIN wins
         /\ \A i \in DOMAIN wins : wins'[i].drag = wins[i].drag
<1>1. wins[j] \in WinType
  BY OneGood DEF IInv
<1>2. PICK g : wins' = [wins EXCEPT ![j] = g] /\ g.drag = wins[j].drag
  BY <1>1, DragKept
<1>3. QED
  BY <1>2 DEF IInv

(* Nothing but a click outside the dialog starts a drag.                   *)
LEMMA StepDrags ==
  ASSUME IInv, show_copy_dialog, \A i \in DOMAIN wins : ~wins[i].drag, [Next]_vars
  PROVE  \A i \in DOMAIN wins' : ~wins'[i].drag
<1>1. CASE UNCHANGED wins
  BY <1>1
<1>2. CASE MouseEvent
  BY <1>2, OneGood, DragKept DEF MouseEvent, HandleMouse, IInv
<1>3. CASE KeyDown
  <2>1. CASE \E k \in Keys : KeyHide(k)
    BY <2>1, OneChangedDrag DEF KeyHide, IInv, TypeRest
  <2>2. CASE OpenWin("VSCodium")
    <3>1. CASE \E i \in DOMAIN wins : wins' = [wins EXCEPT ![i] = Reopened(wins[i])]
      BY <3>1, OneChangedDrag
    <3>2. CASE wins' = Append(wins, NewWin("VSCodium", Len(wins) + 1, current_ws))
      BY <3>2 DEF NewWin, IInv
    <3>3. QED
      BY <2>2, <3>1, <3>2 DEF OpenWin
  <2>3. QED
    BY <1>1, <1>3, <2>1, <2>2
       DEF KeyDown, KeyEscape, KeySuper, KeyGuidePage, KeyWorkspace, KeyTab,
           KeyEnter, KeyType, desktop
<1>4. CASE Dispatch
  BY <1>1, <1>4 DEF Dispatch, Click, ClickDialog, desktop
<1>5. CASE Settle
  <2>1. CASE DropAll
    BY <2>1, OneGood, DragKept DEF DropAll, IInv
  <2>2. QED
    BY <1>1, <1>5, <2>1 DEF Settle
<1>6. QED
  BY <1>1, <1>2, <1>3, <1>4, <1>5
     DEF Next, Input, Loop, ButtonDown, ButtonUp, SuperUp, EndPoll, EndFrame,
         vars, desktop

(* While the COPY/CANCEL dialog is up, no move, key or release leaves a    *)
(* drag or a selection under way beneath it, and it never shows an empty   *)
(* text (compositor_run, shell_handle_click).                              *)
THEOREM Modal == Spec => []DialogIsModal
<1>1. Init => DialogIsModal
  BY DEF Init, DialogIsModal
<1>2. ASSUME IInv, DialogIsModal, [Next]_vars PROVE DialogIsModal'
  <2>1. CASE show_copy_dialog
    <3>1. ~selecting /\ (\A i \in DOMAIN wins : ~wins[i].drag) /\ selected_text # "none"
      BY <1>2, <2>1 DEF DialogIsModal, Idle
    <3>2. \A i \in DOMAIN wins' : ~wins'[i].drag
      BY <1>2, <2>1, <3>1, StepDrags
    <3>3. selecting' = FALSE /\ selected_text' = selected_text
      <4>1. selecting = FALSE
        BY <1>2, <3>1 DEF IInv, TypeRest
      <4>2. QED
        BY <1>2, <2>1, <4>1
           DEF Next, Input, Loop, MouseEvent, ButtonDown, ButtonUp, KeyDown,
               SuperUp, EndPoll, Dispatch, Click, ClickDialog, Settle,
               EndSelection, EndFrame, vars, selection
    <3>4. QED
      BY <3>1, <3>2, <3>3 DEF DialogIsModal, Idle
  <2>2. CASE ~show_copy_dialog /\ show_copy_dialog'
    <3>1. Settle /\ ~mouse_pressed
      BY <1>2, <2>2
         DEF Next, Input, Loop, MouseEvent, ButtonDown, ButtonUp, KeyDown,
             SuperUp, EndPoll, Dispatch, Click, ClickDialog, ClickGuideButton,
             ClickFrame, ClickLauncher, ClickClient, Settle, EndFrame, vars,
             selection
    <3>2. selecting' = FALSE /\ selected_text' # "none"
      BY <1>2, <2>2, <3>1 DEF Settle, EndSelection, IInv, TypeRest
    <3>3. \A i \in DOMAIN wins' : ~wins'[i].drag
      <4>1. wins' = [i \in DOMAIN wins |-> Dropped(wins[i])]
        BY <3>1 DEF Settle, DropAll
      <4>2. \A i \in DOMAIN wins : Dropped(wins[i]).drag = FALSE
        BY <1>2, OneGood, DragKept DEF IInv
      <4>3. QED
        BY <4>1, <4>2
    <3>4. QED
      BY <3>2, <3>3 DEF DialogIsModal, Idle
  <2>3. QED
    BY <2>1, <2>2 DEF DialogIsModal
<1>3. QED
  BY <1>1, <1>2, AlwaysIInv, PTL DEF Spec

(***************************************************************************)
(* The focus after a click                                                 *)
(***************************************************************************)

(* A window that is opened or whose title is pressed is in the user's view.*)
LEMMA KeepsView ==
  ASSUME NEW w \in WinType
  PROVE  /\ Reopened(w).hidden = FALSE /\ Reopened(w).ws = current_ws
         /\ Grabbed(w).hidden = w.hidden /\ Grabbed(w).ws = w.ws
BY DEF Reopened, Grabbed, WinType

InView == ~wins'[aw'].hidden /\ wins'[aw'].ws = current_ws

(* A hit on a client area focuses a window that is shown, and the button   *)
(* that ends the loop belongs to another.                                  *)
LEMMA FocusedInView ==
  ASSUME NEW j \in Int, FocusLast(ClientHits(j)), aw' # aw,
         \A k \in DOMAIN wins : k > j => wins'[k] = wins[k]
  PROVE  InView
<1>1. PICK k \in ClientHits(j) : aw' = k
  BY DEF FocusLast
<1>2. k \in DOMAIN wins /\ k > j /\ Shown(wins[k])
  BY DEF ClientHits
<1>3. QED
  BY <1>1, <1>2 DEF Shown, InView

LEMMA FrameInView ==
  ASSUME IInv, ClickFrame, aw' # aw
  PROVE  InView
<1>1. PICK j \in DOMAIN wins :
        StopsAt(j) /\ (ClickHide(j) \/ ClickMaximize(j) \/ ClickTitle(j))
  BY DEF ClickFrame
<1>2. j \in Int /\ wins \in Seq(GoodWin)
  BY <1>1 DEF IInv
<1>3. wins[j] \in WinType
  BY <1>1, OneGood DEF IInv
<1>4. CASE ClickHide(j)
  <2>1. \A k \in DOMAIN wins : k > j => wins'[k] = wins[k]
    BY <1>2, <1>4 DEF ClickHide
  <2>2. QED
    BY <1>2, <1>4, <2>1, FocusedInView DEF ClickHide
<1>5. CASE ClickMaximize(j)
  <2>1. \A k \in DOMAIN wins : k > j => wins'[k] = wins[k]
    BY <1>2, <1>5 DEF ClickMaximize
  <2>2. QED
    BY <1>2, <1>5, <2>1, FocusedInView DEF ClickMaximize
<1>6. CASE ClickTitle(j)
  <2>1. aw' = j /\ wins'[j] = Grabbed(wins[j])
    BY <1>1, <1>6 DEF ClickTitle
  <2>2. Shown(wins[j])
    BY <1>1 DEF StopsAt
  <2>3. QED
    BY <1>3, <2>1, <2>2, KeepsView DEF Shown, InView
<1>7. QED
  BY <1>1, <1>4, <1>5, <1>6

LEMMA OpenedInView ==
  ASSUME IInv, NEW t, OpenWin(t)
  PROVE  InView
<1>1. CASE \E i \in DOMAIN wins :
             wins' = [wins EXCEPT ![i] = Reopened(wins[i])] /\ aw' = i
  <2>1. PICK i \in DOMAIN wins :
          wins' = [wins EXCEPT ![i] = Reopened(wins[i])] /\ aw' = i
    BY <1>1
  <2>2. wins[i] \in WinType
    BY OneGood DEF IInv
  <2>3. wins'[aw'] = Reopened(wins[i])
    BY <2>1
  <2>4. Reopened(wins[i]).hidden = FALSE /\ Reopened(wins[i]).ws = current_ws
    BY <2>2, KeepsView
  <2>5. QED
    BY <2>3, <2>4 DEF InView
<1>2. CASE wins' = Append(wins, NewWin(t, Len(wins) + 1, current_ws)) /\ aw' = Len(wins) + 1
  <2>1. wins \in Seq(GoodWin)
    BY DEF IInv
  <2>2. \A w : Append(wins, w)[Len(wins) + 1] = w
    BY <2>1
  <2>3. wins'[aw'] = NewWin(t, Len(wins) + 1, current_ws)
    BY <1>2, <2>2
  <2>4. QED
    BY <2>3 DEF NewWin, InView
<1>3. QED
  BY <1>1, <1>2 DEF OpenWin

LEMMA ClickInView ==
  ASSUME IInv, Click, aw' # aw
  PROVE  InView
<1>1. ASSUME UNCHANGED wins, FocusLast(ClientHits(0)) PROVE InView
  BY <1>1, FocusedInView
<1>2. CASE ClickFrame
  BY <1>2, FrameInView
<1>3. ASSUME NEW inst, ClickLauncher(inst) PROVE InView
  BY <1>1, <1>3, OpenedInView DEF ClickLauncher, Launch
<1>4. ASSUME NEW inst, ClickClient(inst) PROVE InView
  BY <1>1, <1>4 DEF ClickClient
<1>5. ~ClickDialog /\ ~ClickGuideButton
  BY DEF ClickDialog, ClickGuideButton, desktop
<1>6. QED
  BY <1>2, <1>3, <1>4, <1>5 DEF Click

(* A click gives the focus only to a window that is not hidden and is on   *)
(* the workspace that is shown, wherever the windows are and whichever of  *)
(* them overlap (shell_handle_click).                                      *)
THEOREM FocusesShown == Spec => ClickFocusesShown
<1>1. ASSUME IInv, [Next]_vars, pc = "click", aw' # aw
      PROVE  ~wins'[aw'].hidden /\ wins'[aw'].ws = current_ws
  <2>1. Dispatch
    BY <1>1 DEF Next, Input, Loop, MouseEvent, ButtonDown, ButtonUp, KeyDown,
                SuperUp, EndPoll, Settle, EndFrame, vars, desktop
  <2>2. Click
    BY <1>1, <2>1 DEF Dispatch, desktop
  <2>3. QED
    BY <1>1, <2>2, ClickInView DEF InView
<1>2. IInv /\ [Next]_vars
        => [pc = "click" /\ aw' # aw =>
              ~wins'[aw'].hidden /\ wins'[aw'].ws = current_ws]_vars
  BY <1>1
<1>3. QED
  BY <1>2, AlwaysIInv, PTL DEF Spec, ClickFocusesShown
=============================================================================
