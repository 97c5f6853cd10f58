------------------------------- MODULE Paint -------------------------------
(***************************************************************************)
(* SynPaint, the paint program: prog/SynPaint/src/app.cpp, canvas.cpp and  *)
(* ui.cpp.                                                                 *)
(*                                                                         *)
(* The program handles one SDL event after another.  A press on the canvas *)
(* saves the picture on the undo stack and starts a drag; every motion     *)
(* paints, or restores the saved picture and paints a preview; the release *)
(* of any button restores it and paints the shape.  While a dialog is open *)
(* it takes all events, the release of a drag under way included.          *)
(*                                                                         *)
(* Canvas::undo makes a surface of the memory of the undo stack's last     *)
(* picture and then frees that memory.  What is on the display afterwards  *)
(* lies in a block the allocator may unmap, hand out to anything, or to    *)
(* the next picture saved: `surf` says where it is, and every outcome is   *)
(* possible.                                                               *)
(*                                                                         *)
(* A picture is the sequence of marks painted on the white canvas.  Left   *)
(* out: colours and sizes, the text of the status line, drawing of the     *)
(* panel, and the sliders.                                                 *)
(***************************************************************************)
EXTENDS Integers, Sequences, SequencesExt

CONSTANTS
  Points,       (* Points of the canvas, below the palette's last row.       *)
  Tools,        (* The tools in use, of all seven.                           *)
  MAX_UNDO      (* 20.                                                       *)

Freehand == {"PEN", "BRUSH", "ERASER"}
Shapes == {"LINE", "RECT", "CIRCLE"}

ASSUME PaintAssumption ==
  /\ Points # {}
  /\ "BRUSH" \in Tools /\ Tools \subseteq Freehand \cup Shapes \cup {"FILL"}
  /\ MAX_UNDO \in Nat \ {0}

(* Off the canvas, everything may be at the same place.                    *)
Places == Points \cup {"panel"}
Buttons == {"left", "right"}

VARIABLES
  at, held,         (* Where the pointer is, and the buttons held.           *)
  overlay,          (* "none", "picker" or "about".                          *)
  tool, drawing, start, mouse,            (* ToolState.                      *)
  canvas,           (* The picture on the display, the pictures of the undo  *)
                    (* stack, oldest first, and the memory the picture lies  *)
                    (* in: Own, Freed, Gone, or the position of the saved    *)
                    (* picture it shares it with.                            *)
  base, calm,       (* The picture when the drag began, and whether only     *)
                    (* motions and choices of tools came since.              *)
  history           (* Every picture saved and not undone, as it was saved.  *)

pointer == <<at, held>>
toolstate == <<tool, drawing, start, mouse>>
ghosts == <<base, calm, history>>
paintVars == <<pointer, overlay, toolstate, canvas, ghosts>>

White == << >>
Mark(t, from, to) == [tool |-> t, from |-> from, to |-> to]
Stroke(t) == Mark(t, "panel", "panel")      \* no property asks where it is
Blank == <<Mark("zeros", "panel", "panel")>>
Noise == <<Mark("noise", "panel", "panel")>>
Shared == <<Mark("shared", "panel", "panel")>>    \* in the history only

(* Where the picture lies, if not in the k-th saved picture.               *)
Own == 0
Freed == -1
Gone == -2

PaintInit ==
  /\ at = "panel" /\ held = {} /\ overlay = "none"
  /\ tool = "BRUSH" /\ drawing = FALSE
  /\ start = "panel" /\ mouse = "panel"
  /\ canvas = [picture |-> White, undo |-> << >>, surf |-> Own]
  /\ base = White /\ calm = FALSE /\ history = << >>

(***************************************************************************)
(* Canvas                                                                  *)
(***************************************************************************)
(* Pixels written through surf change the saved picture they lie in.       *)
Painted(c, p) ==
  [c EXCEPT !.picture = p,
            !.undo = IF c.surf \in DOMAIN @ THEN [@ EXCEPT ![c.surf] = p] ELSE @]

(* Faulty variant: a full stack drops its newest picture.                  *)
PushKeepOldest(c, p, surf) ==
  [picture |-> p, undo |-> IF Len(c.undo) < MAX_UNDO THEN Append(c.undo, p) ELSE c.undo,
   surf |-> surf]

(* push_back, and erase(begin()) of a stack that grew too long.            *)
Push(c, p, surf) ==
  IF Len(c.undo) < MAX_UNDO
  THEN [picture |-> p, undo |-> Append(c.undo, p), surf |-> surf]
  ELSE [picture |-> p, undo |-> Tail(Append(c.undo, p)),
        surf |-> CASE surf = 1 -> Freed
                   [] surf > 1 -> surf - 1
                   [] OTHER -> surf]

(* save_undo makes two copies, one after the other.  If the picture lies   *)
(* in a freed block, that block may be gone, or the first copy may get it, *)
(* which fills its memory with zeros before it copies, or the second, the  *)
(* one that stays on the stack.                                            *)
Saves(c) ==
  {Push(c, c.picture, c.surf)} \cup
    (IF c.surf # Freed THEN {}
     ELSE {Push(c, Blank, Freed), Push(c, c.picture, Len(c.undo) + 1),
           [c EXCEPT !.surf = Gone]})

(* Faulty variant: the oldest picture comes back.                          *)
UndoesOldest(c) ==
  IF c.undo = << >> THEN {c}
  ELSE {[picture |-> Head(c.undo), undo |-> Tail(c.undo), surf |-> s] :
          s \in {Freed, Gone}}

(* undo, whose sync reads the block that pop_back has just freed.          *)
Undoes(c) ==
  IF c.undo = << >> THEN {c}
  ELSE {[picture |-> Last(c.undo), undo |-> Front(c.undo), surf |-> s] :
          s \in {Freed, Gone}}

(* restore_from(peek_undo()), if there is one.                             *)
Restored(c) == IF c.undo = << >> THEN c ELSE Painted(c, Last(c.undo))

(* Whatever is allocated next may get the freed block.                     *)
Scribble ==
  /\ canvas.surf = Freed
  /\ canvas' = Painted(canvas, Noise)
  /\ UNCHANGED <<pointer, overlay, toolstate, ghosts>>

(***************************************************************************)
(* Commands of the panel and the keyboard                                  *)
(***************************************************************************)
ChooseTool == \E t \in Tools :
  /\ tool' = t
  /\ UNCHANGED <<overlay, drawing, start, mouse, canvas, ghosts>>

OpenDialog == \E d \in {"picker", "about"} :
  /\ overlay' = d
  /\ UNCHANGED <<toolstate, canvas, ghosts>>

(* The drag under way, if any, is no longer one of the undisturbed.        *)
Disturbed == calm' = FALSE /\ base' = White

(* save_undo; what was saved is the picture that save_undo left.           *)
save_undo(c) ==
  /\ c \in Saves(canvas)
  /\ history' = IF c.surf = Gone THEN history
                ELSE Append(history, IF c.surf = Len(c.undo) THEN Shared ELSE c.picture)

NewCanvas == \E c \in Saves(canvas) :
  /\ save_undo(c)
  /\ canvas' = Painted(c, White)
  /\ Disturbed
  /\ UNCHANGED <<overlay, toolstate>>

Undo ==
  /\ canvas' \in Undoes(canvas)
  /\ history' = IF canvas.undo = << >> THEN history ELSE Front(history)
  /\ Disturbed
  /\ UNCHANGED <<overlay, toolstate>>

(* The slider, the swap of colours, Save PNG, and where nothing is.        *)
NoCommand == UNCHANGED <<overlay, toolstate, canvas, ghosts>>

(***************************************************************************)
(* Dialogs                                                                 *)
(***************************************************************************)

(* picker_handle: OK, Cancel and a press outside close it.  The picker     *)
(* lies over the canvas; nothing of the panel is under it.                 *)
PickerDown ==
  /\ overlay = "picker"
  /\ \/ overlay' = "none"
     \/ at \in Points /\ UNCHANGED overlay
  /\ UNCHANGED <<toolstate, canvas, ghosts>>

AboutDown ==
  /\ overlay = "about"
  /\ overlay' = "none"
  /\ UNCHANGED <<toolstate, canvas, ghosts>>

(***************************************************************************)
(* Mouse                                                                   *)
(***************************************************************************)

(* fill_flood changes nothing if the point has the colour already.         *)
Fill == \E c \in Saves(canvas) :
  /\ save_undo(c)
  /\ canvas' \in {c, Painted(c, Append(c.picture, Stroke("FILL")))}
  /\ Disturbed
  /\ UNCHANGED <<overlay, toolstate>>

StartDrag == \E c \in Saves(canvas) :
  /\ save_undo(c)
  /\ canvas' = c
  /\ drawing' = TRUE
  /\ start' = at
  /\ base' = c.picture /\ calm' = TRUE
  /\ UNCHANGED <<overlay, tool, mouse>>

PanelDown == ChooseTool \/ OpenDialog \/ NewCanvas \/ Undo \/ NoCommand

(* A press on the palette only sets a colour.                              *)
CanvasDown(b) ==
  IF at \notin Points \/ b # "left" THEN NoCommand
  ELSE IF tool = "FILL" THEN Fill ELSE StartDrag

MouseDown(b) ==
  /\ b \notin held
  /\ held' = held \cup {b}
  /\ UNCHANGED at
  /\ \/ PickerDown
     \/ AboutDown
     \/ /\ overlay = "none"
        /\ IF at = "panel" THEN PanelDown ELSE CanvasDown(b)

(* Faulty variant: the shape is painted over its preview.                  *)
FinishedOverPreview(c) ==
  IF tool \in Shapes
  THEN Painted(c, Append(c.picture, Mark(tool, start, mouse)))
  ELSE Restored(c)

(* finish_shape; a stroke of the pen, brush or eraser is not painted again.*)
Finished(c) ==
  IF tool \in Shapes
  THEN Painted(c, Append(Restored(c).picture, Mark(tool, start, mouse)))
  ELSE Restored(c)

(* The release of any button ends the drag.                                *)
MouseUp(b) ==
  /\ b \in held
  /\ held' = held \ {b}
  /\ IF overlay = "none" /\ drawing
     THEN drawing' = FALSE /\ canvas' = Finished(canvas) /\ Disturbed
     ELSE UNCHANGED <<drawing, canvas, calm, base>>
  /\ UNCHANGED <<at, overlay, tool, start, mouse, history>>

(* A piece of stroke from the last point, or a preview from the first.     *)
Dragged(c, p) ==
  CASE tool \in Freehand -> Painted(c, Append(c.picture, Stroke(tool)))
    [] tool \in Shapes -> Painted(c, Append(Restored(c).picture, Mark(tool, start, p)))
    [] OTHER -> Restored(c)

MouseMove(p) ==
  /\ p # at
  /\ at' = p
  /\ IF overlay # "none" THEN UNCHANGED <<mouse, canvas>>
     ELSE mouse' = p /\ canvas' = IF drawing THEN Dragged(canvas, p) ELSE canvas
  /\ UNCHANGED <<held, overlay, tool, drawing, start, ghosts>>

(* Ctrl+Z and Ctrl+N; Ctrl+S saves a file.                                 *)
KeyDown ==
  /\ overlay = "none"
  /\ Undo \/ NewCanvas
  /\ UNCHANGED pointer

(* run, until the window is closed or the freed block is gone.             *)
PaintNext ==
  /\ canvas.surf # Gone
  /\ \/ \E b \in Buttons : MouseDown(b) \/ MouseUp(b)
     \/ \E p \in Places : MouseMove(p)
     \/ KeyDown
     \/ Scribble

PaintSpec == PaintInit /\ [][PaintNext]_paintVars

(***************************************************************************)
(* Properties                                                              *)
(***************************************************************************)

(* The display has its own memory, a freed block, or an older saved        *)
(* picture: not the newest one, where motions paint on what they restore.  *)
Apart(c) == c.surf \in {Own, Freed} \cup 1..(Len(c.undo) - 1)

(* From the press on, while nothing but motions and choices of tools       *)
(* happens, the newest saved picture is the one the drag began with, which *)
(* restore_from brings back at each motion: whatever was undone before and *)
(* whoever writes to the block it freed, but not where the save at the     *)
(* press got that block.                                                   *)
BaseOnTop ==
  drawing /\ calm /\ Apart(canvas) =>
    canvas.undo # << >> /\ Last(canvas.undo) = base

(* A drag that ends as a line, a rectangle or a circle, through whatever   *)
(* tools, previews and dialogs it went, leaves the picture it began with   *)
(* and that shape, and no trace of the others.                             *)
DragLeavesOneShape ==
  [][drawing /\ ~drawing' /\ calm /\ Apart(canvas) /\ tool \in Shapes =>
       canvas'.picture = Append(base, Mark(tool, start, mouse))]_paintVars

(* The undo stack has the latest pictures saved and not undone, in their   *)
(* order and as they were saved, except those that shared their memory     *)
(* with the display.                                                       *)
UndoIsHistory ==
  LET n == Len(canvas.undo)
      h == Len(history)
  IN  /\ n <= MAX_UNDO /\ n <= h
      /\ \A k \in 1..n : history[h - n + k] \in {Shared, canvas.undo[k]}
=============================================================================
