------------------------------ MODULE MCPaint ------------------------------
(* Instances of Paint with one or two points of the canvas and an undo     *)
(* stack of two pictures, which three saves overflow.                      *)
EXTENDS Paint

CONSTANTS MaxSaves, MaxMarks

(* Pictures of few marks, fewer once something was undone, and few saves.  *)
Bounded ==
  /\ Len(canvas.picture) <= MaxMarks
  /\ Len(history) <= MaxSaves
  /\ canvas.surf # Own => Len(canvas.picture) <= 1 /\ overlay # "about"
=============================================================================
