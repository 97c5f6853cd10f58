SPECIFICATION PaintSpec
CONSTANTS
  Points = {"p"}
  Tools = {"BRUSH", "RECT", "FILL"}
  MAX_UNDO = 2
  MaxSaves = 3
  MaxMarks = 2
CONSTRAINT Bounded
INVARIANTS BaseOnTop UndoIsHistory
PROPERTY DragLeavesOneShape
\* Once the display reads a block that is gone nothing more is known.
CHECK_DEADLOCK FALSE
