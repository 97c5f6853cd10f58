SPECIFICATION Spec
CONSTANTS
  FbW = 1024
  FbH = 768
  AbsX = {45, 150, 165}
  AbsY = {87, 420}
  RelX = {}
  RelY <- Up500
  Keys = {1, 14, 15, 28, 30, 58, 103, 108, 2, 3, 125}
  Installable = {"VSCodium"}
  TermMax = 1
  WORKSPACES = 2
  GUIDE_PAGES = 2
  MaxInstalls = 2
  MaxDepartures = 2
CONSTRAINT Bounded
INVARIANT GestureHasButton
PROPERTIES StackKept FocusFollows
\* ESC ends the loop: pc = "exit" has no successor.
CHECK_DEADLOCK FALSE
