SPECIFICATION Spec
CONSTANTS
  FbW = 1024
  FbH = 768
  AbsX = {520}
  AbsY = {480, 740}
  RelX <- Left240
  RelY = {500}
  Keys = {1, 2, 3, 14, 28, 30, 58, 103, 105, 106, 108, 125}
  Installable = {"VSCodium"}
  TermMax = 1
  WORKSPACES = 2
  GUIDE_PAGES = 2
INVARIANT OneWindowPerTitle
PROPERTIES ClickFocusesShown EscapeExits
\* ESC ends the program: pc = "exit" has no successor.
CHECK_DEADLOCK FALSE
