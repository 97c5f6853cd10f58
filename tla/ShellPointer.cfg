SPECIFICATION Spec
CONSTANTS
  FbW = 1024
  FbH = 768
  AbsX = {45, 150, 400}
  AbsY = {41, 87, 420}
  RelX = {}
  RelY = {}
  Keys = {15}
  Installable = {}
  TermMax = 0
  WORKSPACES = 2
  GUIDE_PAGES = 2
INVARIANTS WindowsOnScreen SizeKept DialogIsModal
PROPERTY ReleaseEndsGesture
